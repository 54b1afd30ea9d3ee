# A verification project for the trading platform

TLA+ modules of the trading platform, the TLC configurations that check them on
small instances, and TLAPS proofs about order execution, the capital book, the
event journal, notification delivery, the symbol universe, the candle archive and
the parameter sweep of the backtester. Paths below are relative to
`src/src/trading_platform/` unless they start with `src/`.

`PROJECT.json` is the index: which lines every definition models (`map`), which
property covers which hazard, for every property a plausible bug (`mutants`)
under which TLC finds it violated, and the theorems. A helper whose lines lie
inside those of the operation that uses it may have no entry of its own.

## 1. The system

The platform trades perpetual futures on Binance with one process per strategy,
and supports that with market data, a ledger, notifications and backtests.

```
exchange --trades--> market service --Redis stream--> strategy process --orders--> exchange
                          |   ^                          |    ^   |                   |
                     archives |                      WAL, jobs |  journal       user data stream
                          |  subscriptions               |    |   |                   |
                          v                              v    |   v                   v
                     backtest, sweep ----reports----> PostgreSQL (ledger) <-----------+
                                                         |
                                                 notifications, HTTP API
```

A strategy process writes an intent to a write-ahead log (WAL), posts the order,
and learns what became of it from the reply, the user data stream, a poller or a
resynchronisation. The risk guard counts what is open or reserved, a Campaign
(one signal's entries and exits) owns a lease while it has risk, and the capital
book is settled when it ends.

## 2. Modules

One module per component. Its variables are the fields and rows the code reads
back, its actions are the stretches of code between two awaits (or of one
transaction, one thread step, one process step). The comment at the head of each
module names the code.

### Execution

| Module | Models | State and actions |
|---|---|---|
| `OrderStates` | `shared/order_states.py`, row operations of `shared/execution_recovery.py` | the transition table and what each WAL operation makes of the latest row of an order |
| `OrderFacts` | what the WAL promises | abstract history of an order: one fact, moving along the life cycle |
| `OrderExecution` | `shared/binance/live_executor.py`, `runtime.py`, `execution_recovery.py`, `ledger/binance_startup_sync.py` | submit (intent row, POST, reply, error, cancellation of the task), report handling, poller, sync after start and reconnect, cancel task, disconnect, crash; the exchange is external |
| `OrderExecutionLemmas`, `OrderExecutionProofs` | | theorems about `OrderExecution` (section 6) |
| `OrderRisk` | `shared/risk.py`, `shared/binance/strategy_account.py` | reservations, position watermarks, limits; order and account updates in either order |
| `Campaign` | `strategies/spike/live.py`, `strategies/execution_queue.py`, `ledger/execution_jobs.py` | admission, lease, durable exit jobs, the worker and its lock, settlement, release, restart |
| `Capital` | `strategies/spike/capital.py`, `capital_store.py` | settlement, reinvestment, breach, wallet reconciliation, entry gate; its theorems at the end of the module |
| `FundingIncome` | `ledger/income_sync.py`, `income_store.py`, `_settle_campaign` of `live.py` | paging through the growing history, upsert, the sum a Campaign is settled with |
| `EventJournal` | `shared/execution_event_journal.py` | append in a thread, mirror, compaction, reload, stop |
| `JournalProofs` | | theorems about `EventJournal` |
| `LedgerBooks` | the Binance writers of `ledger/`, `ledger/db/models.py` | orders, trades and positions of one symbol |
| `LedgerReports` | `ledger/api/routes.py`, the report queries of `models.py` | campaign and position rounds from fills |

### Services and links to the exchange

| Module | Models |
|---|---|
| `NotificationDelivery` | `notifications/worker.py`, `repository.py`, `adapters.py`: claim, lease, send, retry, dead letter, manual retry |
| `DeliveryProofs` | theorems about `NotificationDelivery` |
| `NotificationSources` | `notifications/sources.py`: polls for strategy states, order failures, hourly summaries |
| `NotificationConfig` | `ledger/api/notifications.py`, `repository.py`: edits with versions, routing |
| `SymbolUniverse` | `ledger/exchange_symbols.py`, `strategies/admission.py`, scans of `spike/main.py`; its theorems at the end of the module |
| `UserStream` | `shared/binance/user_stream.py`: socket thread, posted calls, callback worker, listen key, reconnect, stop |
| `RestClient` | `shared/binance/rest_client.py`, `rate_limiter.py` |

### Market data

| Module | Models |
|---|---|
| `MarketFeed` | `market/main.py`, `feed/`, `recovery.py`, `store/`: socket queue, seconds, continuity loop, Redis stream |
| `BarConsumer` | the consumer in `strategies/spike/main.py`: queue, continuity by trade id, recovery, gate |
| `Subscriptions` | `market/api/routes.py`, `market/quality.py`, `strategies/kline/base.py`, `strategies/tick/base.py` |
| `MetricsFeed` | `market/metrics.py` and its consumer in `spike/main.py` |
| `CandleSnapshot` | `market/live_snapshot.py`, `strategies/spike/candle_snapshots.py` |
| `CandleArchive`, `MetricsArchive` | `market/archive/parquet.py`, `index.py`, `index_cli.py`, `cli.py`, `metrics.py` |
| `CandleArchiveProofs` | theorems about `CandleArchive` |
| `VisionFetch`, `VisionCandles` | `market/archive/vision.py`, `verify.py`, `feed/aggregator.py` |

### Backtests, research, strategies

| Module | Models |
|---|---|
| `BacktestSweep` | `backtest/sweep.py`, `run_spike_sweep_symbol.py`, `process_lock.py`: pool, children, results, resume; its theorems at the end of the module |
| `BacktestEngine` | `backtest/engine.py`, `executor.py`, `result.py`: matching, order index, position, trade table |
| `BacktestLoader` | `backtest/loader.py`: files, chunks, merged event stream |
| `ReportImport`, `ResearchViews` | `backtest/report_import*.py`, `report_store.py`, `ledger/db/backtest_repository.py` |
| `AmplitudeCycles` | `research/amplitude_cycles.py`: pivots, spikes, cycles |
| `SpikeStrategy`, `SpikeFeatures` | `strategies/spike/short.py`, `v2_1.py`, `exit_policy.py`, `shared_features.py` |
| `PullbackEntry` | `strategies/spike/pullback.py`, `v2_2_pullback.py` |
| `LongBreakout` | `strategies/long_breakout/` |

### Composition

The components that share state in one process are composed inside a module:
`Campaign` holds queue, worker, WAL view, account, lease, ledger step and user
stream together; `OrderRisk` holds guard, account, WAL and stream; `SymbolUniverse`
holds the syncers, the operator and the strategy's scan; `Subscriptions` holds the
market service and two kinds of strategies; `MetricsFeed` holds the publisher's
script and the consumer.

The `MC...` modules do not compose: they put several instances of several modules
side by side for TLC. A variable `instance`, chosen in `Init` from the constant
`Instances` of the cfg, says which one moves; the variables of all others never
change. An invariant reads `instance = "x" => X!Inv`, and a temporal property
`instance = "x" /\ X!Fairness => X!Prop`. So one run answers one question (what
may never happen in execution, what must happen in the market data) over all
components it concerns, and each instance is the state space it would have alone.
Three of them extend one component instead of instantiating it (`MCExecution`
extends `Capital`, `MCServices` `SymbolUniverse`, `MCData` `CandleArchive`), so
that the runs check the very definitions the theorems of these modules are about.

## 3. Runs

| Run | What it checks |
|---|---|
| `orders` | `OrderExecution` alone, one order, two faults: `TypeOK`; `PostedOnceAfterIntent` (one POST, behind the intent row); `FactsAreTrue` (the WAL says nothing the exchange does not confirm); `NoOrphanIntent` (an intent has somebody who resolves it); `ExecutionInv` (the inductive invariant of section 6); `ImplementsOrderFacts` (refinement of `OrderFacts`) |
| `execution` | `EntriesBounded` (limits hold over positions, orders and doubts), `LeaseCoversRisk` (risk has the lease of its Campaign), `CapitalIsBooked` (events explain the capital, every Campaign is settled once, and before the next is sized), `JournalKeepsEvents` (an appended event is in the file or mirrored), `LedgerIsTrue` (rows and reports follow the fills, a settlement has all of its funding) |
| `execution_live` | `OrdersEnd` (ends are learned, doubts resolved, capacity comes back), `CampaignsEnd` (leases released, jobs served), `RecordsCatchUp` (gate follows capital, events mirrored, Campaigns settled) |
| `services` | `MessagesAreHonest` (what is shown as sent was received, alerts say what is recorded, no row refers to something deleted), `OpenEntriesAllowed` (no entry on a blocked symbol), `ExchangeLinkIsSound` (user stream in order and whole, REST within the limit); steps: `OperatorDecides` (no lost edit, a dead delivery comes back by hand only), `OperatorWins` (an operator's switch stays), `NoMassInactivation` |
| `services_live` | `MessagesArrive`, `EntriesClose` (entries of leaving symbols are closed) |
| `data` | `FeedLosesNothing`, `GateFollowsBars`, `CompleteIndexIsServed` (an accepted index names files that exist, in one layout), `StoredDataIsHonest` (complete snapshots are complete, published files whole, a command removes only what another file was seen to hold); steps: `RowsNeverVanish` (no last copy of a day is removed), `ReadersNeverLoseRows` (no day leaves the catalog), `PublishedStays` (metrics index and points; days under two overlapping commands). Instances "gap bars" (two symbols, recoveries that fail), "odd bars" (bars without or with overlapping trade ids) and "overlap" (two commands over one minute month) hold the cases that need an exception, which the property names |
| `data_live` | `BarsFlow`, `ArchivesComplete` (repeated commands end in a complete archive, a collecting snapshot ends) |
| `backtest` | `ResultsAreWhole`, `BooksAgree`, `StreamIsWhole`, `ResearchIsTrue`; steps: `StepsAreAllowed`; liveness: `SweepsEnd` |
| `strategies` | `CampaignIsManaged` (a position has the timing of its own first fill, an exit request has an exit, a position is halved once; through late and second signals ("twice"), an execution queue with a crash ("waiting") and rotation), `SignalsAreExact` (shared windows equal own ones, pullbacks enter where the rule says), `BreakoutIsSound` |
| `campaign_report` | violated: `RiskIsOwned` when an order report precedes its account update (section 7) |
| `feed_race` | violated: `StreamContiguous` when an answer of Redis is late (section 7) |
| `callback_failure` | violated: `FailureIsFatal` when a second event is already posted (section 7) |

All passing runs finish without error. Every property has in `PROJECT.json` a
mutant of a mapped definition that violates it.

**Deadlock.** `orders` and `services_live` check deadlock. The other
configurations switch it off, because the components really stop: the exchange
has no more orders, a feed is over, a command has exited, the capital book has no
further Campaign, a process was stopped for good, a backtest is at its end.

### Bounds

Every bound is a constant named `Max...`, or a budget, with its values in the MC modules;
the comment on each instance says what it is for. The rule was to take the
smallest value at which the case happens, and to split a component into several
instances when two cases are independent:

- two orders of one symbol (limits, doubts that block a symbol), two symbols
  (global limit), two Campaigns (succession under one lease), two or three
  workers, operators, processes or callers (exclusion): the conflicts concern pairs;
- one or two faults: a fault, and a fault during the recovery from it;
- three days, four to seven bars or seconds, two or three trades per second edge:
  one before, one at and one behind each boundary the code compares with;
- pages of one or two rows, so that a page is full and another follows;
- a queue of one element where the code has thousands, so that it overflows.

There is no symmetry reduction: the sets are small and most elements have roles.

## 4. Fairness

Liveness is checked under weak fairness of each task, thread or process, stated
in `Fairness` of the component:

- asyncio tasks and threads of a running process are scheduled again and
  again (`Worker`, `Stream`, `PollNext`, `Take`, `EventLoopStep`, ...);
- the exchange, Redis and PostgreSQL answer a call or the call fails (each is one
  of the outcomes of a fair step); faults are bounded and never fair;
- a process that died is started again (`Start`, `Boot`, `Recovery`): it is
  run with `restart: unless-stopped` (`src/compose.yaml`);
- strong fairness only for `StartCommand` of the archives: the command is run
  again by hand or by cron although it is disabled while one runs.

No fairness is assumed for trades, signals, operators, stops or faults, with one
exception where a property is about what follows the last of them: the feed
(`Trade`, `Publish`, `PublishDay`) goes on to its bounded end.

## 5. Modelling choices

Prices, quantities and capital are small integers; names and ids are members of
small sets; one symbol per model unless the property is about several. What is
abstracted or left out, per module:

- **OrderExecution**: disconnects fall in the ready phase; a partially filled
  order does not expire; the reply to a POST is NEW; exchange-id mismatches, I/O errors of the
  WAL and torn lines are left out; one budget for all faults.
- **OrderRisk**: lots at one price; a query and its application are one step; NEW
  reports change nothing and are left out. Fills in the millisecond of an earlier
  position update (`SameMs`) are excluded (section 7).
- **Campaign**: an acknowledged submission, the POST being atomic with its acceptance;
  CANCELED reports, audit, journal and snapshot failures, the Redis exit state,
  rotation and reduce-half are left out; a fatal error is a stop and a restart; an
  order without an answer counts as live, as `SUBMIT_UNKNOWN` does in the account.
- **Capital**: the conflict between a stored and a configured policy is left out.
- **FundingIncome**: one account and symbol, all rows funding in USDT; parse
  failures are the failure of the attempt; Campaigns are settled in order and
  their windows do not overlap; time is counted in parts of a millisecond.
- **EventJournal**: synchronous mode, redaction and an I/O error in compaction are left out.
- **LedgerBooks**: lots of one; REST answers are complete at once; Campaign attribution and the
  comparison of trade facts are outcomes. `PromptCommit`: a report's
  transaction commits before the next snapshot is read (section 7).
- **LedgerReports**: one account and strategy, one lot, one fee; ratios,
  averages, categories, unattributed fills and `get_pnl_summary` are left out.
- **NotificationConfig**: ids from finite sets. **SymbolUniverse**: a cancellation succeeds at once;
  the database is new and empty, so the conversion of old subcategory switches at the
  end of the seeding and the deletion of rows of other quote assets do not occur.
- **UserStream**: no start after a stop; cancelling a reconnect task is atomic;
  the reconnect delay is longer than posted calls take.
- **RestClient**: one call per task; real weights, but the window bound is claimed for
  weight one; checks of arguments and answers are outcomes.
- **MarketFeed, BarConsumer**: a bounded feed; the reorder buffer and the kline gate
  are left out. A bar without trade ids can only come from a payload of an older
  version, and `MarketFeed` never sends one whose ids overlap the last bar's; the code
  has a branch for both, which "odd bars" takes. `NoBarTwice` is claimed where no
  recovery fails for a while; the gate over a gap has one exception (section 7).
- **Subscriptions**: a stream is a pair of symbol and type; a request is one step
  except PUT and DELETE; degraded and silent states, timers and pub/sub loops and doubled
  types in one request are left out; consumer ids are unique.
- **MetricsFeed**: one unit of time is five minutes, one value stands for both
  numbers; corrupt hashes and the migration of a hash without watermark are left out; the
  stream is trimmed exactly.
- **CandleSnapshot**: one symbol. **CandleArchive**: one symbol, timeframe and
  month, no `--overwrite`; an upsert is atomic under the month's lock; two processes
  on 1s, and in "overlap" over one minute month; liveness on 1s only, where nothing is
  compacted. **MetricsArchive**: liveness with one process.
- **VisionFetch**: a file is a version number; mirrors follow one another;
  back-off, progress and disk guard are left out. **VisionCandles**: a clock of few
  ticks, exact numbers, tolerance zero; side and raw ids are functions of the id.
- **BacktestSweep**: code, archive and metrics are one generation number; a second
  Ctrl+C is left out; whole and current results are claimed while no orchestrator was killed.
- **BacktestEngine**: exact fractions; fees, drawdown, tier details and audit fields are left out.
- **BacktestLoader**: whole seconds, index path only; schema checks and feature
  columns are left out; with shifted rows only order is claimed.
- **ReportImport**: validation and hashing are one step; PostgreSQL is READ COMMITTED (external); one run per
  report; files are whole when written. **ResearchViews**: shorts only; tiers at
  one time are one; normalisation and events are left out.
- **AmplitudeCycles**: ratios are compared instead of logarithms; the robust scale has a window of one
  bar; downward spikes, provisional pivots and labels are left out.
- **SpikeStrategy**: entries at one price, a tier fills in one trade; indicators
  are the filters a bar fails; audit throttling is left out. Orders go out directly
  (backtests) or through the execution queue with its arbiter and durable exits
  ("waiting"). The error a late first fill raises is recorded and ends the process, as
  the runtime does; it is raised for a recovered Campaign too, whose signal is gone.
  `ExitFollowsEntries` is claimed for direct submission and backtests.
- **SpikeFeatures**: a kline is one value; the metrics are low and high.
- **PullbackEntry**: the prices of a signal are fixed, tolerance zero; the exit policy's verdict is a choice; the
  exits of v2.2 are those of `SpikeStrategy`.
- **LongBreakout**: a kline is its close; recovery is atomic; fatal executor
  errors and drain time-outs are left out. `PromptWorker`: the worker takes a queued
  intent before a recovery, so `BreakoutIsSound` says nothing of an intent that a
  recovery finds queued (section 7).

## 6. Proofs

TLAPS proves the following for all values of the constants that satisfy the
assumption of the module (`OrdersAssumption`, otherwise `ConstantsOK`): any sets
of orders, workers, symbols or processes, any bound on faults and crashes. A name
in the third column is the property a run checks on small instances. TLC also
checks every inductive invariant, as a part of that run's properties, and that
its instances satisfy `ConstantsOK`.

| Module | Theorem | States |
|---|---|---|
| `OrderExecutionLemmas` | `TypeCorrect` | `TypeOK` |
| `OrderExecutionProofs` | `ExecutionInvariant` | `ExecutionInv` (inductive) |
| | `PostedOnce`, `WalIsTrue`, `NoOrphan` | `PostedOnceAfterIntent`, `FactsAreTrue`, `NoOrphanIntent` |
| | `DoubtBlocks` | a symbol with an order in doubt takes no new entries |
| | `WalRefinesOrderFacts` | `ImplementsOrderFacts`, the refinement of `OrderFacts` |
| `Capital` | `CapitalInvariant` | `CapitalInv` (inductive) |
| | `PoolIsBooked` | `CapitalIsBooked` |
| `JournalProofs` | `JournalInvariant` | `JournalInv` (inductive), if `~StopWhileBusy` |
| | `JournalKept` | events are kept, mirrored without gaps, and all of them by a clean close |
| `DeliveryProofs` | `DeliveryInvariant` | `DeliveryInv` (inductive) |
| | `DeliveriesAreHonest` | sent was received; at most `max_attempts` sends, and as many per manual retry |
| | `SentStaysSent`, `DeadStaysDead` | steps: sent is final, dead comes back only by hand |
| `SymbolUniverse` | `UniverseInvariant` | `UniverseInv` (inductive) |
| | `EntriesAreAllowed`, `OperatorDecidesAlone`, `NoMassLoss` | `OpenEntriesAllowed`, `OperatorWins`, `NoMassInactivation` |
| `CandleArchiveProofs` | `ArchiveTypes` | type correctness |
| | `ArchiveInvariant` | `ArchiveInv` (inductive), if `Undisturbed` |
| | `IndexIsServed`, `ReadersKeepRows` | `CompleteIndexIsServed`, `ReadersNeverLoseRows`, if `Undisturbed` |
| | `RemovalsAreCovered`, `NoRowVanishes` | `RemovalSound` of every command (inductive), `RowsNeverVanish`, for any number of commands |
| `BacktestSweep` | `SweepInvariant` | `SweepInv` (inductive) |
| | `ReportIsWhole`, `ResumeIsCurrent` | `CountedIsWhole`, `ResumedIsCurrent` (parts of `ResultsAreWhole`) |
| | `NoChildIsLeft` | step: `InterruptLeavesNoChild` (part of `StepsAreAllowed`) |

**Orders.** `FactsAreTrue` is not inductive: a step writes what an answer or
report says that was made earlier. `ExecutionInv` adds `Evidence` (everything on
its way, the stream's reports and the answers to poller, sync and cancel task,
still holds at the exchange, because the exchange's states only move forward),
`Known` (who holds an order found it in the WAL) and `Recovered` (before the
process is ready every intent and every doubt is on the list of the resolve pass,
afterwards an intent is its own task's and a doubt blocks its symbol). Every step
is one write by a row operation for which there is evidence (`WalSteps`), the
exchange only moves forward (`ExSteps`), what happened stays true (`StillHolds`),
and nothing is put on its way that is not evidence. The refinement follows from
`WalSteps`, `PostedOnce` from `Requests`.

**Capital.** A closed Campaign holds the lease or is in the book, and the
coordinator keeps the lease, and the state it committed, until the settlement is
over. So a Campaign cannot be admitted between the closing of one and its
booking, whichever step a crash falls on. Assumed of the policy: a share of a
profit lies between nothing and all of it.

**Journal.** Memory mirrors the file, the batch in flight is a prefix of the file
that is dropped only once PostgreSQL has it, and an event is numbered behind
events that are in the table or before it in the file. With `StopWhileBusy` a
thread outlives its task; the theorem excludes this (section 7), and of the
instance "stopped" TLC checks what is left.

**Delivery.** Sends are counted against the attempts of the row, which are raised
when a row is claimed, before anything is sent; `DeliveryInv` counts the claims
that may still send, with what was received, against these attempts. An attempt
beyond the maximum costs a fault. The proof goes delivery by delivery (`Sound`).

**Symbol universe.** `synced_symbols` equals the number of active rows, on which
the guard against mass inactivation relies; a switch with an operator's name is
decided, which the seeding tests before it writes.

**Candle archive.** Until the index no longer names them, retired files stay on
disk; a repair drops only the side of the month that the index does not name and
whose rows the other side holds; and the holder of the index lock publishes files
that exist, in one layout, with every row that readers see. `Undisturbed` says that
one command works at a time, or that the timeframe is 1s, which has no monthly
file. No lock of the code enforces it, so the theorems with this premise speak of
commands that are run one after another.

`RowsNeverVanish` needs no such premise. It is a statement about steps with one
exception: of several commands, one may lose a day by removing a file when the file
that was to hold its rows is gone (`Bereft`), which happens when a repair and a close
overlap (section 7). The proof rests on `RemovalSound`, which is inductive for each
command by itself: a close retires daily files only with the monthly file written
from them, and a repair drops a side of the month only with the other side holding
its rows. So a command that is alone, or whose covering files are still there, loses
nothing.

**Sweep.** What tasks, rows, plan and types promise holds through any crash. The
rest holds while no orchestrator was killed, since the children of a killed one
write on: a running child is the current task's; the directories it has still to
fill carry the marker the task fingerprinted and no summary; it writes the data
before the summary, so that a summary stands beside data of the same child; and
what it read is no older than the marker. A directory that is resumed has the
marker of now, so that what its child read lies between the marker and now and is
the same. Only steps of a symbol's own task and children touch what is stated of
it (`SymbolFrame`), which leaves one lemma per step. `ConstantsOK` contains that
a set of run numbers has a least one, a fact about naturals that would need
induction.

Only model-checked:

- all liveness: fairness and ENABLED are out of the prover's reach;
- the limits of `OrderRisk`, the books of `LedgerBooks` and `BacktestEngine`, and
  `LongBreakout`: they speak of sums over orders or fills, and what a sum over
  any set is takes induction over data;
- the pure algorithms (`VisionCandles`, `BacktestLoader`, `AmplitudeCycles`,
  `SpikeFeatures`): recursive definitions compared with a reference;
- `Campaign`, the market feed and the other modules, whose properties combine
  many components and are checked on their instances only.

## 7. Disagreements met while modelling

Three are kept as violation runs, with the findings in `PROJECT.json`:
`campaign_report` (`ledger/binance_runtime.py:46`), `feed_race`
(`market/main.py:634`) and `callback_failure` (`shared/binance/user_stream.py:460`).

The following were met in the same way. They are not runs: a property that would
fail names the case as its exception where an instance reaches it, and otherwise the
instances exclude it (the constant is named).

Execution
- `user_stream.py:535`: a close while the previous reconnect task still reconciles schedules no reconnect; the module promises automatic reconnection. `OrdersEnd` excepts it (`StreamAbandoned`).
- `binance_startup_sync.py:240`: a REJECTED row is never acknowledged, so every later start queries an order the exchange never had and fails; `src/docs/TESTNET_EXECUTION_RUNBOOK.md:162` says a rejection does not enter the recovery loop.
- `spike/main.py:724`: the callback barrier is closed once, not at each reconnect as `src/docs/MULTI_STRATEGY_READINESS_REPORT.md:24` says.
- `live_executor.py:408`: the time of a cancellation counts as that of the last fill, and a reservation may stay for ever.
- `live_executor.py:443`: after two fills with the account update first, the whole budget is reserved again until the poller restores the row.
- `risk.py:417`: a fill in the millisecond of an earlier position update counts as confirmed.
- `strategy_account.py:353`: a snapshot does not clear a pending fill whose account update was lost.
- `spike/short.py:653`, `:658`, `:2876`: a fill after its signal expired, or the first fill after a restart, raises in the callback; the timing of a closed Campaign stays for the next when a second signal is found on the first bar after the closing fill (`:633`, `:831`). `PositionIsManaged` excepts these Campaigns (`kept`).
- `spike/live.py:584`, `execution_queue.py:85`: a half exit in the queue at a restart is submitted afterwards, while the recovered Campaign does not know of it and may be halved once more under another id (`short.py:1344`). `HalvedOnce` excepts restored exits.
- `execution_queue.py:13`: an entry that waits in the queue can be submitted, and fill, after its Campaign's exit; the exit request stays with no exit on its way. `RequestHasExit` excepts it (`PassedByExit`).
- `spike/live.py:2367`: an exit may be decided on the quantity from before the fills that came with a cancellation.
- `spike/live.py:1385`: an exit in the queue can be submitted before the cancellations its docstring (`short.py:1357`) demands.
- `spike/live.py:2271`: funding booked after the settlement belongs to no Campaign.
- `spike/main.py:1901`: the wallet check can reopen the gate from a state read before a loss was settled.
- `execution_event_journal.py:509`, `:546`, `:431`: sequences restart after a failed append behind a compaction; a stop releases the lock while a thread still writes or replaces the file.
- `ledger/db/models.py:451`: a report committed after a later snapshot was stored overwrites it (`PromptCommit`). `models.py:2333`: close time and side of long rounds in the performance report.
- `rate_limiter.py:63`: a wait for the oldest entry only, so that a request heavier than one can exceed the limit the class doc calls strict; `rest_client.py:3` mentions retries that do not exist.

Services and market data
- `notifications/sources.py:151`: a failure is published again under a second key when its journal row arrives later.
- `ledger/exchange_symbols.py:119`: between two transactions mainstream symbols are enabled, against `src/docs/EXCHANGE_SYMBOLS.md:36`. `spike/main.py:1954`: a failed query postpones the rule refresh by a day.
- `candle_snapshots.py:342`: a snapshot that failed after its WAL was in place is refused for ever. `live_snapshot.py:615`: bars during the insertion of the manifest are in neither part.
- `spike/main.py:1693`, `:1694`: after a recovery that fails for a while another symbol's bar, or the end of an overflow, reopens the gate over the gap, although the log of the failure (`:1763`) says entries stay closed; and the bar is delivered again. `OpenMeansContinuous` excepts symbols whose watermark is behind (`Behind`).
- `market/archive/parquet.py:426`, `:181`: an interrupted monthly download stops every later command; a close removes daily files without `.partition.lock`, so that a close and a repair that overlap can remove both copies of a day (`Bereft`). `metrics.py:208`: a day killed before the index update never enters it.
- `market/archive/verify.py:254`: an end bound inside a minute gives a false alarm.
- `market/api/routes.py`: doubled types in one registration are counted down twice. `kline/base.py:346`: a restarted service without streams answers ready, so a snapshot of before can be consumed.
- `spike/main.py:1222`: a point whose available time is later than the clock read before the query is rejected, and the gate closes.

Backtests and strategies
- `backtest/engine.py:315`: the docstring says orders fill completely, `limit_fill_fraction_per_bar` fills in parts.
- `backtest/loader.py:514`: with shifted rows a chunk may miss rows of a neighbouring file.
- `backtest/result.py:413`, `:579`, `:650`: the realised part of an open position is missing in the trade table; two statistics count open trades differently.
- `spike/short.py:974`, `:1705`, `:2362`, `:2527`: rotation and candidate exit in flight together; an exemption that never passes; alternating rejection audits; a comment about the box that differs from the code.
- `spike/pullback.py:423`: v3 uses the bar's own high for its candidate, which v2.2 (`v2_2_pullback.py:162`) explicitly does not.
- `long_breakout/core.py:178`: at most one long per symbol is promised; a recovery with an intent still queued can enter again (`execution.py:146` resets `pending_entry` whatever the queue holds; excluded by `PromptWorker`).
- `research/amplitude_cycles.py`: the cycles of neighbouring spikes may overlap although events are said to be de-duplicated.

## 8. Not modelled

- `ledger/db/migrations.py`, `ledger/main.py`, `ledger/api/chart_settings.py`: single statements, wiring, and migrations that run before anything else.
- `shared/postgres_lease.py`: a session advisory lock, the exclusion is the database's. `strategies/campaign_store.py` and `spike/signal_arbiter.py` appear in `Campaign` as it uses them.
- Symbol rules, configuration, events, logging, progress, release identity: values and output.
- `market/history.py`, `market/snapshot_store.py`, `market/store/kline_store.py`: plain reads and writes.
- `notifications/wakeup.py`: it only shortens the wait of a poll.
- Entry points and examples of backtests and strategies; the testnet harness.
- Offline research (`research/factor_lab/`, calibration, premium models, scoring, replay): statistics on real-valued series in one pass over files nobody else writes.
- `src/tools/`, `src/scripts/`: offline analyses and manual smoke tests.
- The web interface and deployment files.

## 9. Running

```
tlc -workers 2 -config MCExecution.cfg MCExecution
tlc -workers 2 -config MCExecutionLive.cfg MCExecution
tlapm OrderExecutionLemmas.tla
tlapm OrderExecutionProofs.tla
tlapm Capital.tla
tlapm JournalProofs.tla
tlapm DeliveryProofs.tla
tlapm SymbolUniverse.tla
tlapm CandleArchiveProofs.tla
tlapm BacktestSweep.tla
```

The passing runs take one to four minutes each on two cores, the proof modules
between half a minute and five minutes each.
