# Formal models of the prediction-market engine

TLA+ models of the engine in this repository, model-checked with TLC, and
theorems about them checked with the TLA+ proof system. Everything is translated
from the code; docs and comments are used only as claims to hold the code to.

## 1. The system

One asyncio process (`engine.py`) runs a dozen tasks in a TaskGroup. They share
one autocommit SQLite connection (`pm/core/db.py:154`), one in-memory book store
and one publish/subscribe bus. A separate process, `monitor.py`, watches the
database and a heartbeat file. systemd restarts the engine on failure.

| component | state it keeps | operations | talks to |
|---|---|---|---|
| bus (`pm/core/bus.py`) | a bounded queue per consumer, drop counters | subscribe, publish, get | everyone |
| event logger | the day's file | drain the bus | bus |
| WebSocket feed, books | connections, chunks, books per token | set_assets, reconnect, apply snapshot or delta | bus, metadata sync |
| metadata sync | `markets`, `rules_text`, NegRisk groups | hourly pass, refresh of past-end markets | feed, scanner, all readers of `markets` |
| REST reconciliation | `recon_log` | compare a sample of books with REST | bus, risk manager |
| signal scanner, research scanners | market index, debounce tables, windows | scan on book, trade, news and whale events, `log_signal`, publish | books, bus, `signal_log`, `markets`, groups |
| calibration scanner | debounce table | periodic pass over `markets`, search Metaculus, `log_signal`, publish | books, bus, external service |
| labeler | `signal_log.outcome` | label mature signals | books |
| replay (`signal_replay.py`, offline) | books, windows, mids | drive the trackers from the event log | the day's file |
| execution task, risk manager, broker | queue, `execution_intents`, `risk_events` | plan, gate, submit legs | bus, broker, operator files |
| paper trader | `paper_account`, `paper_trades` | settle, exit, open | `signal_log`, books, `markets` |
| on-chain tracking | block cursor, `whale_positions`, `whale_wallets` | scan, score, promote, demote | bus, `markets` |
| news | seen sets, poll times | poll, publish | bus |
| monitor | active alerts, last check | check, alert | heartbeats, `recon_log`, `rules_text` |

What is hard in it: tasks interleave at awaits; SQL statements are durable one
by one, so a kill or an SQLite error cuts an operation in half; exceptions are
swallowed by task loops that then retry or drop; queues and `LIMIT`s are
bounded; files and settings change under a running process. `PROJECT.json`
lists these hazards line by line with the properties that cover them, or the
reason why none does yet.

## 2. Modules

| module | models | properties |
|---|---|---|
| `Bus` | `pm/core/bus.py`; consumers of `event_logger.py`, `scan_task.py`, `task.py` | what a queue may lose, order, counting, the logger's view |
| `PaperMoney`, `PaperLedger` | what the paper account promises (abstract) | conservation of money |
| `PaperTrader` | `pm/execution/paper.py`, statement by statement | refines `PaperLedger`; cursor, positions, settlement, liveness |
| `OrderLife` | what happens to the order of a leg (abstract) | forward-only life, legs in order |
| `Execution` | `task.py`, `risk.py`, `broker.py`, `models.py` | refines `OrderLife`; fail closed, caps, no double order, gaps, liveness |
| `Whale` | `ctf_listener.py`, `wallet_tracker.py`, `whale_scorer.py` | no gap, no overlap, aggregates, follow list, liveness |
| `Feed` | `ws_polymarket.py`, `rest_recon.py`, snapshots and changes of `books.py` | books heal, drift is explained, chunks come back |
| `MarketSync` | `metadata_sync.py` | groups without double legs, closed markets get closed |
| `Monitor` | `monitor.py`; `heartbeats`, `recon_log`, `rules_text` in `db.py`; heartbeat of `engine.py` | what is told is so, nothing stamped is passed over, convergence |
| `News` | `pm/news/rss.py` | published once but for what was forgotten, no feed starves another |
| `Scan` | `scan_task.py`, `struct_arb.py`, `news_signal.py`, `matcher.py`, `bayesian.py`, `whale_follow.py`, `common.py` | rows and events of a debounce interval, closed markets, lasting arbitrage |
| `Labels` | `calibration_div.py`, `pm/calibration/*`, `labeler.py` | who starves a row, how old what a row says may be |
| `Research` | `microstructure.py`, `relative_value.py`, `momentum.py`, `signal_replay.py` | replay and live agree, samples are what the books showed |
| `PaperTraderProofs`, `ExecutionProofs`, `MonitorProofs` | theorems about the module they are named after | section 5 |
| `BusScanProofs`, `FeedSyncProofs`, `NewsLabelsProofs`, `WhaleResearchProofs` | theorems about two modules each | section 5 |
| `SumProofs` | lemmas about sums over finite sets | section 5 |
| `MC...`, one per component | instances for TLC | |

A module of theorems about two components extends both, so of such a pair the
second one has names with a prefix of its own: `ScanInit`, `ScanNext`, `ScanSpec`,
`ScanTypeOK`, and likewise `Sync...` (`MarketSync`), `Labels...` and `Research...`.

A property that a run checks is often the conjunction of named parts, each with a
comment of its own: `TradesOnce == OnePositionPerToken /\ OneTradePerSignal /\
NoSignalPassedOver`, for instance.

### Bus

`publish()` is a plain function, so a call is a step. A queue is a sequence, its
size is fixed at subscription from the topics of its consumer (`Bound`).
`PublishLossy` evicts the oldest item of every full queue; `PublishRaises` is
the call that meets a full queue with a lossless event and stops there.
Histories (`got`, `accepted`, `evicted`) exist only for the properties. Each task
subscribes once and the logger first: `engine.py:81` starts it first and tasks
run up to their first await in the order they were created.

### Paper trader

A pass is `mark_and_settle(); process_new_signals(); summary()` without an
await, so the rest of the engine (`Environment`) moves only while `pc = "sleep"`.
Each SQL statement is a step because the connection autocommits: `OpenRow` and
`Debit` are the INSERT and the UPDATE of `_try_open()`, `CloseRow` (in `Settle`
or `Exit`) and `Credit` are those of `_close()`. `Abort` cuts a pass after any
statement: an SQLite error, after which the loop retries in 30 s, or a kill,
after which systemd restarts the engine. `Tradable` is the conjunction of all
early returns of `_try_open()`.

Abstractions: integer money; a position costs exactly `PerTrade`, which is what
`min(per_trade, cash)` gives once `cash >= per_trade` and the fee is taken out
of the shares; prices and fees show only as a number of shares and as proceeds
between 0 and the full payout; rounding to four decimals, the branch
`shares <= 0` (a fee above the budget) and `summary()` (which writes nothing)
are left out; a SELL view is on a market with both tokens known; a book is its
set of usable sides, empty when missing or stale; elapsed hold time is a flag.

### Execution

The handler of one event is `Take`, then `Ignore`, `RefusePlan` or
`ApprovePlan`; then per leg `PlanLeg`, `BrokerAnswers`, `Acknowledge`, or
`RejectLeg`, `AuditRefusal`. The only await in it is the broker call, so other
tasks and the operator move only while the phase is `idle` or `submit`
(`AtAwait`). `Abort` and `AbortPlan` are exceptions, which the task logs before
it takes the next event; `Crash` and `Start` are the process. The queue is in
memory, so a crash loses what is in it: `EventsHandled` says that every event leaves
the queue, by being taken up or by a crash, and only without a fault that it ends as
an approved plan, an audited refusal or a strategy that may not execute. Operator files
(kill switch, verified groups) and the environment (`Configs`) may change.

Abstractions: integer prices and sizes; the recent drift, the realised result
and the open notional the gates read are one record `figures` that changes at
awaits (the engine never writes `positions`; the playground script does, from
another process, hence also `Inventory` is constant); the order of the gates,
which only selects the wording of a refusal; text of audit rows. The branch
`signal is None` is left out: a row is logged before its event is published and
nothing in the engine deletes it. A bad execution mode behaves as a live mode
without gates, so two modes are enough.

### Whale

The listener is `PollHead` (await the head, choose the first block, clamp), then
per window `PassOver` or `Request` (read the follow list, await the logs) and
`LogsArrive`, then per wanted side `InsertPosition`, `CountTrade` (the two
statements of `upsert_position()`) and `Publish` for followed wallets, until
`NextWindow` and `EndPoll`. The scorer is `StartRating` (its batch), then per
position `LeaveUnrated`, or `Rate` and `Tally` (the two statements of
`record_resolution()`), then `Promote`, `Demote`, `EndRating`. It has no await, so
it runs only where the listener waits (`AtAwait`). `FailPoll`, `FailRating` and
`Restart` cut them anywhere. The second statement of a rating is an UPDATE: for a
wallet that has no row it changes nothing (`Listed`, `Tally`), which happens when its
only trades were cut off before they were counted. The histories `uncounted` and
`untallied` are the positions that lack a count.

The sides of a window are a set, `pending`, taken in the order of the log
(`Before`, `Current`).

Abstractions: at most one transfer per block; a calibration is the ratio it is
computed from; `big` stands for a value of at least
`whale_discovery_value_raw`; the node answers with
the chain as it is or not at all, and the chain is not reorganised; locals that
are dead are reset. An operator who edits the follow list while the engine runs is
left out. A block is safe only when the listener has passed it: with a lookback
above `polygon_max_block_span` the clamp of the first poll wins, and after a long
outage it skips what lies between. `NothingMissed`, a part of `TradesRecorded`,
excepts these blocks by name (`skipped`).

### Feed

A connection is a state per chunk: `Connect`, `Subscribed`, `Receive`, then `Close`
(the server ends the stream: the loop goes round without backoff and the chunk
stays in `connected_chunks`), `Break` and `Retry`, or `BreakUnheard` (publishing
the disconnection raises, and the task ends). `SetAssets` cancels all of them and
starts the chunks of another universe. The reconciliation pass is `StartRecon`,
any number of `RestAnswers`, `Compare` with the books of that moment.

The exchange is external: a snapshot per asset after a subscription, then every
change, once and in order. Without that nothing can be said of a book. A book is
one side with sizes 0 or 1; assets are numbers, so that the chunks of the sorted
list are ranks; ages of books, the statistics of the pass and the loop around it
are left out. The sample may hold assets no longer tracked whose books are frozen:
`DriftsExplained` speaks only of live ones. The snapshots of a chunk come in some
order, which is the exchange's.

### Market sync

A pass is `StartPass`, `FetchPage` until the listing is exhausted, `SelectPastEnd`,
`Refresh` or `RefreshFails` per market, `StartWriting`, `WriteMarket` per fetched
market and `Publish` (groups and tracked assets). Every request is an await, where
`CatalogueMoves`; the writes have none. `Abort` and `Restart` cut a pass anywhere.

A market that is listed without a rules text gets no row in `rules_text`
(`RulesOf`) and may be a leg all the same; which markets may be listed so is the
constant `Silent`, and of those `GroupsSound` claims no rules.

Abstractions: of a market only closed, event, rules version, token pair; the
liquidity of a market is a constant, the rank of its event is not; every market
has a slug and an end date; category, tags and outcome lists are left out, and so
is the detection of changed rules, which only logs.

### Monitor

A pass is the sequence of its reads (`ReadFile`, `ReadBeats`, `ReadAgain`,
`ReadDrift`, `ReadRules`) and of its messages, each awaited (`TellFile`,
`TellStale`, `TellClear`, `TellDrift`, `TellRules`), until `Finish` sets
`last_check` to the time the pass began. The engine is another process, so it
beats and writes between any two of them; it takes a time stamp (`Stamp`) before
it has the write lock (`Commit`). A message may be lost (`Send`: a warning in the
log, the pass goes on), a pass may fail at any statement (`Fail`), and the
monitor may be restarted, which forgets what was firing.

What the model shows of the design: a lost message is never sent again, since
only a change of the alert state sends one; a row written while a pass awaits its
messages is reported twice; a row that waited for the write lock longer than a
pass took is not reported at all; a component that never beat is in no table and
never reported; rules that go back to a text already on file are no row, hence no
alert. Abstractions: the clock advances with every stamp; only rows of `recon_log`
above the threshold; the sleep is the idle state.

### News

`StartPass` reads the clock and chooses the feeds that are due, `Request` sets
`next_poll` and asks the first of them, and the answer is a page (`Answer`), one
that does not parse (`Garbled`), a failure that is swallowed (`Quiet`) or an
exception that ends the pass (`Raise`); `Poll` is what `_poll_one` then does.
`Restart` empties the buckets. A bucket that grew beyond its size keeps some half
of it, any: sets are not ordered. The time of the pass is not the time of the
request, so `next_poll` runs from the beginning of the pass (`elapsed`).

An exception ends the pass, and the feeds behind have to wait for the next one. A
feed is rescheduled before it is asked, so one that raises every time lets the others
through in the passes in between, provided these come before it is due again. That is
`Sheltered`, the premise of `ArticlesReach`. A unit of time is 30 s, long enough for a
request (20 s) or the sleep after an exception; every feed ahead takes one unit, a
raising one two, and their sum must be less than the `poll_s` of each of them. The rule
errs on the safe side, and in whole units it says nothing of the last feeds of
`config/news_feeds.yaml` (six, the first with `poll_s` 120, which is four units): the
second is sheltered whatever the first does, the third if one of the two ahead of it
does not raise, the fourth if none does. When several feeds raise at every request
those behind them can starve in the code, since the first are due again before the
last is asked. `PublishedOnce` has no such premise.

`swallows` counts the polls whose items are kept back because the bucket was
empty. `SwallowedOnce` says it happens once per run and feed; an article that first
appears after a restart is not published by it, in spite of the docstring (section 4).

### Scan

Handling an event has no await: it is one step, whatever rows it writes.
`HandleBook`, `HandleNews` and `HandleWhale` are the branches of the loop, `Refresh`
what it does with its index before each. `Persist` is the sequence of INSERT and
publish for each signal, cut by an exception at any of them; arbitrage is
debounced signal by signal as it is written, research signals all at once before
the first. `MatchHeadline` ranks the markets of a headline, `Fired` is the Bayesian
update in integers, `Complement`, `BuyAll` and `SellAll` are the three structural
conditions with fees and buffer. The books, the markets table, the groups and
the transfers are the environment (modules `Feed`, `MarketSync`, `Whale`).

A message of the feed either names its token at the top level or in its entries
only (`Unnamed`): the latter changes a book and is not scanned. Abstractions: a
book is its touch and one size; a stale book is no book; which words a question
has is data; edges and features of a row are left out. The order in which signals of a
headline are written is the order of the matches, of which there is one (`InOrder`).

### Labels

`LabelPass` is a pass of the labeler, a single step; `Selected` its query with
`LIMIT`, `Live` the test on the share of legs with a live book. `LabelPassFails`
and its backoff are the exception. A pass of the calibration scanner is one step
when the search is off (`ScanAtOnce`); otherwise `StartSearching` reads list of
markets and clock, `Continue` reads a mid and waits, and `SearchAnswers` or `SearchRaises`
uses what was read; `upcoming` are the markets still to come, in the order of the
table. Other rows (`OtherSignal`) come from the other scanners.

`GoodPassesUsed` makes starvation exact: a live row waits only for older rows, as
long as fewer than `label_batch` of those are dead; with that many dead rows the
younger live ones are never labelled, which `labeler.py:17-19` (an outcome is NULL
when the book died) does not say. `RowsTimely` bounds the age of everything that a row
of a searching pass rests on. `EngineRestarts` loses what is in memory: a pass under
way, the backoff and the debounce table, so that a second row of a market may follow
at once. The distance of two rows of a market is therefore a claim about the rows
since the last start (`earlier`). Probabilities are percents and logits a table; both
are data of the instance.

### Research

A tracker call is a function from the trackers, a view of the books and a time to the
trackers (`OnMicro`, `OnTrade`, `OnGroup`, `OnMarket`, `OnMom`). `Handle` is the
scanner: it takes an event from its queue and calls them with the books and the
clock of that moment (`Calls`). An event is logged and queued in one step (`Happens`).
An event
whose market is not in the scanner's index of open markets calls nothing; the index
is reloaded when it is older than `IndexRefresh` and the scanner wakes up, with or
without an event (`Index`, `Refresh`). The legs of a group are those the last metadata
pass found (`legs`); both may change at any time (`MarketChanges`, `GroupsChange`).
`HandleFails` is a signal that cannot be persisted: the calls after it are left out,
what was persisted before it stays. `EngineRestarts` empties trackers, books and queue
while the log goes on.

`Replay` is `replay_signals()`: from `NewReplay`, one record after the other
(`Replayed`, `Drive`), which rebuilds the books, takes the time from the record and
knows all markets with all legs. `ReplayAgrees` compares the two whole states, windows
and debounce included, for what was logged since the engine last started (`started`).
It holds for events that were taken up one by one, each with its market in the index
and all legs of its group known (`inStep`, `Indexed`), in spite of the different order
of the calls (live: group before momentum). So a replay differs from what was live
for markets that closed, that are not in the index yet or whose group is in the
making, after a start of the engine in the middle of the file, and whenever the scanner was
late; without any one of these premises TLC refutes `ReplayAgrees`. `SamplesSound` says what
holds when the scanner is late.

A book may lose a side (`NoQuote`): then it has no mid, the trackers of mids and the
replay take no sample, and the forward mid may come as late as the next event that
leaves the token with a quote, which is what `ForwardMidsSound` says.

Abstractions: integer quotes; a z score is compared by its square; the quote of a
book with one side is `NoQuote`, whichever side is left; the replay ends before its
own books go stale.

## 3. Runs

| run | module, cfg | kind | question |
|---|---|---|---|
| `bus` | `MCBus`, `MCBus.cfg` | pass | what do queues lose, in what order, how is it counted? |
| `paper` | `MCPaperTrader`, `MCPaperTrader.cfg` | pass | does a pass, cut anywhere, implement the account? |
| `execution` | `MCExecution`, `MCExecution.cfg` | pass | does execution fail closed and order each leg once? |
| `whale` | `MCWhale`, `MCWhale.cfg` | pass | do the windows cover the chain once, and do the aggregates follow the table? |
| `feed` | `MCFeed`, `MCFeed.cfg` | pass | are live books right after drops and restarts? |
| `feed_unheard` | `MCFeed`, `MCFeedUnheard.cfg` | violation | does a connection always come back (`ws_polymarket.py:13-15`)? |
| `market_sync` | `MCMarketSync`, `MCMarketSync.cfg` | pass | what does a pass over a moving catalogue leave in tables and groups? |
| `monitor` | `MCMonitor`, `MCMonitor.cfg` | pass | is what the operator was told so, and is everything told? |
| `news` | `MCNews`, `MCNews.cfg` | pass | does every article go out, and how often? |
| `scan` | `MCScan`, `MCScan.cfg` | pass | does what holds get its row and its event, and what no longer holds none? |
| `labels` | `MCLabels`, `MCLabels.cfg` | pass | who is labelled, when, and how old is what a row says? |
| `research` | `MCResearch`, `MCResearch.cfg` | pass | does a replay give the signals the scanner gave? |

Bounds.

- `bus`: queues of one (lossy) and two (mixed or lossless) items and five
  publications. Two publications fill a queue of two, the third meets it full,
  and with five a queue can be filled, evicted from and drained in between.
  Three consumers are the three kinds there are: all topics, market data and
  system, signals only.
- `paper`: one market (two tokens), a bankroll of one trade, two signals, one
  abort, batches of one. With one trade's worth of cash the second signal
  meets an empty account, with batches of one the second signal meets the
  `LIMIT`, and a SELL view and a BUY view of the same token open different
  positions. The worth of a position at exit is any of 0, 1, 2: loss, break-even
  and gain.
- `execution`: three signals (two buys; a NegRisk partition with an uncovered
  sell and a leg above the cap; a research signal without size), a queue of one,
  four environments, three readings of the gates' figures, one fault. One fault
  is enough to cut a plan at each of its points, restarts follow it under any
  environment, and a queue of one makes publication to a full queue happen.
- `whale`: three blocks, windows and lookback of one, one cut. Three blocks against
  a window of one are needed for the clamp to skip one; two wallets give a trade
  with a followed and a discovered side, and a mint; a batch of one makes a rated
  row give way to the next. A resolved market may open again, because
  `metadata_sync` rewrites its row. Setups: one wallet followed with discovery, and
  nobody followed without.
- `feed`: three assets in chunks of two, hence a full and an incomplete chunk, or
  one chunk when the first asset leaves and the others change places; one change on
  the exchange, two drops (a drop while reconnecting), one of them unheard, two
  restarts.
- `market_sync`: three markets in two events, pages of one event (an event may
  change its rank between two pages, to be fetched twice or not at all), one
  refresh per pass, one tracked market, one leg that may be listed without rules, two
  changes of the catalogue, one fault.
- `monitor`: two components, one market with two texts, a clock of two and ages of one
  (fresh, stale, fresh again needs no more), two rows, one fault. Two rows are needed
  for rules to change and for a row to come before and one during a pass.
- `news`: three feeds: one with three articles and a bucket of two that is halved to
  one, one without, and one with an article behind the two. The two in front may raise
  at every request and have `poll_s` 5, the smallest with which the third is sheltered
  (2 feeds and 2 that raise take 4); the third is always due. Two changes of what is
  listed, one restart.
- `scan`: two markets in a group, three tokens with books, a cheap and a rich quote,
  which make each of the three arbitrage conditions hold somewhere, one headline
  about both markets that has room for one, a queue of two, two changes of a book,
  one market that closes or group that changes, one fault.
- `labels`: two markets, a rate of 30 samples and a prior without any, a batch of one,
  rows with one and with two legs, two prices, one movement of a mid, four units of
  time, of which a search takes up to one, one fault, which may be a restart. A debounce
  of four less a pass of two makes a row of the same market possible after two.
- `research`: a group of two markets, two quotes and, for one token, a book without,
  three events, three times, one trouble: an event that is late, a book that goes stale, a
  signal that is not persisted, a market that closes or opens, a group that changes or a
  restart. Three events fill a window of every tracker, and each kind of signal fires.

What a bound limits (publications, changes, time) runs out, so the runs `bus`,
`feed`, `monitor`, `news`, `scan`, `labels` and `research` may end or be left with
nothing but idling: `CHECK_DEADLOCK FALSE`. In the others deadlock is checked:
none of these tasks may stop.

Fairness. `PaperTrader!FairSpec` assumes weak fairness of `Pass`: the task is a
loop around `try`/`except Exception` (`paper.py:316-332`) that sleeps and goes
on. `Execution!FairSpec` assumes weak fairness of the handler's steps (the event
loop runs a ready task, and both brokers answer after `asyncio.sleep(0)`) and of
`Restart` (`pm-engine.service:12-13`). `Whale!FairSpec` assumes weak
fairness of `Poll` (requests time out, every exception is caught) and strong
fairness of `Rating`: the scorer is ready while the listener waits, not while it
writes, and the event loop serves ready tasks in turn. `Feed!FairSpec` assumes weak
fairness of each connection task, not of reconciliation, and an exchange that
answers subscriptions. `MarketSync!SyncFairSpec`, `Monitor!FairSpec` and
`News!FairSpec` assume weak fairness of a pass, for the same reason as the paper
trader: `except Exception`, sleep, go on (`monitor.py:126-130`, `rss.py:154-158`).
That the own feed of an article answers again and again is a premise of
`ArticlesReach`, not of the specification. `Scan!ScanFairSpec` assumes only that time
passes (weak fairness of `Tick`); that the events of a market are handled again
and again is a premise of `PersistentLogged`. `Bus`, `Labels` and `Research` state no
fairness. Signals, markets, books, blocks, operators and faults are never forced,
and faults are finite in the model: under infinitely many of them nothing is
promised.

## 4. Findings

Run `feed_unheard`: `ws_polymarket.py:103` publishes the disconnection inside the
handler of the exception. If a queue is full, `publish()` raises and the
connection task ends for good; what holds is `ChunksReconnect`, which excepts this
case.

Other claims the code does not keep. The properties below are defined and run by
no configuration; name one in the cfg of its module and TLC refutes it.

1. `Bus!NoLosslessEviction`, "never drop signals or system events"
   (`bus.py:6-7`): `bus.py:45` evicts the oldest item whatever its topic, so a
   queue that mixes topics loses lossless events silently, and the loss is counted
   under the market-data topic. For a consumer of lossless topics only, the
   execution task, the promise is kept (`LosslessKept`).
2. `PaperTrader!CashRecovered`, the state database is "recoverable" after a crash
   (`TUTORIAL.md:314-315`): the two statements of an opening (213, 220) or an exit
   (256, 260) are separate transactions; a crash in between breaks the cash
   identity for good. `ImplementsLedger` shows that this is the only harm an abort
   does.
3. `Execution!KillSwitchRefusesTrades`, a kill switch "dropped [...] at any time
   to refuse all trades" (`STRATEGY_BRIEF.md:223-225`): `task.py:81` reads it once per
   plan; dropped while the broker answers the first leg, it does not stop the later
   ones. (`TUTORIAL.md:308` says "on every plan", which is what the code does.)
4. `Whale!EachRated`, "each unscored whale_position" (`whale_scorer.py:9`):
   unratable positions (market never resolved, token in no market row) stay at the
   head of the oldest-first batch; 500 of them stop all rating. What holds is
   `OldestRated`. Needs `OutcomeToken = {t1, t2}`, `Blocks <- MCTwoTokens`, `MaxHead = 2`.
5. `MarketSync!PartitionComplete`, one leg "per outcome" (`struct_arb.py:66`):
   `metadata_sync.py:317` drops a market without two tokens before its group is built,
   and two legs of three pass for the whole partition. Needs three markets in one
   event and `Tokenless = {m3}`.
6. `News!RestartReEmits`, "restart re-emits the most-recent window once"
   (`rss.py:9`): the first poll of a run publishes nothing (`rss.py:174-180`), and
   what came up while the engine was down is never published.
7. `Labels!PriorsAloneQuiet`, the scanner "won't act on these alone" of priors
   with `n_samples` = 0 (`config/base_rates.yaml:4-6`): `model.py:45-50` gives them a
   weight, and a prior that differs enough from the mid gives a row.
8. `scan_task.py:104`, "scan the affected market on each one": a `price_change`
   with the asset in its entries only, a form that `books.py:82-86` applies, is not
   scanned, because `scan_task.py:177` looks at the top level of the message only.
   No property: the model has it as `Unnamed`.

## 5. Proofs

Each theorem is of the specification as TLC checks it, for every value of the
constants that satisfies the assumption of its module. For each component an invariant
(`IInv`, or `ScanInv`, `SyncInv`, `LabelsInv`, `ResearchInv` where two components
share a module) is shown to hold initially and to be kept by every action, and the
properties of the runs follow from it; TLC has checked each of them on the instance of
its run first (without "is a sequence of some set", which it cannot evaluate). All
invariants and all safety properties that the passing runs check are proved, and so
are both refinements.

Assumptions. Apart from types they ask that sets be finite where something is
counted or summed: consumers and topics (`Bus`), assets (`Feed`), articles (`News`),
wallets (`Whale`). Those with content: the event logger is interested in all topics
(`event_logger.py:33`); of a block's transfers there is one at most (section 2,
Whale); the zero address is no wallet; an empty bucket is not what halving leaves
(`Kept > 0`), and what a feed lists fits into what is left (`News`: of poll intervals
nothing is asked); a price has a fee,
and an ask is never 0 (`Scan`); no two markets have the same liquidity, so that the
top of a list is one set (`MarketSync`); a row has legs, a mid is between 1 and 99
cents, a market occurs once in its table (`Labels`); a window that is looked at has
two samples or more, the sizes at the touch of a book with both sides are positive,
every token is a token of a market (`Research`; books with an empty side are allowed).

| module | theorem | property of a run | argument |
|---|---|---|---|
| `BusScanProofs` | `TypeCorrect` | `TypeOK` | a queue is full at its bound and never above |
| | `LosslessIsKept` | `LosslessKept` | the logger is the first subscriber of every topic, so whoever else gets an event, it did |
| | `LossesAreAccounted` | `LossesAccounted` | what is in a queue was published after what was taken out of it; each eviction adds one to one counter |
| | `ScanTypeCorrect` | `ScanTypeOK` | |
| | `WindowsAreAccounted` | `WindowsAccounted` | a handler records rows and events of a list of signals, the events a part of the rows |
| | `ClosedMarketsAreQuiet` | `ClosedMarketsQuiet` | a market of an index that is not too old closed after the index was loaded, if it did |
| `PaperTraderProofs` | `TypeCorrect` | `TypeOK` | |
| | `TradesAreOnce` | `TradesOnce` | a batch has every followed signal up to its last, and no trade is on a signal that may be read again |
| | `MoneyConserved` | | the balance of the abstract account is inductive together with its types |
| | `LedgerImplemented` | `ImplementsLedger` | an opening or an exit is a step of the account at the first of its two statements, an abort between them a slip; all else stutters |
| | `MoneyIsAccounted` | `MoneyAccounted` | the sum of the results is followed statement by statement; the cash is `MoneyConserved`, through the refinement |
| `ExecutionProofs` | `TypeCorrect` | `TypeOK` | |
| | `OrderOnce` | `OneOrderPerLeg` | a signal is at one place at a time, and leg numbers grow |
| | `GatesKept` | `GatesHold` | a handler at a leg passed the gates of the settings still in force |
| | `PlansAreAccounted` | `PlansAccounted` | the rows of the signal in hand are those of the legs before; a fault leaves one gap at most |
| | `OrderLifeImplemented` | `ImplementsOrderLife` | leg by leg: a row and its order say how far the leg is |
| `FeedSyncProofs` | `TypeCorrect` | `TypeOK` | |
| | `BooksAlwaysAgree` | `BooksAgree` | the messages under way make up for what a book lacks |
| | `SyncTypeCorrect` | `SyncTypeOK` | the first `TopN` of a finite set are `TopN` at most |
| | `GroupsAreSound` | `GroupsSound` | a market joins the legs of its event when its row is written, with the rules if there are any, and once in a pass |
| `NewsLabelsProofs` | `TypeCorrect` | `TypeOK` | |
| | `ArticlesGoOutOnce` | `PublishedOnce` | what went out more often than it was forgotten is in a bucket |
| | `LabelsTypeCorrect` | `LabelsTypeOK` | |
| | `GoodPassesAreUsed` | `GoodPassesUsed` | a pass that could have labelled a row labels one before it, and there are only so many |
| | `RowsAreTimely` | `RowsTimely` | a pass is no older than the searches it has behind it |
| `WhaleResearchProofs` | `TypeCorrect` | `TypeOK` | |
| | `TradesAreRecorded` | `TradesRecorded` | behind the cursor all is recorded, ahead of it nothing |
| | `WalletsAreRated` | `WalletsRated` | of a wallet's rows each is counted, under way, or one that was cut off |
| | `ResearchTypeCorrect` | `ResearchTypeOK` | a call adds one sample to a window at most |
| | `ReplayAlwaysAgrees` | `ReplayAgrees` | one event is one step of the replay since the start; the calls that come in another order commute |
| | `SamplesAreSound` | `SamplesSound` | a book is what the last message about it says; each event that leaves a quote has a sample within an interval |
| `MonitorProofs` | `TypeCorrect` | `TypeOK` | |
| | `ReportsAreSound` | `ReportsSound` | a pass has told, or has still on its list, all it read; a stamp counts once in a pass |

Sums. A sum over a function is, in the community modules, a fold, and a fold a
recursive function chosen to satisfy its equation. `SumProofs` shows that there is
such a function on the subsets of a finite set and then what a sum is: it splits at
an element, grows with one summand, is monotone, is kept by renaming. Induction is
stated for a set of numbers or of subsets, not for a predicate (`NumberInduction`,
`SubsetInduction`), which the provers can instantiate; it rests on the least element
of a set of naturals.

`ExecutionProofs`. That an order is not placed twice does not follow from any check
in the code, which never looks whether a signal was handled before. It holds because
a signal is logged once, then in the queue once, or in the handler, or in the table.
`IInv` has four parts: `HandlerInv` (a handler at a leg has a plan that passed the
gates, and its row is the last of the table), `PlaceInv` (queue, handler and table
exclude one another), `RowsInv` (rows of the signal in hand are of earlier legs),
`OrdersInv` (a row has one order at most). `PlanInv` goes on from there to the plan as
a whole: which legs are in the table at each phase, what the broker has, and which
rows faults have left behind.

`PaperTraderProofs`. An abort may leave a trade twice, or the account behind its
tables, hence the premises of the properties; the invariant says for each point of a
pass what the second statement has still to add (`MatchInv`), up to where the cursor
counts (`Reached`) and what the batch has (`ConsideredInv`). The refinement has no
such premise: the account of `PaperLedger` is read off the two tables.

`BusScanProofs`, the bus. All `publish()` actions deliver to some set of subscribers;
what is needed of it is one lemma (`PublishDelivers`), and the actions differ no
further.

The scanner. `ScanInv` has a part for each pair of variables that move together. Of
the handlers one fact is needed (`Sourced`): the rows they write are of markets of the
index they have just looked at, so the age of the index bounds how long ago these
closed (`IndexInv`). The time since a market closed is cut off just above the longest
interval, which the invariant respects by speaking of indexes that are not too old.

`FeedSyncProofs`, the feed. `WiresCurrent` is about the messages under way: on a
connection that is up, the last one that sets a level of a book has its size at the
exchange. A snapshot sets every level, and a change is sent to whoever is up, so this
holds however often connections break, and `BookCurrent` is the case of nothing under
way.

The metadata sync. Neither the pages nor their order matter: `fetched` may hold a
market twice, but `seen` has it once it was written, and legs are appended only then
(`PassInv`). A group outlives the pass that made it, so that its legs keep rows and
rules needs that no step loses any (`Grows`).

`NewsLabelsProofs`, the poller. `Remembered` and `KeptBack` are the two properties, by
bucket; `Paced` bounds the time of a pass by the feeds it has asked, which the types
need. Nothing is assumed of the poll intervals, so the theorems cover the feeds as
shipped.

The rows of `signal_log`. `PassesInv` says of a row without outcome that the passes
that could have labelled it are at most the rows before it that have theirs: if
fewer than `label_batch` dead rows are before it then either the row is among those
selected, and labelled now, or a live row before it is, and its outcome is final.
`SearchInv` bounds the age of a pass by its searches, the one it waits for and one
for each market it has come past; with that, the clock, the markets table and the
debouncer behind a row are as old as the pass, its mid as old as one search. The
debouncer knows the rows since the last start only (`RowsInv`, `earlier`); the outcomes
do not depend on what is in memory.

`WhaleResearchProofs`, the whales. What the listener has passed is told by
`last_block` between polls and by cursor, window and pending sides in the middle of
one. `BehindInv` says that nothing is missing there, `AheadInv` that no row is ahead
(while no pass was cut), so that a new row is of a new side; a side is told by block
and direction (`SidesDiffer`). `CountsInv` says wallet by wallet that an aggregate is
the number of its rows that are neither under way nor cut off (`MissingInv`). A wallet
without a row has counted no trade, so the position whose rating finds none is lost
already, and a fault costs one position (`LossInv`).

The trackers. Which signals fire is a matter of folds over the windows, of which the
proof needs nothing. It needs what a call does to windows, debouncers and
signals: `OnGroup` and `OnMom`, whose order differs between scanner and replay, are
brought into a form that shows what they read and write (`GroupIs`, `MomIs`), and
commute because windows and keys are others (`GroupAndMomCommute`). `Replay` is a
recursive function on the places of the log; that there is such a function, and that
an event more is one step more, is `ReplayGoesOn`, and `PartGoesOn` for the part of the
log since the last start. Then `ReplayAgrees` is inductive together with `QueueInv` (in
step, the queue is the rest of the log) and `RunInv` (what was logged since the start
leads to the real books). For the samples, `SampleInv` says that a
sample is what the book showed, by `BookInv`, and `ReplayInv` that each event that leaves
a quote has a sample less than `MidSample` before it, from which it follows where the
first sample after a horizon can be.

`MonitorProofs`. `ReportedInv` says of a row that the pass has read that it was
reported or is `Listed`, the list being what the pass has still to send; it needs that
rows are stamped in the order they are written (`PendingInv`), since an older version
of the rules that came late would make a row notable that no pass looked at.
`NotTooOften` is the bound by stages: a row written during a pass may be reported by
that pass, whose `now` is older, and by the next one, and then `last_check` has passed
it (`Most`).

Only model-checked. Everything with fairness (`SignalsConsidered` and `Recycles`,
`EventsHandled`, `OldestRated`, `ChunksReconnect`, `ClosedEventually`,
`PictureConverges`, `ArticlesReach`, `PersistentLogged`): the prover has neither
ENABLED nor fairness. Not proved either is what the folds compute: that the
statistics of a window (`Research`), the outcome of a row (`Labels`) or the edge of a
group (`Scan`) have the values they should is an induction over data, and no theorem
depends on them.

## 6. Not modelled, and the plan

Not modelled:

- `pm/research/*`, `replay.py`, and of `signal_replay.py` the evaluation: offline
  statistics on recorded files, without state or concurrency; a definition would be
  the formula again.
- dashboard, reports, scripts: they only read, but for the playground, which calls
  sizing and `apply_fill()` by hand. No task of the engine calls either, so positions
  and inventory are inputs of `Execution`.
- ABI decoding, RPC and HTTP transport, parsing of feeds, dates and yaml: I/O.
- the features of a signal, and every figure that is recorded but not read back.
- `pm.ai`, imported by `engine.py:23`, is not in the repository.

Left to do: `Positions`, that is `apply_fill` in integers as an account with a
conservation law like that of `PaperLedger`, should the engine come to write
positions. The figures the risk manager reads from that table would then be a matter of
`Execution` and `Positions` together.
