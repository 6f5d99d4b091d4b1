# Verification of the Systematic Trading Signal & Risk API

TLA+ models of the parts of this repository where several things happen at
once or where a decision has to be right for all inputs, the TLC configurations
that check them on small instances, and proofs (TLAPS) of the most important
results for every value of the constants. Paths are relative to `src/`.

    tlc  -workers 2 -config PriceLookup.cfg MCPriceLookup.tla
    tlapm ConsumerLoopProofs.tla

`PROJECT.json` lists the components, the runs, the hazards, the theorems, and for
every definition the lines of code it stands for. Definitions whose comment
begins with "Mutant:" are not part of a specification: each is a plausible bug,
and says which definition it would replace; every property has one that breaks it.

## 1. The system

One API process (uvicorn, one worker: every handler and background task shares
one event loop and interleaves at each `await`), two Kafka consumer processes,
PostgreSQL, Redis, Kafka, external price providers and webhook receivers.

    request, poll job --> price lookup --> Redis / PostgreSQL / provider
                               |
                               v  "price-events", one partition
          +--------------------+---------------------+
          v                    v                     v
     MA consumer        anomaly consumer       broadcaster task --> WebSocket
          |                    |                                    clients
     moving_average       alerts --> webhooks
                               ^
     request --> risk engine --+        request --> signal generator
     request --> portfolio service

| Component | State it keeps | Operations | What is hard | Correct means |
|---|---|---|---|---|
| Kafka consumers (`app/kafka/consumer.py`, `anomaly_consumer.py`) | offset handed out and committed, Redis key `processed:<id>`, retry counter, shutdown flag | poll, SETNX, EXPIRE, up to 3 attempts, DLQ, SIGTERM, close | offsets are auto-committed while a message is being worked on; crashes, rebalances, keys that expire; both groups share keys | an event has at most one outcome; nothing is dropped while nothing fails; shutdown finishes the message |
| Price lookup and providers (`app/services/price_service.py`, `providers/`) | Redis entry per symbol, `raw_market_data`, `price_points` | 3-tier lookup, retry at the provider, two commits, cache, event | concurrent misses; failures between the commits, the cache and the event | fresh, stored answers; one event per stored point |
| Event producer (`app/kafka/producer.py`) | librdkafka's buffer | produce, flush | never polled, so slots are not freed | an event refers to a stored point |
| Polling worker (`app/services/polling_worker_service.py`, `app/api/poll.py`) | `polling_jobs`, the tick's list and session | tick, create, delete | API changes jobs between SELECT and UPDATE; one session for all jobs of a tick | spacing, no resurrection, the worker survives and starves no job by that job's own failures |
| Portfolios (`app/services/portfolio_service.py`, `app/api/portfolios.py`) | `portfolios`, `positions` | create, buy, close, delete, snapshot | read-compute-write without locks, READ COMMITTED | books balance; no orphans; closed stays closed |
| WebSocket broadcast (`app/core/websocket_manager.py`, `kafka_broadcaster.py`, `app/api/stream.py`) | list of connections per symbol, committed offset | accept, subscribe, unsubscribe, broadcast, commit, rejoin, restart | the list changes while it is iterated; the group's position may move while clients stay connected | nobody is skipped; a tick comes twice, or not at all, only when the position moved |
| Alerts and webhooks (`app/services/webhook_service.py`, `anomaly_detector.py`, `risk_engine.py`) | `alerts`, `webhooks` | detect, store, dispatch, register, delete | alerts are committed before dispatch; dispatch is in the retry loop | no duplicate alerts; each reaches each matching webhook once |
| Anomaly detector (`anomaly_detector.py`) | none | z-score, MA crossover | the tested price is in its own window | moves are found, with the right direction and severity |
| Risk engine (`risk_engine.py`) | none | weights, drawdown, thresholds | positions without history; duplicate symbols; the first return | a breach is reported iff there is one |
| Signal generator (`signal_generator.py`), technical analysis (`technical_analysis.py`) | `signal_history`, written only | vote, weigh, amplify, threshold | decimal sums that equal a threshold, missing indicators | no bias, monotone votes |
| Moving averages (`moving_average_service.py`) | `moving_average` | read the window, check, insert | filters by symbol only, not by provider; check-then-insert inside a retry loop | one average per timestamp and provider; what counts as processed is averaged |
| Start and stop (`app/main.py`), schemas and migrations, dashboard | see sections 2 and 6 | | | |

## 2. The modules

Each module has its state as VARIABLES, `Init`, one action per step that can be
interrupted, `Next`, `Spec` (and `FairSpec` where it has liveness properties).
An action is everything the code does between two points where something else
may run: two awaits in the API process, two calls to another server in a consumer.

**ConsumerLoop** (with **DedupContract**, **ConsumerLoopProofs**). `pc` is the
line a consumer is at: `LoopTop` is the `while not shutdown_requested` test and,
if it fails, `consumer.close()` (which commits); `PollMessage` hands out a message and stores
its offset; `ClaimNew` / `SkipDuplicate` / `ClaimRaises` are the SETNX; `SetExpiry`
is EXPIRE; `AttemptSucceeds` / `AttemptFails` are the retry loop with its break; `DeadLetter`
is the `else`. `AutoCommit`, `Rejoin`, `Crash`, `Restart`, `LoseKey` and `PublishAgain`
are what librdkafka, the group coordinator, the machine, Redis and the
producer's retries may do at any time. `Rejoin` takes a consumer back to the committed offset.
A Redis call that raises may or may not have been executed. `DedupContract`
is what the Redis keys promise without topics, offsets or
crashes; `ConsumerLoop` implements it with `marked` = the keys that exist and `open` = the
consumers at work on an event (`ImplementsContract`).

**MovingAverage** (with **MovingAverageProofs**). The attempt of the MA consumer statement by
statement, composed with its loop: it EXTENDS ConsumerLoop, and each step that ends an attempt is
a conjunction with `AttemptSucceeds(Ma)` or `AttemptFails(Ma)`. `ReadWindow` / `TooFewPoints` is the
query for the newest `Window` points of the symbol, `AlreadyRecorded` / `NotRecorded` the lookup by
timestamp and provider, `Insert` / `InsertUnacknowledged` the commit whose answer arrives or is
lost. Points are stored by requests (`StorePoint`) before they are announced (`Announce`), in an
order that is not the order of their timestamps.

**PriceLookup**. One call of `get_latest_price` per element of `Requests`; a request is at
`cache`, `db`, `api`, `raw`, `point`, `cacheRow`, `cacheNew` or `publish`, which are its awaits.
Prices are left out: what identifies an answer is the row it came from and its
timestamp. Keys and symbols are separate functions of the name, because Redis
keys are lower-cased and Binance stores upper case. The provider's retry loop is
`FetchAgain` / `FetchFails` / `Fetch`. A price read from the database or from Binance has a
time zone, one from Finnhub has none; `CacheRaises` is the subtraction that fails
on the former. `BufferFull` is `produce()` on the buffer that nobody polls. `Valuations` is what a
portfolio snapshot reads of these stores (`portfolio_service.py:216-228`): the cache entry whatever its
age, else the newest row, else 0.

**PollingWorker**. `Select` is the query with the `now` that follows it; `StartPoll`,
`Skip`, and the ends of a poll: `PollSucceeds`, `PollRaises` (job becomes failed), `PollOfDeleted`
and `PollBreaksSession` (the UPDATE of a row that is gone, or a database error, breaks the
session that the rest of the tick uses; it leaves its job due, so this may happen to the same job in every
tick, and is not bounded). What happens inside a poll is
PriceLookup. `age` is the time since `last_polled_at`, counted up to the interval, beyond
which nothing depends on it.

**Portfolio**. Each request is a read, then a write: `BuyReads` and `BuyUpdates` / `BuyInserts` /
`BuyFails`, `CloseReads` / `CloseWrites`, `DeleteReads` / `DeletePositions` / `DeleteCommits`.
The ORM writes only the columns whose value changed, so two buys may each
contribute a column. Row locks of a running delete are respected (`Locked`), and so is the foreign key.
Averages are exact fractions. `booked` adds up the acknowledged buys.

**Broadcast** (with **Feed**, **BroadcastProofs**). The list of connections of one symbol, with the aliasing of the
code: `unsubscribe` puts a new list into the dict while a broadcast goes on with the
old one (`replaced`), and `subscribe` appends to the list in the dict (`same`: which may be the
iterated one). `AutoCommit` writes the group's position down; `Rejoin`, which may happen while clients are connected and in
the middle of a broadcast, and `Stop` / `Start` (the process) take it back to the committed offset, or to the end
of the topic if there is none (`FromOffset`). `dead` is the task after an exception of the iterator or the deserializer
(`TaskFails`), or when the consumer could not start: nothing restarts it. `late` are the connections that closed after the tick in
hand was given out, to which a send may still return; `missed` and `resent` are the clients for which ticks were passed over and for
which the group went back. **Feed** is what a client may rely on: a tick is owed
to everybody who is connected, and the next one comes when nobody is owed this one. Its place in the topic is
written down (`Mark`) and returned to (`Return`), which is the only way for a tick to be sent twice; ticks are passed over only
before any place was written down. `Broadcast`
implements it with `live` = the open connections, `owed` = the rest of the list that is being iterated, and `mark` = the
committed offset.

**Alerts** (with **AlertsProofs**). Workers that store alerts and dispatch them: the anomaly consumer, with
its retry loop around detection and dispatch, and requests for the risk of a
portfolio, which try once. `Detect` commits the alerts, `Query` reads the webhooks, `Load` takes the next alert
and the webhooks whose filters it passes, `PostSucceeds` / `PostFails` are the posts with their retries, one webhook and one alert
after the other. It takes its events from ConsumerLoop (an event it has
claimed) and is one attempt of that module in detail.

**TechnicalAnalysis**, **SignalGenerator**, **RiskEngine**, **AnomalyDetector** are the pure computations, with
whole per cents, `Unit`s of return and whole prices instead of floating point. TechnicalAnalysis
has the query (newest first, then reversed) and what RSI, the bands and the averages make of its closes: the
first two by their formulas without the square root, the others as the votes that every smoothing and
every volume leave possible. The code rounds RSI to two decimals and the bands and the EMA to four, and compares them with a price
that it does not round. Prices are therefore whole numbers of a unit that may be finer than the fourth decimal:
`Grain` units make 0.0001, and a price is at a band if a multiple of `Grain` that the band may be rounded to is not beyond it. Where
the code compares a floating-point value that should equal a threshold (a score, a weight of a symbol, a drawdown), or rounds
one that lies in the middle, the model lets it go either way. **Decisions** composes the four into the endpoints and the
consumer that call them, one action per call, and states what their answers
must be. **DecisionsProofs** has the theorems.

## 3. The runs

| Run | Module | Question | Bounds |
|---|---|---|---|
| ConsumerLoop | MCConsumerLoop | Is an event handled at most once, by one consumer at a time (`AtMostOnce`), and never dropped while the premises hold (`Accounted`); does every key get its TTL; do commits never go back and does a graceful stop leave nothing half done (`OffsetsAreSafe`); is the contract implemented? | both groups, 2 ids, topic of 2, 2 attempts; each of the kinds of fault once, at most two kinds in a run |
| MovingAverage | MCMovingAverage | Is an average stored once (`OneAveragePerTimestamp`), and is what counts as processed averaged (`ProcessedIsAveraged`)? Is SIGTERM answered, and does a consumer that stays up read the topic to its end? | the MA consumer, 3 events of 2 providers and 2 timestamps, window of 2, 2 attempts; a crash, a duplicate or a lost key |
| ConsumerLoopGroups | MCConsumerLoop | Do both groups handle every event? **No** | no fault at all |
| PriceLookup | MCPriceLookup | Is what is served fresh and stored; do raw rows, points and events match up except after named failures (`FetchesAreCompleted`); does a position that had a price keep one (`WorthStays`)? | 2 requests at a time, 2 symbols, 2 fetches, 2 attempts, times 0..3 with freshness 2, quotes 0 or 2 ticks old, buffer of 1, one fault of one kind |
| PriceLookupBinance | MCPriceLookup | Does reading the cache always return? **No** | Binance's timestamps and symbols, no fault |
| PollingWorker | MCPollingWorker | Are polls spaced, do deleted jobs stay deleted, are living jobs polled for ever unless the polls of another job break the session for ever (`JobsArePolled`)? | 3 jobs with intervals 1, 2, 3; 1 crash; any number of failures and of broken sessions |
| Portfolio | MCPortfolio | Do the books balance one request at a time, and what survives every interleaving? | 3 requests at a time, 3 buys of 1 or 2 at price 1 or 3 |
| PortfolioLost | MCPortfolio | Is every acknowledged buy in its position? **No** | 2 requests at a time |
| Broadcast | MCBroadcast | Does the broadcaster implement the feed (`ImplementsFeed`), and does the list follow the connections? | 2 clients, 3 ticks, 1 stop, 2 rejoins |
| Alerts | MCAlerts | Is an alert stored once and delivered once to whoever should get it? | 1 consumer and 1 request, 2 jobs, 2 webhooks with different filters, 2 attempts, 2 posts, 2 faults (failed posts, database errors, crashes together) |
| Decisions | MCDecisions | Mirror image, monotone votes, no lone voice in caution mode, two indicators of one stretch that agree (`StretchVotesAgree`), drawdown and concentration seen, moves announced and worn off | every vote, ADX class and mode with the default weights; histories of 1, 15, 20 and 35 prices of three decimals and of five; up to 4 positions and 4 returns; windows of 19 and 20 prices |
| DecisionsDrawdown | MCDecisions | Is a fall on the first day seen? **No** | as Decisions |

Why these bounds are enough:

* Two consumers and a topic of two are the smallest instance in which one event can be
  redelivered while another is at work. `MaxRetries = 2` has a first, a last and a
  following attempt. `MaxKinds = 2` lets any two faults meet (a crash after a
  Redis error, a duplicate after a lost key), and all safety results are proved for all bounds.
* The MA run has one consumer because only one writes averages; the other group's influence (a key it has
  taken) is that of a duplicate, which the run has. Three events are two of one timestamp and provider
  (the second must find the first) and one of another provider before them. The liveness of the loop is
  checked here, with the attempts in detail.
* Two lookups race in every way that one pair can; a third would repeat them. Time 3
  with freshness 2 lets an entry be written, age and end. The second event meets
  the full buffer. `MaxKinds = 1` because the properties name the faults
  they allow one by one; `FirstDay = 0` lets an old quote fall before the oldest partition.
* Three jobs leave one before and one after the poll that breaks the session, in every tick if it is the same one each time.
* Three buys of one symbol are an insert and two racing updates; other symbols and portfolios
  are never read by the same statements.
* Of two clients one is being sent the tick while the other has been sent it or is still to be sent it, joins, leaves, or comes to stand
  where the first one stood. Of three ticks one is before and one after the one that is sent again or passed over; two rejoins let
  the group go back a second time, after a commit or before the first one. Three clients with two ticks and one rejoin hold as well;
  the proofs are for any number.
* A portfolio of up to three positions may name a symbol twice; four different symbols are what it
  takes to stay under a threshold of 40%. `Unit = 8` makes returns exact eighths, and -2, -1, 0 and 4 give
  falls above and below 20%, over one day and over several; -9 is a day that takes more than everything, after
  which the index is negative. A history is a last price, a swing, a plateau and what came before, with moves of
  10% and 30%: as many prices as no indicator, RSI, RSI and the bands, and all of them need. `Grain = 10` makes a unit the fifth decimal: these prices are multiples of a tenth of a
cent or, in a second set, only a few units apart, where rounding decides. The rows 1, 2, 15, 20, 35 are
  one for each set of indicators that so many rows are enough for. A window is a newest price, some of a
  second one and the rest of a third, with differences from 1% to 20%; 19 prices are one too few.

Symmetry is used only in runs without liveness, over values that nothing
orders or treats differently. `CHECK_DEADLOCK FALSE` is in the configurations of
Portfolio, Broadcast and Alerts: a bounded number of buys, ticks and jobs runs out, a
portfolio may be deleted for good and a connection is made once, after which nothing has to happen.

**Fairness.** MovingAverage (`FairMaSpec`, the fairness of ConsumerLoop with the attempts in detail): a
running process keeps executing (weak fairness of `OwnStep`), and a broker that has messages does not
answer every poll with a timeout (strong fairness of `Fetch`). Nothing is assumed about `Restart`: the consumers'
services have no restart policy in `docker/docker-compose.yml`. The liveness properties
speak of consumers that stay up. PollingWorker: the task is scheduled and every await comes
back, because the HTTP clients have timeouts (weak fairness of `WorkerStep`), and time passes (of `Tick`).

## 4. What the checks show

Holding, and less obvious than it looks:

* As long as no key is lost, no combination of crash, rebalance, Redis error and duplicated
  event makes an event be handled twice, even though offsets are
  committed independently of the work. It is the keys alone that see to it.
* With no Redis error, no crash and a DLQ that accepts, no event of the topic is dropped:
  it ends processed or dead-lettered, or is still to come.
* However often an event is redelivered, a commit loses its answer or a process dies, no timestamp and provider
  gets two averages, and an event that counts as processed is averaged under its timestamp or a later one.
* A cache entry outlives its price, and yet a stale price is never served.
* A fetch is completed: its raw answer gets a point and its point an event. The named exceptions are a
  database error, a crash or a quote older than the first partition between the two commits, a Redis error before
  the event, and a full buffer, which stays full.
* A snapshot that once valued a position never falls back to 0, although it takes the cache as it is: what the
  cache forgets the table has. This is of symbols whose rows the position finds (`Held`), see below.
* After a failed statement or a deletion in the middle of a tick the session is unusable for the rest
  of the tick, and still the worker goes on. A job that is neither deleted nor failed is polled again, unless polls of other jobs
  break the session again and again: see the noted disagreements. No job starves by its own failures, a crash or a deletion.
* However buys, closes and a delete interleave, a position never has more
  shares than were bought, its average stays between the lowest and highest price,
  no position outlives its portfolio and none is reopened.
* The copy that `unsubscribe` makes is what keeps a running broadcast from skipping a client: with it, and only with
  it, every connected client gets consecutive ticks for as long as the group's position is not moved. Where it is moved back, each
  client is sent all the ticks after the committed offset again, in order, and skips none; ticks are passed over only by a group that has
  not committed yet.
* RSI and the bands, which look at the same stretch and carry 70% of mean-reversion's weight, never vote against
  each other while prices have no more than three decimals, except of a market that did not move. With finer prices they do:
  see below.
* A drawdown is reported iff the portfolio fell by more than the threshold between two of its days, also
  where a day took more than everything and the index is negative. A second position of a symbol may hide a
  concentration and never makes one up.
* Failing webhooks never make an alert be stored twice nor an event go to the DLQ; a
  database error during dispatch does store it again.
* In caution mode a single indicator cannot make a signal, although Bollinger's weight
  equals the threshold: one weight alone is not rounded, and ADX amplifies nothing there.

### Findings (the runs that end in a violation)

1. `ConsumerLoopGroups`: both consumers claim the same key `processed:<id>`
   (`app/kafka/consumer.py:77`, `anomaly_consumer.py:80`), so that each event reaches only
   one of them; the docstring at `anomaly_consumer.py:38-40` says "independently".
2. `PriceLookupBinance`: a cached timestamp with a time zone makes
   `app/services/price_service.py:59` raise `TypeError`, for Binance and for every price that
   was found in the database; the docstring at line 52 says "or None if missing/stale".
3. `PortfolioLost`: of two concurrent buys one is lost (`portfolio_service.py:98-102`)
   although both are acknowledged.
4. `DecisionsDrawdown`: the index begins after the first return (`risk_engine.py:237`),
   not at 1.0 as its docstring says, so a crash on the first day is no drawdown.

Disagreements that were noted while reading and have no run yet:

* A Redis error at SETNX or EXPIRE drops the message without the DLQ (`consumer.py:78`, `:108`;
  README.md:234 "Retry + DLQ"); so does a DLQ that does not accept (`:29`).
* A broken session ends the tick for the remaining jobs (`polling_worker_service.py:59-65`;
  the docstring at :21-25 says "for each due job"). The job that broke it keeps its status and its `last_polled_at`, so it is due again in
  the next tick: if its insert always fails (a quote for which there is no partition, `price_service.py:117`), the jobs after it
  in the list are never polled. This is the premise of `JobsArePolled`, which does not hold without it.
* A new job is not "always due immediately" (`:38`): `last_polled_at` defaults to now
  (`app/models/polling_jobs.py:20`).
* Concurrent first buys make two active positions of a symbol, after which the lookup at `portfolio_service.py:95` raises.
* After a restart, and when its group is joined again while clients are connected, the broadcaster resumes at the committed offset
  and sends old ticks, although a comment says "don't replay history on connect" (`kafka_broadcaster.py:25`): `auto_offset_reset` is only
  for a group without an offset. In that case, a rejoin before the first commit, it passes over ticks.
* RSI is of the prices as they are, bands and EMA are rounded to four decimals (`technical_analysis.py:81`, `:198-203`), so that what is found
  depends on how small a price is: of one that falls from 0.00003 to 0.00001 the bands are 0.0, RSI says BUY and the bands say SELL;
  a market that never moves from 0.12344 is above both bands and the EMA, and mean-reversion answers SELL. `StretchVotesAgree` is of prices of
  three decimals at most.
* Sequential webhook posts with retries may outlast the stop grace period (README.md:236, `webhook_service.py:115`).
* With two positions of a symbol the weights do not sum to one (`risk_engine.py:101`, `:86`).
* Caution mode's indicators "must all broadly agree" (`app/core/config.py:51-53`): RSI and MACD against OBV
  already come to 0.35, above the threshold of 0.30.
* Finnhub's rows have the symbol as the request spells it (`price_service.py:49`), positions and the snapshot have it in
  upper case (`portfolio_service.py:221`): of a position whose symbol is only asked for in lower case the cache, whose
  keys are lower case, knows the price and the table does not, so it is worth 0 once the entry expires.
* The MA window is of all providers (`moving_average_service.py:37`) and its average is stored under the provider of the event;
  an average is never corrected when an older point arrives later.
* A market that does not move has an RSI of 100 (`technical_analysis.py:138`): with 15 to 19 rows there are no bands to
  contradict it, and mean-reversion answers SELL.
* After a log return below -1 the cumulative index is negative (`risk_engine.py:237`).

## 5. What is proved

`tlapm` checks every leaf, for all values of the constants that satisfy the named assumptions. TLC
evaluates these assumptions in every run of the module. Sets of processes, jobs, symbols and ids are arbitrary.

**ConsumerLoopProofs**, from `LoopAssumption` (bounds are naturals, at least one attempt):

* `TypeCorrect`: the types, and that offsets stay within the topic, so that the
  message in hand is always defined. Inductive as it stands; the other proofs use it.
* `NoDoubleProcessing`. "At most one outcome" is not inductive. The invariant
  is `Claimed`: as long as no key was lost, for each id (`OneClaim`) an absent key means no outcome and no
  worker, a worker means no outcome, two workers are the same, and there is at most one
  outcome. `ClaimTaken` is the SETNX that starts a claim, `ClaimUsed` any step that
  ends or continues one, `NothingClaimed` all others.
* `SafeOffsets`: commits never go back, from `CommitLags` (a group's commit is never ahead
  of what its consumer was given), and only `LoopTop` takes a process down without a crash, when it has nothing in hand.
* `KeysExpire` and `NothingDropped`, from `Expiring` and `Vouched`: without the faults that their premises exclude, a key
  without a time to live has somebody at `expire`, a key has an outcome or a worker, and so has all that a consumer was given.
* `Implementation`: `Init` implies the contract's `Init`, and every step is a step of
  `DedupContract` or leaves its variables alone (`StepImplements`, one case per action), without the premise
  that no key is lost.

**MovingAverageProofs**, from `MaAssumption` besides:

* `ComposesTheLoop`: `MaSpec => Spec`, so that all theorems of the loop hold of the composition
  (`NoDoubleAveraging` is the example).
* `Idempotent` and `NothingUnaveraged`, from `MaInv`: what an attempt has read is a stored point not older than that of its
  event, an attempt at `insert` has found no such row, rows are unique, and processed events are averaged. An
  attempt is only ever one of the MA consumer, so nobody inserts between its lookup and its insert.

**PriceLookupProofs**, from `LookupAssumption` (the provider spells a symbol so that it has the same cache key):

* `TypeCorrect`, inductive; it contains the bound on the attempts at a provider.
* `Freshly` from `Fresh`: a request begins now at the latest, and what it has read was in the window when it read it.
* `NothingInvented` from `Stored`: what is cached, and what a request has in hand after it has read or written the
  table, has its row there, of the right key. No failure takes a row away or leaves a price in the cache without one.
* `EventsAfterRows` from `Numbered` and `Announced`: two requests never have the same raw answer in hand, what is in
  hand has not been announced, and what is announced has a row.
* `FetchesEndWell` from `Completed`, which adds to the property that a quote from before the first partition was spent as a fault.
* `PricesAreKept` (`WorthStays`, an action property) from `Stored` and `Numbered`, which also says that all rows are
  spelled as the provider spells them.

**PollingWorkerProofs**, from `WorkerAssumption`: `TypeCorrect`, `Spaced` and `DeletedForEver`, from `StillDue`: a job leaves
the list before it is polled, and what is on it and due, or is being polled, was not polled for an interval.

**PortfolioProofs**, from `PortfolioAssumption`:

* `TypeCorrect`, with unique ids; `WithinBounds` from `Sane` (what a row holds, and what a buy has seen of it, is no more than
  was bought, and averages are in range), which rests on the arithmetic of the weighted average (`AverageAbove`, `AverageBelow`); `BooksBalance` from `Serial`: while nothing has overlapped, at most one request is busy, and what it has seen
  is what there is.
* `PortfolioOutlivesPositions` and `ClosedForEver`: no row without the portfolio, none is reopened.

**BroadcastProofs**, from `BroadcastAssumption`, for any number of clients, ticks, rejoins and restarts:

* `BroadcastTypes`, `ListFollows` and `BroadcastImplementsFeed`, from `Shape`, which adds to the types and to
  `ListFollowsConnections` that what a running broadcast iterates has nobody in it twice (`WalkOK`), that a client is in no
  list before it joins (`NewcomersOK`), and that a connection that was closed before the tick in hand is still to be
  tried, or has failed (`StaleOK`). Each step has one lemma that says what it does to the shape and, at once, which
  step of the feed it is; `RestShrinks`, `RestGrows` and `WithoutKeeps` say what an append and the new list of `unsubscribe` do to
  the rest of the list that is iterated.
* `ClientsMissNoTick`, `Spec => [](NoGaps /\ (rejoins = 0 => missed = {} /\ resent = {}))`: while a client is connected, no tick is
  missing between two it was sent unless ticks were passed over for it; none comes twice or out of order unless the group went
  back; and what it was sent reaches up to the current tick or, if it is still owed that, the one before. Without a rejoin there are no
  such exceptions, since a restart ends all connections. `NoGaps` is proved of the feed's steps and carried over by the refinement (`FeedStepKeepsNoGaps`);
  that only a rejoin moves the position under connected clients is `Steady`.

**AlertsProofs**, from `AlertsAssumption` (at least one attempt and one post) and `OneOfEachType` (a detection, and a check of
the thresholds, finds each type once: `detect_and_store` asks each detector once, `_check_thresholds` stops at the first
concentrated symbol):

* `TypeCorrect`: the types, with jobs that have begun (`Typed`).
* `PostedOnceOnly`. `DeliveredOnce` is not inductive: that a post adds to failures only, and not beyond `MaxPosts`, needs `Own`.
  An alert in hand is in one worker's hands and once in its batch, has no posts before it is its turn, and the webhooks that are
  `left` have only failed so far. `OwnedAfterPost` is the post, `OwnedWithoutPost` all other steps.
* `NobodyIsForgotten`, from `Due`: a worker's batch is of its own job, the webhooks it has read include all those its
  job knew that are still registered (they can only have gone, never come back), and of those a current alert is
  owed to each is left or done. No batch is dropped without an error or a crash, which the premise excludes.
* `StoredOnce`, from `Counted`: a job has one worker, has no more alerts of a type than attempts that got beyond their detection, and
  begins another attempt only after a database error. A detection adds one alert of a type at most (`StoreCounts`).

**DecisionsProofs**. Of signals, from `WeightAssumption` (weights sum to 100, which `validate_weights_sum_to_one`
enforces) and `WeightsAreShares` (none is negative, which it does not enforce: with negative
weights a vote would count against itself):

* `NoBias`: a market turned upside down gets the opposite signal. The score is a sum of five
  terms, each of which changes its sign (`MirrorScore`).
* `VotesAlwaysCount`: raising one vote lowers no signal. The scores
  differ by that indicator's weight (`RaisedScore`), multiplied by a positive
  factor; what is left is where the threshold may be rounded (`RaisedSignals`).
* `CautionIsCareful`: if no caution weight is above 0.30, which is so of the defaults, a signal in caution mode has two votes at least.
* `DecisionsTypes`: every answer is one that its question can have, and a confidence is a share.

The first three use `Asked`: a signal is only asked of votes that the endpoint can have.

Of indicators, from `PricesAssumption` (prices are whole numbers of a unit) and `GrainAssumption` (the unit divides 0.0001):

* `StretchVotesAlwaysAgree`, for all histories of prices with at most three decimals, however fine the unit is and however ties of the
  rounding go. By induction over the closes, the last of them is what was won less what was lost
  above the first, and none is further above it than what was lost (`GainsAndLosses`). Distances from the last close are multiples of
  0.001, so their squares add up to no less than 0.001 times their sum (`StepsApart`); and seven of twenty closes are
  not further from the mean than all twenty are (`Deviations`). A price at a band, which is rounded by 0.00005 at most, is
  the price of twenty equal closes, or so far from the mean that the rounding hardly counts (`NearOrFar`). If RSI calls a market
  overbought, at most three sevenths of the gains were lost: the first close of its window is far below the newest, and no other
  is above it by more than was lost. Were the newest price at the lower band, then that first close and
  the next six would be further from the mean than twenty closes with such a deviation can be (`TooSpread`); the same upside down
  (`NotOpposite`). That seven are enough is the arithmetic of 14 and 20 with 30, 70 and two deviations: other periods need another proof.
  That the average of equal closes is their price, if that has four decimals, is `FlatAverage`.
  That nothing is signalled of a market that never moved has a premise on the weights (`Balanced`): those of RSI and the bands
  differ by less than the threshold, amplified or not. The validator does not ask for it; the defaults differ by 0.05 at most.

Of risk, from `RiskAssumption` and `HoldingsAssumption` (quantities and prices are positive, what is analysed has returns, and none of
these is the loss of exactly everything, after which the code divides by zero):

* `DrawdownSeen`, for a threshold of 1% to 100%. `RunningMaxIs` says that the running maximum is the greatest value so far,
  `MaxDrawdownIs` that what the loop keeps is the deepest fall from it, by induction over the index, and
  `DrawdownBetween` that no other two days are further apart. The last one is where the sign matters: once the index is
  negative, a fall from a positive peak is still the deeper one. The threshold has to be a share: beyond 100% only a fall below zero
  exceeds it, and that is a greater multiple of an earlier, lower peak than of the running maximum; at 0 an index that never was
  positive may be reported, which has no fall.
* `FewConcentrated`, for any number of positions: of positive values that sum to a total, the largest has at least its share (`OneOfFew`),
  and the weight that is reported is one of those that add up to the symbol's. A symbol of exactly the threshold may be reported or not,
  as the division of floats falls out.

Of anomalies, from `PricesAssumption`:

* `MovesAlwaysWearOff`, for every window of 18 to 29 prices; the code's has 20. With k prices of n that differ from the newest,
  the deviation and the variance satisfy a Cauchy-Schwarz inequality over these k alone (`Moments`, by induction over the
  window), so that the newest price is at most the square root of n / m - 1 deviations from the mean if m prices equal it (`TooClose`). With
  m = 1 that has to exceed 4, with m = 2 to stay below 4 and with m = 3 below 3, which is what 18 and 29 are.

**Recursion and folds.** The library's induction theorems take an operator as a parameter, which the provers cannot instantiate.
`SetInduction` replaces them: a set of numbers that has 0 and is closed under adding one has all of them, for if it had
a gap, the finite part below it would be mapped by x + 1 into a smaller part of itself (`FS_Injection`). From it follow that recursive
functions over numbers exist and are what their equations say (`Recursion`, `KeepsSomething`), that sums over finite sets
add up one element at a time (`SumsExist`), in any order (`AnyOrder`), that folds over sequences are running
sums (`FoldedSum`), and with them the facts about `Without`, `Index`, `MaxDrawdown` and the sums of a window.

Only model-checked:

* liveness (`ShutdownAnswered`, `ReadsToTheEnd`, `JobsArePolled`): fairness and ENABLED are out of the prover's reach.

## 6. What is not modelled

* `resolve_alert`: it sets a flag that only a client reads.
* Values of indicators, VaR, volatility, Sharpe ratio, correlations: numerics of numpy
  and pandas. What EMA, MACD and OBV vote is what every smoothing and volume allow, ADX is open, and so is
  whether VaR and volatility exceed their thresholds.
* Prices of the lookup, payloads, HMAC signatures, formatting, logging, metrics, health checks: nothing depends on them here.
* Read-only endpoints, migrations (offline, once) and the dashboard (a client).
* Messages without a symbol or an id, which the producer never sends.
* Seconds: how long posts, polls and shutdown take against timeouts and grace periods is arithmetic on settings.

## 7. Plan

Done: ConsumerLoop with its contract; MovingAverage inside it; PriceLookup with the snapshot's valuation; PollingWorker; Portfolio;
Broadcast with Feed; Alerts; TechnicalAnalysis, SignalGenerator, RiskEngine and AnomalyDetector under Decisions; proofs of all
safety properties that the runs check.

Next:

1. *Model more.* Alerts inside ConsumerLoop the way MovingAverage is, so that its attempts are those of the loop;
   liveness of lookups, broadcasts and webhook jobs under the fairness of one event loop.
