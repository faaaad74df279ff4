# TLA+ models of the arbitrage server

The repository is a Go server that detects Bitcoin arbitrage over ten exchanges
in real time, executes it against simulated wallets, and shows it on a
dashboard. This directory holds TLA+ models of it, the TLC runs that check them
on small instances, and theorems about them that TLAPS checks for every value
of the constants. Paths below are relative to the repository.

## The system

One process. Goroutines: ten connectors (with ping goroutines of their own),
the aggregator's drains, the processing loop, the funding strategy's poller,
the WebSocket hub with two pumps per client, one goroutine per HTTP request,
and at times a backtest and the goroutine that stores its result.

| Part | State | Operations | Talks to |
|---|---|---|---|
| connectors, `internal/exchange` | attempt counter, socket | connect, read, ping, back off | send on channels (512 / 256, never blocking) to the aggregator |
| aggregator, `internal/feed` | latest price and book of each exchange | drain, Latest, Snapshot, Book | stores under a lock, then offers the update to the loop (512, never blocking) |
| engine, `internal/engine` | max-heap of opportunities | ProcessUpdate, DequeueTop | calls the strategies; only the loop touches the heap |
| strategies, `internal/strategy`, `model`, `sizing` | spread statistics, Kelly samples, recent trades, cooldowns, reference prices | Detect, setters, RecordTradeReturn | called by the engine, patched by HTTP, told results by the executor |
| risk manager, `internal/risk` | state, loss count, end of pause, thresholds | Evaluate, RecordTradeResult, State, setters | called by the loop and by HTTP handlers |
| executors, `internal/executor`, `depth`, `wallet` | wallets | Execute | read the aggregator, write wallets and store |
| store, recorder | trades, opportunities, SQLite | Save, SaveTrade, RecordFrame, queries | called by all |
| processing loop, `cmd/server/main.go` | tickers, opportunity in hand | one select over updates and tickers | drives engine, risk manager, executors, hub |
| live configuration, `cmd/server/main.go` | liveCfg, intervalCh | GET and PATCH /api/config | setters of strategy and risk manager, channel to the loop |
| hub, `internal/server/ws.go` | clients, latest throttled event per type | register, unregister, publish, flush | one send channel per client |
| backtest, `internal/backtest` | run states | start, status, results | replays the recorder's frames through an engine of its own |
| dashboard, `web/` | events by type | reconnect, apply event | WebSocket and REST |

What is hard here, and what has to hold:

* **Risk manager.** A pause ends only when somebody calls; limits change in any
  state. No trade inside a pause, each pause served once and in full, and it ends.
* **Processing loop.** HTTP goroutines patch thresholds and ask for the state
  between the approval of an opportunity, its trade and the record of the
  result. Statuses, trades and events must agree; the breaker must work with
  the reported configuration and with realised results.
* **Engine.** Heap order and indices through every sift; nothing fresh is lost.
* **Executor.** Prices and books change between the two legs; either leg can
  fail. Both legs or none, no negative balance, wallets and ledger agree.
* **Depth walk.** Boundaries: zero, exactly enough, too little.
* **Feed.** Full channels drop quotes, connections fail, a drain stores a price
  in one step and announces it in the next, two goroutines write on some
  connections. Nothing may go back to an older quote, and the snapshot may not
  be behind the update that wakes a strategy.
* **Hub.** Two channels for coming and going, coalesced events, slow clients. No
  channel closed twice, no trade missed by a connected client, gone clients
  leave, browsers end up with the latest prices.
* **Strategies.** Incremental statistics over rings, results that come back
  while configuration changes. Estimators equal their definitions, volumes
  follow from past trades, cooldowns hold.
* **Backtest, recorder, store.** One connection shared with the loop, a result
  passed between goroutines, restarts. Status, window, metrics and record of a
  run agree; the ledger survives; nobody keeps the connection.

The hazards are listed one by one in `PROJECT.json`, each with the properties
that cover it.

## The modules

| Module | Models | Kind |
|---|---|---|
| `RiskManager` | `risk.go`, one action per method (each holds the lock throughout) | detailed |
| `CircuitBreaker` | what the risk manager promises: a breaker with a timer | abstract |
| `OppHeap` | `heap.go`: the array heap, with `container/heap`'s sifts | operators |
| `Engine` | `engine.go`, over `OppHeap` | detailed |
| `OpportunityQueue` | what the engine's queue promises | abstract |
| `ProcessingLoop` | `main.go`: `runProcessingLoop` and `patchConfigFn`, with `RiskManager` and `OpportunityQueue` by INSTANCE | composition |
| `MultiWallet` | `wallet.go`, as operators on a wallet | operators |
| `Executor` | `executor.go`: `Execute`, one action from each read of shared state to the next | detailed |
| `AtomicTrade` | what `Execute` promises: a trade in one piece | abstract |
| `DepthWalk` | `depth.go`: made-up books, and one action per pass of `Walk`'s loop; the executor's choice of a book | detailed |
| `BookFills` | what a walk may return, shared by `DepthWalk` and `Executor` | operators |
| `Connectors` | the ten connectors: what they set up, ping, answer and emit; the back-off | operators |
| `Feed` | `runWithReconnect`, `run` and `aggregator.go`, over `Connectors` | composition |
| `Hub` | `ws.go`, what the loop publishes, and what the browser makes of it | detailed |
| `Estimators` | `spread.go`, `kelly.go`, `correlation.go` | algorithms |
| `SpatialStrategy`, `FundingStrategy`, `TriangularStrategy` | the strategies' `Detect` and what feeds it | actions |
| `Cooldowns` | what funding and triangular have in common, and its properties | composition |
| `Strategies` | `ProcessUpdate` over the three, with trades, setters and polls in between | composition |
| `Store`, `Recorder` | `store.go`, `recorder.go` | actions |
| `Metrics` | `metrics.go` | algorithms |
| `Backtest` | `runner.go`, `backtest_handlers.go`, with `Store`, `Recorder` and `Metrics` | composition |
| `*Proofs` | theorems and proofs about the module of that name; `EngineProofs` also about `Strategies` | proofs |
| `MC*` | small instances for TLC | |

### RiskManager

The variables are the fields of `RiskManager` and the three fields of its
configuration that have setters; `approved` is the answer of the call just
made. `checkPauseExpiry` is folded into the three methods that call it
(`CheckedState`, `CheckedLossCount`), never an action of its own. Percentages
are integers, since the code only compares them. The refinement maps a paused
manager to a breaker with an empty streak: an elapsed pause that nobody has
noticed looks, from outside, like one that ended on time.

Both modules count losses as the code does: a result is a loss if it alone is
below the threshold (`risk.go:115`). Two documents say instead that the *sum* of
the last losses is compared (`docs/configuracion.md:74`, `docs/dashboard.md:246`).
The two are different breakers: losses that stay at the threshold or above it,
each by itself, never trip the code's, however far their sum falls below.
`ImplementsBreaker` is about the code's.

### Engine

`pq` is the slice, from index 1; `index` keeps Go's value, and `Less`, `Swap`,
`Push`, `Pop` are `oppHeap`'s. The sifts of `container/heap` are modelled from
the way the standard library calls `oppHeap` and are marked external. Every loop
here is a pass, a function of the loop's state that changes nothing once the
loop has broken off, repeated as often as the loop can run at most (`Repeat`). A
position halves or doubles with each pass of a sift, a discarding pass shortens
the heap: the proofs show that these numbers of passes are enough. The queue's
contract is worth reading: expired opportunities are dropped only when they come
to the top, so opportunities scored below the one handed out stay in the heap
however old they are. (`docs/configuracion.md:24` can be read as promising
more.)

### ProcessingLoop

`pc` says where the loop is in the branch of the execution ticker. Each step
ends at a call that takes a lock, so that the other goroutines' steps
(`BeginPatch`, `ApplyPatchField` field by field, `GetStatus`, `Clock`) can fall
between any two. A call of the risk manager is the action of `RiskManager` on
the same variables. `publishCircuitBreaker` asks for the state a second time,
as in the code, and may publish another one than was tested. Trades carry the
realised net percentage: for spatial opportunities any of `RealisedPcts`, for
funding and triangular the estimate, which is what their executors book.
`liveCfg.minNetProfitPct` starts apart from the risk manager's minimum, which
is set from another variable of the environment (`SPATIAL_BASE_MIN_NET_PROFIT_PCT`).

### Executor, MultiWallet, DepthWalk

`TakeSnapshot` ends where the snapshot has been read, `CheckFails` and
`CheckPasses` start where the clock is read, the buy leg where the ask book is
read and the sell leg where the bid book is read. Quotes and the clock move
between any two. A walk returns any of `Fills(volume, MinPrice, MaxPrice)`,
because a real book may hold anything by then; `DepthWalk` shows, by TLC and by
proof, that `depth.Walk` always returns one of those. `Reversed` ignores the
error of its `Debit`, as the code does. The refinement to `AtomicTrade` hides
the buy leg in progress by undoing it. The report of a trade's return
(`executor.go:244-247`) is `Strategies`' `Trade`.

Lots and units of USDT are integers: the code computes with decimals and
converts to floats for the wallet, and the rounding in between is not modelled.

### Connectors, Feed

The ten connectors share a skeleton, which `Feed` models once; a record per
exchange in `Connectors` holds what differs: the steps before the read loop,
whether there is a ping goroutine, whether the read loop answers keep-alives,
and the channels that one frame can feed. Parsing is left out, quotes of an
exchange are numbered. `Disconnect` is a failure anywhere from the dial to the
read loop. A write has a beginning and an end, so that two can overlap; the
WebSocket library, vendored in the repository, panics when they do (`Clash`:
`flushFrame` and its flag `isWriting`), and a panic in any goroutine ends the
process: `panicked` stops everything.

`drain` is two steps, because the lock is released between storing the price
and offering the update. The back-off is modelled with the width of its
integers (`IntWidth`), since the code doubles before it caps.

### Hub

The three channels, the set of clients, the one held-back event of a throttled
type, and for each client its send channel, its pumps and what its browser has
received (`view`, the `switch` of `useMarketSocket.ts`). One action per branch
of the hub's `select`. A client is a connection, so a browser that reconnects is
another one. `aired` and `joined` are history, for the properties. Only
`price_update` stands for the throttled types: they are coalesced each by itself.

`docs/api.md:21` says that of the `price_update`s the last *per exchange* is
published; the code keeps the last of all exchanges (`ws.go:97-101`). Browsers
converge all the same, thanks to the unthrottled `price_snapshot`; without it
(the mutant of `PricesConverge`) they would not.

### Estimators and strategies

`Estimators` translates the three incremental structures: Welford's method with
a ring and eviction, the same without eviction, and a ring of trades. Samples
are integers every division of which is exact (`ExactDivisions`, an assumption
that TLC evaluates; for any finite set of prices a fine enough `Scale` meets it),
and fractions stay pairs, so that the incremental result can be compared with the
definition, not with an approximation of it. The two comparisons,
`SpreadTellsWindow` and `VolumeTellsTrades`, stand at the end of
`SpatialStrategy`.

`Detect` of the spatial strategy is two steps, because its configuration is
copied first and setters may fall in between; it trains the models before it
filters, as the code does. Costs come from a table instead of rates. Scores and
z-scores, and the imbalance penalty that only changes them, are left out: `Engine`
takes any score. `FundingStrategy` polls rates in a goroutine of its own and
chooses among equal rates in any order, as Go walks a map. In
`TriangularStrategy`, `refs` and `ethBtc` matter only by their quotient.

`EmissionsSpaced` is about directed pairs, minimum to maximum, because the
cooldown's key is one (`funding.go:151`). That is less than the comments and a
document promise: by `funding.go:150` the reversed pair does not have a cooldown
of its own, and `funding.go:24` and `docs/configuracion.md:53` have one per pair.
In the model as in the code, when the rates of two venues change places between
two polls, the reversed pair is emitted at once (`Poll`, `FundingDetect`).

Read beside the code: `triangular.go:145` would drift the second
market on the same schedule as the first, but the test cannot hold once the
first has been refreshed; production never sets `RefreshEvery`, so neither
happens (`docs/estrategias.md:219`). The return a trade reports to Kelly is
the difference of prices without fees (`executor.go:244`), while the comments
call it net.

### Store, Recorder, Metrics, Backtest

`Store` keeps the trades of this life of the process and the table that outlives
it; an insert may fail and is only logged. `executed_at` has the resolution of
a second, so what a start reads back may be in any order within one. It may also
be any part of the table: a row that cannot be scanned or decoded is skipped,
and nobody asks the rows for the error that ended them (`store.go:119-128`). The
insert of a run may fail too, and the handler drops that error
(`backtest_handlers.go:95`).

`Recorder` has one connection (`SetMaxOpenConns(1)`): `Connect` and `Release`
bracket a query, and the loop's insert needs it free. The loop reads the
recording flag first (`CheckRecording`) and waits for the connection afterwards,
so switching recording off does not release it.

`Metrics` works on integers, in passes over the profits as the code makes them;
the Sharpe ratio is its sign and its square. `MetricsMatch` compares them with
textbook definitions of what the code computes, on three points of which the
reader should know more. The returns of the Sharpe ratio are profits in USDT
(`metrics.go:92`), while `docs/backtest.md:85` takes net fractions: two trades
whose costs differ have another ratio in fractions. The profit factor without
losses is 999 (`metrics.go:149`), while `docs/backtest.md:175` shows 99999.0. And
equal profits have no deviation and a ratio of 0, exactly so here and for two
floats; of three or more equal floats the mean may be rounded away from each of
them, the deviation is then tiny instead of 0, and the code reports an enormous
ratio.

In `Backtest` a request goes through `stage`: the handler, then the goroutine of
`StartAsync` step by step (query, query, replay frame by frame, status, send,
unlock), then in `persister` the goroutine that stores the result. Frames have
an id, the order of insertion, and a time, stamped by a connector. What the
strategies find in a frame is left open. `Restart` kills everything in
memory and starts anew from the tables.

Read beside the code: `docs/backtest.md:205-216` polls until "done" and then
fetches the result, which may not be stored yet (`runner.go:86-94`,
`backtest_handlers.go:79-96`). A run that fails is stored as done, with no
identifier, though `docs/dashboard.md:473` promises the status `failed`; the
second such record is refused as a duplicate. Funding replays
recorded rates, but nothing in the server records any (`RecordFundingRate` has
no caller), whatever `docs/backtest.md:255` says of seeds. And replayed
strategies book their estimates, which are positive: outside unit tests the
drawdown is 0, the hit rate 1 and the profit factor 999.

## The runs

Runs that pass:

| Run | Question | Bounds, and why they are enough |
|---|---|---|
| `risk_manager` | Does the lazy state machine behave like a breaker with a timer, and do pauses end? | three net percentages around the thresholds, limits 0 to 3, pauses of 2 ticks, results up to tick 5: a second pause can start after the first, and limits fall below the count |
| `engine` | Does the heap implement the queue? | 5 opportunities, 3 scores, batches of 2, TTL 1 in 3 ticks: three levels of the heap, ties, expired items above and below fresh ones |
| `processing_loop` | Do trades, statuses, events, pauses and configuration agree under interleaving? | spatial and funding opportunities, realised wins and losses, one PATCH out of three bodies, one of them with two fields |
| `executor` | Both legs or none? Do wallets and ledger agree? | two exchanges, prices 1 and 2, two trades, balances so small that either leg can fail for lack of money, of BTC or of depth, clock up to two ticks with threshold 1: fresh, just fresh and stale quotes |
| `depth_walk` | Are fills bounded, complete and at the best price? | all sorted books of up to 3 levels with quantities 0 to 2, volumes 0 to 5 |
| `feed` | Does any exchange's quote ever go backwards, get stuck behind a full channel or a slow loop? Which connections can clash? | all ten connectors, each by itself, and one pair with different protocols, since exchanges share only `out`; 3 quotes, channels of 2 and `out` of 1, so both overflow; one reconnection |
| `push` | Do clients get closed once, miss nothing while connected, leave, and converge? | one client, since the hub treats each by itself; channels of 1 and a buffer of 2, which overflow; two exchanges so that coalescing loses one; two price changes, two trades |
| `backtest` | Do status, window, metrics and stored record of a run agree, across failed queries and inserts, partial reads and restarts? Does the loop get the connection? | two requests, or one beside the loop, or one beside trading; two frames of two times inserted in either order; profits -1 and 2, of one strategy, since the proof of `MetricsMatch` has any; one restart |
| `strategies` | Do estimators, volumes and cooldowns agree with history? | two exchanges, a window of 2 that wraps in 4 updates, two returns (Kelly warm at 2), a ring of 2 trades, one setter call, clock to 2 with cooldowns and refresh of 2; either spatial alone or the other two, which share nothing with it but the update |

Fairness. `risk_manager` checks `PauseEnds` under weak fairness of the clock and
of `Evaluate`: the loop's ticker calls `DequeueTop` for as long as the server
runs and, with opportunities arriving, each call leads to an `Evaluate`. `feed`
assumes that drains are scheduled, and nothing of the loop or of the exchanges.
`push` assumes that the loop's snapshot ticker fires, that pumps are scheduled
and that Go's `select`, which chooses at random among the ready branches, passes
none over for ever; nothing of markets, browsers and networks. `backtest`
assumes that goroutines are scheduled and, by strong fairness of those waiting
for the connection, that each gets it in the end: the pool of `database/sql` may
serve waiters in any order, but there are few of them, two requests and the
loop, and a request makes at most three queries in its life. No other property
needs fairness.

Deadlock is checked except where the system may stop or a bound ends it: a walk
ends, a panic ends the process, and updates, requests, restarts and the clock
of `feed`, `backtest` and `strategies` are bounded.

Runs that show where code and documents disagree; each checks one property that
states what a document or a comment says, and TLC finds it violated:

| Run | What happens |
|---|---|
| `loop_losses` | `main.go:618` records the estimate, which `Evaluate` has just required to be at least the minimum, instead of the realised result (`risk.go:105`, `docs/dashboard.md:254`): trades that lose money do not trip the breaker |
| `feed_backoff` | the back-off of `connector.go:52` caps the delay only once it is multiplied out, and `runWithReconnect` never resets the attempts: at the 35th disconnection of one connector the delay has wrapped, and the panic of its jitter ends the server (`docs/exchanges.md:130`). The run uses integers of 12 bits, where the 9th disconnection does it |
| `kelly_sizing` | `spatial.go:177` takes a fraction of 0 for "no advice", and losses give 0 (`kelly.go:44-63`): a pair that has only lost is sized at the whole position limit (`docs/estrategias.md:85-89`) |

Other disagreements met while modelling, which no run is spent on. The models
have the transitions that show them:

* `main.go:285-288` drops a new interval when the previous one has not been
  taken, and goes on reporting it (`docs/configuracion.md:166`).
* `main.go:274-277` does not tell the risk manager of a new position cap
  (`docs/configuracion.md:166`).
* `main.go:597` publishes the breaker's state only after refusing an opportunity
  in a pause (`docs/api.md:25`).
* `risk.go:115` compares each loss with the threshold by itself, not the sum of
  the last ones (`docs/configuracion.md:74`, `docs/dashboard.md:246`):
  `RecordLoss`, `RecordGain`.
* `funding.go:151` gives the reversed pair a cooldown of its own (`funding.go:24`
  and `150`, `docs/configuracion.md:53`): `FundingDetect`.
* `backtest_handlers.go:93` stores runs that failed as done
  (`docs/dashboard.md:473`): `Persist`.
* `metrics.go:92` takes USDT for returns, and `metrics.go:149` reports 999 where
  the document shows 99999.0 (`docs/backtest.md:85` and `175`): `ComputeMetrics`.
* `executor.go:210` books trades without profit and partial fills
  (`docs/realismo.md:177`).
* MEXC's and Bitget's ping goroutines write beside their read loops; the library
  panics when they meet (`ClashOnlyAtTwo` bounds it to these two).

## What is proved

For every value of the constants that meets the modules' named assumptions:

* **`RiskManagerProofs`**: types, `StateTellsCount`, `NoApprovalInsidePause`,
  `PauseServedOnce`, and that `RiskManager` implements `CircuitBreaker`. The
  inductive invariant adds to the types that the state's name fits the count
  and that outside "paused" the last pause is over; without the latter an
  approval in "active" could fall into a pause.
* **`ProcessingLoopProofs`**: `LoopImplementsRisk`, that every behaviour of the
  loop is one of `RiskManager` on its variables, which carries its theorems
  over; `NoTradeInsidePause`, for which the invariant adds that an opportunity
  being executed was approved at a time no earlier than the end of the last
  pause; `BreakerConfigLive`; `EventsFollowTrades`, for which the invariant adds
  that between a trade and its event there is a trade; `OneTradePerExecuted`,
  for which the invariant adds that an identifier is given to one opportunity
  and is unknown to the store until that one has been decided on; and
  `BreakerCannotTrip`,
  under the extra assumption that no threshold exceeds a minimum, as in the
  shipped defaults. The last is the reason behind `loop_losses`: the fix is not
  a matter of tuning.
* **`ExecutorProofs`**: types, which include that no balance is negative;
  `DecidedOnFreshQuotes`; and that `Executor` implements `AtomicTrade`. The
  inductive invariant adds that during the sell leg the buy exchange still
  holds the BTC just bought, so that the reversing `Debit`, whose error is
  ignored, cannot fail. The lemma `ExchangedBack` says that paying back restores
  a wallet exactly. `LedgerReconciles` is inductive as it stands, once each
  conversion is known to move the totals of both currencies by what it paid and
  got (`ExchangedTotals`), which takes sums over any finite set of exchanges.
  The module instantiates `DepthWalkProofs` over any book: `WalksFill` is the
  step from that module to this one, that what `depth.Walk` returns is among
  the `WalkedFills` that `Execute` may get.
* **`DepthWalkProofs`**: types, `ReturnsFill` (what `Executor` assumes of a
  walk), and that a walk short of its target has used up the book. The
  inductive invariant bounds the running cost by the running fill, level by
  level. For `PartialMeansThin` and `BestPrice` it is `Taken`, checked by TLC
  first: some amounts, one per level, add up to what is filled and to what it
  cost, all of each level passed was taken and nothing of those ahead. Any other
  way to take that volume moves some of it from an earlier level to a later one,
  which is not cheaper in a book that is sorted; `BestPriceHolds` has that as
  its hypothesis for books received from an exchange (`RealBooksBestFirst`),
  since the code never checks it, and proves it for those it makes up. The sums
  rest on a small library (`SumDef`, `SumSplit`, `SumMonotone`, `Rearranged`,
  ...) on the community modules' `SumFunctionOnSet`, for any finite set; its
  inductions over sets argue by a smallest counterexample (`SmallestSet`).
* **`FeedProofs`**: `SnapshotCoversUpdate`, `NeverOlder` and `ClashOnlyAtTwo`.
  The invariant is a chain along an exchange's quotes: what the loop received,
  what waits in `out`, what a drain holds, the latest price, what waits in the
  channel and what was sent never decrease, and each queue is increasing. For
  the clash it is that a goroutine writes only where its protocol has it write.
  Types, with the capacities of all channels.
* **`HubProofs`**: `NeverClosedTwice`. The invariant follows a client from its
  connection through `register` to the hub's set: one that waits in `register`
  waits there once and is neither in the set nor closed already. Types, with
  the capacities of all channels; and `TradesComplete`, for which the invariant
  adds that a client the hub has not met has been sent nothing, so that its
  first trade is the first aired since it joined.
* **`BacktestProofs`**: `StatusTellsTruth`. The invariant adds to it that the
  lock and a status that is not idle name a request, and that a run which has
  replayed no frame yet starts from zero. `LedgerAfterRestart`, with the
  identifiers saved so far all different; it holds of any part of the table that
  a start reads back, and completeness where all rows were read.
  `WindowReplayed`, for which the invariant follows a run from request to record
  (`RunInv`): from its query on its frames are those of its window, each once
  and in order of time, no trade is later than the last frame replayed, and a
  result exists only when all are. Types, with what they need of the three parts
  together.
* **`BacktestProofs`**, the metrics: `MetricsMatch`, for which the invariant
  (`ResultsInv`, checked by TLC first) adds that a result, waiting or stored, is
  what `ComputeMetrics` makes of the request's own trades and window, and that
  `RunInv` lets neither change any more. The rest is a theorem about
  `ComputeMetrics` alone, for any list of trades (`ComputesTextbook`). `Tells`
  relates the profits collected for a strategy to the places in the replay where
  they were made; it holds of none (`TellsNone`) and one more trade keeps it
  (`TellsLater`), so it holds of all (`TellsAll`). Its parts: the pass of
  `maxDrawdown` knows the end of the equity curve, its highest point and its
  deepest fall (`OnCurve`), because each fall to a new point starts no higher
  than the peak; gains and losses add up to the total; and the squared
  differences of all pairs of profits are the sample size times the sum of
  squares less the square of the sum (`SpreadGrows`), which the deviations from
  the mean are too, times the sample size (`DeviationsOf`). `ByTheBook` reads
  the definitions off. A pass is a recursive function, about which a module may
  prove: `StepsExist` and `StepsKeep` are induction along it, and `NoSmallest`
  is induction over a finite set by a smallest counterexample.
* **`EngineProofs`**, about the heap and the strategies that fill it:
  `IndexIsPosition`, and that the heap implements the `OpportunityQueue` the
  loop is modelled with (`HeapImplementsQueue`). The inductive invariant
  (`HeapInv`) is the heap order, that indices are positions, and that no two
  items hold the same opportunity, without which one handed out could still be
  in the heap. The work is in the sifts. `Rising` and `Sinking` say what holds
  from pass to pass: only the item being sifted is out of place, and its
  children would fit below its parent. `RepeatEnds` says that a repeated pass
  with a measure that falls has come to rest, where the two amount to the heap
  order; all the while the heap holds what it held (`Rearranged`).
  `EmissionsSpaced`: the invariant is that every emission of a pair, or of a
  market, has an entry in the map of last emissions and is not later than it, so
  that the cooldown the code counts from that map spaces all of them.
* **`EngineProofs`**, the estimators: `SpreadTellsWindow` and
  `VolumeTellsTrades`, under `ExactDivisions` (the model states no more than
  that: `Strategies` assumes it, and rounding is not modelled). The invariant
  of a model (`Remembers`) relates it to the spreads of its pair: the ring holds
  the last of them in order from its oldest slot on (`Ring`), and mean and
  squared deviations are those of that window, times its size (`Held`). Welford's
  step forwards (`MomentsAdded`), which also serves Kelly, and backwards
  (`MomentsEvicted`) are identities between such totals; that each of their
  divisions is exact follows from the divisibility of the sums over the window
  (`DivisibleTotals`, `DivExact`). For the volume the invariant adds the same of
  the returns of each pair and of the ring of trades (`EstimatesInv`), and that
  spatial detects only after the copy of its configuration (`PlanInv`); fractions
  are equal up to a common factor (`Proportional`), and the penalty counts the
  ring's entries, which a bijection takes to the last trades (`SameCount`).

Only model-checked: `PauseEnds`, `AcceptedIsStored`, `GoneClientsLeave`,
`PricesConverge`, `AcceptedRunIsStored` and `LoopNotHeld`, because the prover
does not handle liveness under fairness. Every invariant and every action
property of the passing runs is a theorem.

## Not modelled

* Uptime and latency metrics, whose counters and percentiles nothing depends on;
  configuration loading, which only provides the constants.
* Parsing of exchange messages, JSON, rendering, SQL: the format, not the flow.
* Rounding: decimals, floats and what goes from one to the other, with the one
  effect on the Sharpe ratio described above.
* Scores and z-scores, and the statistics that feed only them.
* Handlers that read and format; the data race on the `Fees` map of `liveCfg`
  (`main.go:262`); the browser's own store beyond what the socket puts there.

## Plan

Done: all components that keep state under concurrency, each with a run and
theorems. What would add most now:

1. The disagreements that are only listed above, as runs of their own.
2. Two strategies in `backtest` and two clients in `push`: the proofs have any
   number of both, but liveness is only checked with one.
