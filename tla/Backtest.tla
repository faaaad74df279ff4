------------------------------ MODULE Backtest ------------------------------
(***************************************************************************)
(* internal/backtest/runner.go and server/backtest_handlers.go with the    *)
(* recorder and the store they share with the live loop: requests for a    *)
(* replay, of which one at a time runs in a goroutine of its own, another  *)
(* goroutine that stores its result, the loop that goes on recording and   *)
(* trading, and restarts of the process.                                   *)
(*                                                                         *)
(* What strategies see in a frame is left open: a frame books no trade, or *)
(* one with any strategy and any profit.                                   *)
(***************************************************************************)
EXTENDS Recorder, Store, Metrics

CONSTANTS
    Requests,     \* bound: POST /api/backtest/start requests
    Strategies,
    TradeProfits, \* bound: profits of replayed trades
    MaxRestarts,  \* bound: restarts of the process
    Earlier,      \* bound: the frames an earlier life may have left
    Together,     \* bound: which requests, whether the "loop" takes updates, and whether
                  \* there is "trading" and a shutdown, in one behaviour
    EmptyID       \* the RunID of a zero RunResult

ASSUME BacktestConstants ==
    /\ TradeProfits \subseteq Int
    /\ MaxRestarts \in Nat
    /\ \A left \in Earlier :
         left \subseteq Frame /\ IsFiniteSet(left) /\ Cardinality(left) <= MaxFrames
    /\ Together \subseteq SUBSET (Requests \cup {"loop", "trading"})
    /\ Nothing \notin Requests /\ EmptyID \notin Requests

VARIABLES
    mu,         \* the request whose run holds Runner.mu
    status,     \* Runner.status
    stage,      \* how far a request, then its goroutine, has got
    spec,       \* the window a request asks for
    replay,     \* runLocked's locals: the frames and how many are done, the trades
    resultCh,   \* the channel of a request, of capacity 1
    persister,  \* the goroutine that stores the result
    recorded,   \* the frames there were when the run queried them
    restarts,
    together    \* the element of Together this behaviour is about

runner == <<mu, status, stage, replay>>
btVars == <<runner, spec, resultCh, persister, recorded, restarts, together>>
vars == <<btVars, recorderVars, storeVars>>

Stages == {"new", "building", "starting", "refused", "frames", "rates", "replay",
           "finished", "failed", "clearing", "unlocking", "over", "killed"}
Working == {"frames", "rates", "replay"}        \* in runLocked
Locked == Working \cup {"finished", "failed", "clearing", "unlocking"}

Idle == [state |-> "idle", run |-> EmptyID, progress |-> 0]
RunningAhead(r, done) == [state |-> "running", run |-> r, progress |-> done + 1]
Running(r, done) == [state |-> "running", run |-> r, progress |-> done]
Empty == [frames |-> <<>>, done |-> 0, trades |-> <<>>]
ZeroResult == [id |-> EmptyID, metrics |-> <<>>]

Init ==
    /\ frames \in Earlier /\ RecorderInit /\ StoreInit
    /\ mu = Nothing
    /\ status = Idle
    /\ stage = [r \in Requests |-> "new"]
    /\ spec = [r \in Requests |-> [from |-> 0, to |-> 0]]
    /\ replay = [r \in Requests |-> Empty]
    /\ resultCh = [r \in Requests |-> Nothing]
    /\ persister = [r \in Requests |-> "none"]
    /\ recorded = [r \in Requests |-> {}]
    /\ restarts = 0
    /\ together \in Together

GoTo(r, s) == stage' = [stage EXCEPT ![r] = s]

-----------------------------------------------------------------------------
(* handleBacktestStart up to StartAsync.  The factory builder queries the  *)
(* recorder before anything is locked, if funding is among the strategies. *)

Submit(r) ==
    /\ stage[r] = "new" /\ r \in together
    /\ \E from, to \in Times, s \in {"building", "starting"} :
         /\ from < to
         /\ spec' = [spec EXCEPT ![r] = [from |-> from, to |-> to]]
         /\ GoTo(r, s)
    /\ UNCHANGED <<mu, status, replay, resultCh, persister, recorded, restarts, together,
                   recorderVars, storeVars>>

\* TryLock.
StartAsyncUnguarded(r) ==
    /\ mu' = r
    /\ status' = Running(r, 0)
    /\ GoTo(r, "frames")

StartAsync(r) ==
    \/ /\ mu = Nothing
       /\ mu' = r
       /\ status' = Running(r, 0)
       /\ GoTo(r, "frames")
    \/ /\ mu # Nothing
       /\ GoTo(r, "refused")
       /\ UNCHANGED <<mu, status>>

Start(r) ==
    /\ stage[r] = "starting"
    /\ StartAsync(r)
    /\ UNCHANGED <<replay, spec, resultCh, persister, recorded, restarts, together,
                   recorderVars, storeVars>>

-----------------------------------------------------------------------------
(* The queries of a request and its run. *)

Querying(r) == stage[r] \in {"building", "frames", "rates"}

Query(r) ==
    /\ Querying(r)
    /\ Connect(r)
    /\ UNCHANGED <<btVars, storeVars>>

\* Errors of the builder's query are ignored, those of the run end it.
Answer(r) ==
    /\ Querying(r)
    /\ \E failed \in BOOLEAN :
         /\ Release(r, failed)
         /\ \/ /\ stage[r] = "building"
               /\ GoTo(r, "starting")
               /\ UNCHANGED <<replay, recorded>>
            \/ /\ stage[r] = "frames" /\ ~failed
               /\ \E s \in QueryFrames(spec[r].from, spec[r].to) :
                    replay' = [replay EXCEPT ![r].frames = s]
               /\ recorded' = [recorded EXCEPT ![r] = frames]
               /\ GoTo(r, "rates")
            \/ /\ stage[r] = "rates" /\ ~failed
               /\ GoTo(r, "replay")
               /\ UNCHANGED <<replay, recorded>>
            \/ /\ stage[r] # "building" /\ failed
               /\ GoTo(r, "failed")
               /\ UNCHANGED <<replay, recorded>>
    /\ UNCHANGED <<mu, status, spec, resultCh, persister, restarts, together, storeVars>>

-----------------------------------------------------------------------------
(* The rest of runLocked, and of the goroutine around it. *)

\* What the engine may find in a frame of that time.
TradesAt(ts) ==
    {<<>>} \cup {<<[strategy |-> s, profit |-> p, at |-> ts]>> : s \in Strategies, p \in TradeProfits}

\* One frame: the clock and the snapshot move on, the engine looks, what it
\* finds is executed at once, the progress is published.
ReplayFrame(r) ==
    /\ stage[r] = "replay"
    /\ replay[r].done < Len(replay[r].frames)
    /\ \E found \in TradesAt(replay[r].frames[replay[r].done + 1].ts) :
         replay' = [replay EXCEPT ![r] =
                      [frames |-> replay[r].frames, done |-> replay[r].done + 1,
                       trades |-> replay[r].trades \o found]]
    /\ status' = Running(r, replay[r].done + 1)
    /\ UNCHANGED <<mu, stage, spec, resultCh, persister, recorded, restarts, together,
                   recorderVars, storeVars>>

Finish(r) ==
    /\ stage[r] = "replay"
    /\ replay[r].done = Len(replay[r].frames)
    /\ status' = [state |-> "done", run |-> r, progress |-> replay[r].done]
    /\ GoTo(r, "finished")
    /\ UNCHANGED <<mu, replay, spec, resultCh, persister, recorded, restarts, together,
                   recorderVars, storeVars>>

Result(r) ==
    IF stage[r] = "failed" THEN ZeroResult
    ELSE [id |-> r, metrics |-> ComputeMetrics(replay[r].trades, spec[r].from, spec[r].to)]

\* A send with a default branch on the channel of capacity 1; unbuffered, it
\* would need the receiver to be there.
SentUnbuffered(r) == IF persister[r] = "waiting" THEN Result(r) ELSE Nothing
Sent(r) == IF resultCh[r] = Nothing THEN Result(r) ELSE resultCh[r]

SendResult(r) ==
    /\ stage[r] \in {"finished", "failed"}
    /\ resultCh' = [resultCh EXCEPT ![r] = Sent(r)]
    /\ GoTo(r, IF stage[r] = "failed" THEN "clearing" ELSE "unlocking")
    /\ UNCHANGED <<mu, status, replay, spec, persister, recorded, restarts, together,
                   recorderVars, storeVars>>

GoIdle(r) ==
    /\ stage[r] = "clearing"
    /\ status' = Idle
    /\ GoTo(r, "unlocking")
    /\ UNCHANGED <<mu, replay, spec, resultCh, persister, recorded, restarts, together,
                   recorderVars, storeVars>>

Unlock(r) ==
    /\ stage[r] = "unlocking"
    /\ mu' = Nothing
    /\ GoTo(r, "over")
    /\ UNCHANGED <<status, replay, spec, resultCh, persister, recorded, restarts, together,
                   recorderVars, storeVars>>

-----------------------------------------------------------------------------
(* The goroutine that stores the result. *)

SpawnPersister(r) ==
    /\ stage[r] \in Locked \cup {"over"}
    /\ persister[r] = "none"
    /\ persister' = [persister EXCEPT ![r] = "waiting"]
    /\ UNCHANGED <<runner, spec, resultCh, recorded, restarts, together, recorderVars, storeVars>>

\* Stored as "done", whatever the result; an error of the insert is dropped:
\* only the model knows that the goroutine ended "unsaved".
Persist(r) ==
    /\ persister[r] = "waiting" /\ resultCh[r] # Nothing
    /\ resultCh' = [resultCh EXCEPT ![r] = Nothing]
    /\ \E err \in BOOLEAN :
         /\ SaveBacktestRun([id |-> resultCh[r].id, spec |-> spec[r],
                             metrics |-> resultCh[r].metrics, status |-> "done"], err)
         /\ persister' = [persister EXCEPT ![r] = IF err THEN "unsaved" ELSE "over"]
    /\ UNCHANGED <<runner, spec, recorded, restarts, together, recorderVars,
                   second, trades, table, open, loaded, unsaved>>

-----------------------------------------------------------------------------
(* The live system. *)

Live ==
    /\ "loop" \in together
    /\ TakeUpdate \/ CheckRecording \/ RecordFrame \/ \E enabled \in BOOLEAN : SetRecording(enabled)
    /\ UNCHANGED <<btVars, storeVars>>

Ledger ==
    /\ "trading" \in together
    /\ Tick \/ SaveTrade \/ Close
    /\ UNCHANGED <<btVars, recorderVars>>

\* The process dies and is started again: what was in memory is gone, and
\* with it the requests and runs under way.
Restart ==
    /\ restarts < MaxRestarts
    /\ restarts' = restarts + 1
    /\ NewStore /\ RecorderRestart
    /\ mu' = Nothing
    /\ status' = Idle
    /\ stage' = [r \in Requests |-> IF stage[r] = "new" THEN "new" ELSE "killed"]
    /\ resultCh' = [r \in Requests |-> Nothing]
    /\ persister' = [r \in Requests |-> IF stage[r] = "new" THEN "none" ELSE "over"]
    /\ UNCHANGED <<spec, replay, recorded, together>>

Goroutine(r) ==
    Answer(r) \/ ReplayFrame(r) \/ Finish(r) \/ SendResult(r) \/ GoIdle(r) \/ Unlock(r)

Persister(r) == SpawnPersister(r) \/ Persist(r)

Next ==
    \/ \E r \in Requests :
         Submit(r) \/ Start(r) \/ Query(r) \/ Goroutine(r) \/ Persister(r)
    \/ Live
    \/ Ledger
    \/ Restart

\* Goroutines are scheduled.  Whoever waits for the connection gets it in the
\* end: the requests are few, and each makes at most three queries.
Fairness ==
    /\ \A r \in Requests :
         WF_vars(Start(r)) /\ SF_vars(Query(r)) /\ WF_vars(Goroutine(r)) /\ WF_vars(Persister(r))
    /\ WF_vars(CheckRecording /\ UNCHANGED <<btVars, storeVars>>)
    /\ SF_vars(RecordFrame /\ UNCHANGED <<btVars, storeVars>>)

Spec == Init /\ [][Next]_vars
FairSpec == Spec /\ Fairness

-----------------------------------------------------------------------------
TypeOK ==
    /\ frames \subseteq Frame
    /\ conn \in Requests \cup {Nothing}
    /\ recording \in BOOLEAN
    /\ arriving \in [ts : Times, exchange : Exchanges] \cup {Nothing}
    /\ inserting \in BOOLEAN
    /\ second \in 1 .. MaxSeconds
    /\ trades \in Seq(1 .. MaxTrades)
    /\ Saved \subseteq 1 .. MaxTrades /\ \A t \in Saved : table[t] \in 1 .. second
    /\ \A rec \in runs : rec.id \in Requests \cup {EmptyID}
    /\ open \in BOOLEAN /\ loaded \in BOOLEAN /\ unsaved \subseteq 1 .. MaxTrades
    /\ mu \in Requests \cup {Nothing}
    /\ status.state \in {"idle", "running", "done"}
    /\ status.run \in Requests \cup {EmptyID}
    /\ status.progress \in 0 .. MaxFrames
    /\ stage \in [Requests -> Stages]
    /\ spec \in [Requests -> [from : 0 .. MaxTs, to : 0 .. MaxTs]]
    /\ \A r \in Requests : /\ replay[r].frames \in Seq(Frame)
                           /\ replay[r].done \in 0 .. Len(replay[r].frames)
                           /\ resultCh[r] = Nothing \/ resultCh[r].id \in {r, EmptyID}
    /\ persister \in [Requests -> {"none", "waiting", "over", "unsaved"}]
    /\ \A r \in Requests : recorded[r] \subseteq frames
    /\ restarts \in 0 .. MaxRestarts
    /\ together \in Together

\* One replay at a time, and the status tells which: while a run works the
\* status is its own, with its progress; a status of an earlier run never
\* covers it, not even when that run ends in an error just as the next one
\* starts (runner.go:79-97).
StatusTellsTruth ==
    /\ \A r \in Requests : stage[r] \in Locked <=> mu = r
    /\ \A r \in Requests : stage[r] \in Working => status = Running(r, replay[r].done)
    /\ status.state = "running" => stage[status.run] \in Working \cup {"failed", "clearing"}
    /\ status.state = "done" => stage[status.run] \in {"finished", "unlocking", "over"}

\* What a stored result is about: every frame of the window, both ends
\* included, that was recorded when the run began, and no other, replayed to
\* the last one in the order of their times, although they were inserted in
\* another and the loop went on inserting; and each trade at the time of a
\* frame (recorder.go:128-136, runner.go:171-228).
WindowReplayed ==
    \A r \in {rec.id : rec \in runs} \ {EmptyID} :
        LET run == replay[r]
            ts(i) == run.frames[i].ts
        IN /\ ToSet(run.frames) = {f \in recorded[r] : f.ts \in spec[r].from .. spec[r].to}
           /\ run.done = Len(run.frames) /\ IsInjective(run.frames)
           /\ \A i, j \in 1 .. run.done : i < j => ts(i) <= ts(j)
           /\ \A i, j \in DOMAIN run.trades : i < j => run.trades[i].at <= run.trades[j].at

\* Some trades, by their places in the replay, and what each made: the curve
\* of what they made up to each place, and the falls from an earlier point of
\* it to a later one.
Equity(profit, i) == SumFunctionOnSet(profit, {j \in DOMAIN profit : j <= i})
Pairs(places) == {p \in places \X places : p[1] < p[2]}
Falls(profit) ==
    {Equity(profit, p[1]) - Equity(profit, p[2]) : p \in Pairs({0} \cup DOMAIN profit)}
Spread(profit) ==
    SumFunction([p \in Pairs(DOMAIN profit) |->
                   (profit[p[1]] - profit[p[2]]) * (profit[p[1]] - profit[p[2]])])

Textbook(m, profit, seconds) ==
    LET n == Cardinality(DOMAIN profit)
        total == SumFunction(profit)
        winners == {i \in DOMAIN profit : profit[i] > 0}
        gains == SumFunctionOnSet(profit, winners)
        spread == Spread(profit)
    IN /\ m.TradeCount = n /\ m.TotalPnL = total
       /\ m.MaxDrawdown = Max({0} \cup Falls(profit))
       /\ m.HitRate = <<Cardinality(winners), n>>
       /\ m.ProfitFactor = IF gains = total THEN NoLosses ELSE <<gains, gains - total>>
       /\ IF spread = 0 THEN m.Sharpe.sign = 0
          ELSE /\ m.Sharpe.sign > 0 <=> total > 0
               /\ m.Sharpe.sign < 0 <=> total < 0
               /\ m.Sharpe.square = <<total * total * (n - 1) * n * SecondsPerYear,
                                      n * spread * seconds>>

\* The stored metrics are those of the run's own trades of each strategy by
\* their textbook definitions: the deepest fall of the equity curve between any
\* two of its points, the sample variance by pairwise differences, and so on
\* (metrics.go:23-151).  Two of them are the code's and not the documents':
\* returns are what trades made in USDT (metrics.go:92), not net fractions
\* (docs/backtest.md:85), and without losses the profit factor is 999
\* (metrics.go:149), not 99999 (docs/backtest.md:175).  The arithmetic is exact:
\* the code's floats agree on one or two equal trades, but from three on they
\* may leave a deviation.
MetricsMatch ==
    \A rec \in {x \in runs : x.id # EmptyID}, s \in Strategies :
        LET ts == replay[rec.id].trades
            mine == {i \in DOMAIN ts : ts[i].strategy = s}
        IN IF mine = {} THEN s \notin DOMAIN rec.metrics
           ELSE /\ s \in DOMAIN rec.metrics
                /\ Textbook(rec.metrics[s], [i \in mine |-> ts[i].profit],
                            rec.spec.to - rec.spec.from)

\* The P&L curve continues over restarts (store.go:112-177): the ledger has
\* each trade once, in the order they were saved, up to the second, those whose
\* insert failed as well, and none that nobody made, even if some rows could
\* not be read; and if all could, it has every trade whose insert succeeded in
\* any life.
LedgerAfterRestart ==
    /\ IsInjective(trades)
    /\ \A i, j \in DOMAIN trades :
         i < j /\ {trades[i], trades[j]} \subseteq Saved
           => table[trades[i]] <= table[trades[j]]
    /\ unsaved \subseteq ToSet(trades) /\ ToSet(trades) \subseteq Saved \cup unsaved
    /\ loaded => Saved \subseteq ToSet(trades)

\* An accepted run ends, and its result comes to the store under its own
\* identifier and is there, or that very insert has failed, of which nobody is
\* told (backtest_handlers.go:95).  A query that fails ends the run without a
\* result, and what is stored then is "done" with no identifier, although
\* docs/dashboard.md:473 has it listed as "failed"; the process may die, and the
\* store be closed.
AcceptedRunIsStored ==
    \A r \in Requests :
        stage[r] = "frames" ~> \/ \E rec \in runs : rec.id = r
                               \/ persister[r] = "unsaved"
                               \/ stage[r] \in {"failed", "killed"}
                               \/ ~open

\* Queries of replays and of requests, failing ones as well, do not keep the
\* one connection from the processing loop (main.go:569, recorder.go).
LoopNotHeld == arriving # Nothing ~> arriving = Nothing
=============================================================================
