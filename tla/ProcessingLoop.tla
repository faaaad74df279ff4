--------------------------- MODULE ProcessingLoop ---------------------------
(***************************************************************************)
(* cmd/server/main.go: runProcessingLoop, the goroutine that owns the      *)
(* engine's queue and asks the risk manager, the executors and the hub;    *)
(* and patchConfigFn, which HTTP handlers run in goroutines of their own.  *)
(* The loop calls RiskManager (by INSTANCE, on the same variables) and     *)
(* takes the queue at its word (OpportunityQueue, which Engine             *)
(* implements).  What Execute does to wallets is Executor's subject: here  *)
(* it fails or yields a trade with some realised net percentage.           *)
(*                                                                         *)
(* One pass through the execution branch takes several steps, one for each *)
(* call that locks shared state: between them a PATCH may change the       *)
(* thresholds, field by field, and time passes.                            *)
(***************************************************************************)
EXTENDS Integers, Sequences, FiniteSets, SequencesExt

CONSTANTS
    Kinds,            \* what strategies detect: records [strategy, score, netPct, position]
    RealisedPcts,     \* realised net percentages of spatial trades
    Mins,             \* values of MinNetProfitPct
    Thresholds,       \* values of LossThreshold
    LossNs,           \* values of ConsecutiveLossN
    Intervals,        \* values of the execution interval
    MaxPositions,     \* values of MaxPositionUSDT
    Patches,          \* bodies of PATCH /api/config, as sequences of assignments
    MaxPositionUSDT,  \* cfg.MaxPositionUSDT, where the risk manager's cap comes from
    PauseDuration,
    TTL,
    MaxOpps,          \* bound: opportunities detected in all
    MaxPatches,       \* bound: PATCH requests in all
    Horizon,          \* bound on the clock, as in RiskManager
    Nothing

Fields == {"minNetProfitPct", "maxPositionUSDT", "executionInterval",
           "circuitBreakerN", "circuitBreakerLossPct"}

FieldValues ==
    [minNetProfitPct |-> Mins, maxPositionUSDT |-> MaxPositions,
     executionInterval |-> Intervals, circuitBreakerN |-> LossNs,
     circuitBreakerLossPct |-> Thresholds]

Assignments ==
    {a \in [field : Fields, value : Int] : a.value \in FieldValues[a.field]}

Kind == [strategy : {"spatial", "funding", "triangular"}, score : Int,
         netPct : Int, position : Int]

ASSUME LoopConstants ==
    /\ Kinds \subseteq Kind
    /\ RealisedPcts \subseteq Int
    /\ Mins \subseteq Int /\ Mins # {}
    /\ Thresholds \subseteq Int /\ Thresholds # {}
    /\ LossNs \subseteq Int /\ LossNs # {}
    /\ Intervals \subseteq Int
    /\ MaxPositions \subseteq Int
    /\ MaxPositionUSDT \in MaxPositions
    /\ Patches \subseteq Seq(Assignments)
    /\ PauseDuration \in Nat /\ TTL \in Nat /\ Horizon \in Nat
    /\ MaxOpps \in Nat /\ MaxPatches \in Nat

VARIABLES
    \* risk.RiskManager
    state, lossCount, pauseUntil, minNetProfitPct, lossThreshold,
    consecutiveLossN, now, approved,
    \* engine.Engine
    pending,     \* the opportunities in the heap
    detected,    \* number of opportunities detected so far
    \* runProcessingLoop
    pc,          \* where the loop is in its execution branch
    opp,         \* the opportunity in hand
    interval,    \* the period of the execution ticker
    intervalCh,  \* chan time.Duration with a buffer of one
    \* patchConfigFn
    liveCfg,     \* the configuration GET and PATCH /api/config report
    patch,       \* what is left to apply of the PATCH that holds cfgMu
    patches,     \* number of PATCH requests so far
    \* store.Store
    status,      \* the statuses saved, by opportunity ID
    trades,      \* the trades saved
    \* events published to the hub
    tradeEvents, \* trades of the trade_executed events
    oppEvents,   \* IDs of the opportunity events
    breakerEvent \* state in the last circuit_breaker event

risk == <<state, lossCount, pauseUntil, minNetProfitPct, lossThreshold,
          consecutiveLossN, now, approved>>
engine == <<pending, detected>>
config == <<liveCfg, patch, patches>>
ticker == <<interval, intervalCh>>
store == <<status, trades>>
events == <<tradeEvents, oppEvents, breakerEvent>>
vars == <<risk, engine, pc, opp, ticker, config, store, events>>

NetPcts == {k.netPct : k \in Kinds} \cup Mins \cup Thresholds
Positions == {k.position : k \in Kinds}

Risk == INSTANCE RiskManager
Queue == INSTANCE OpportunityQueue WITH handed <- opp

Init ==
    /\ Risk!Init
    /\ minNetProfitPct \in Mins
    /\ lossThreshold \in Thresholds
    /\ pending = {}
    /\ detected = 0
    /\ pc = "select"
    /\ opp = Nothing
    /\ interval \in Intervals
    /\ intervalCh = <<>>
    \* The risk manager's minimum is the spatial base, not the one reported.
    /\ \E min \in Mins :
         liveCfg = [minNetProfitPct |-> min,
                    maxPositionUSDT |-> MaxPositionUSDT,
                    executionInterval |-> interval,
                    circuitBreakerN |-> consecutiveLossN,
                    circuitBreakerLossPct |-> lossThreshold]
    /\ patch = <<>>
    /\ patches = 0
    /\ status = <<>>
    /\ trades = <<>>
    /\ tradeEvents = <<>>
    /\ oppEvents = {}
    /\ breakerEvent = "active"   \* what a client assumes before any event

-----------------------------------------------------------------------------
(* The branches of the loop's select. *)

ApplyInterval ==
    /\ pc = "select"
    /\ intervalCh # <<>>
    /\ interval' = Head(intervalCh)
    /\ intervalCh' = Tail(intervalCh)
    /\ UNCHANGED <<risk, engine, pc, opp, config, store, events>>

\* ProcessUpdate finds an opportunity and pushes it.  The spatial strategy
\* sizes positions under the patched cap.
ProcessUpdate(kind) ==
    /\ pc = "select"
    /\ detected < MaxOpps
    /\ kind.strategy = "spatial" => kind.position <= liveCfg.maxPositionUSDT
    /\ detected' = detected + 1
    /\ pending' = pending \cup
         {[id |-> detected + 1, kind |-> kind, score |-> kind.score, detectedAt |-> now]}
    /\ UNCHANGED <<risk, pc, opp, ticker, config, store, events>>

TickFindsNothing ==
    /\ pc = "select"
    /\ Queue!FindNothing
    /\ UNCHANGED <<risk, detected, pc, ticker, config, store, events>>

DequeueTopKeeps ==
    /\ pc = "select"
    /\ now <= Horizon
    /\ pending' = pending
    /\ \E best \in Queue!Fresh :
         /\ \A other \in Queue!Fresh : other.score <= best.score
         /\ opp' = best
    /\ pc' = "evaluate"
    /\ UNCHANGED <<risk, detected, ticker, config, store, events>>

DequeueTop ==
    /\ pc = "select"
    /\ now <= Horizon
    /\ pending' \in SUBSET pending
    /\ \E best \in Queue!Fresh : Queue!HandOut(best)
    /\ pc' = "evaluate"
    /\ UNCHANGED <<risk, detected, ticker, config, store, events>>

-----------------------------------------------------------------------------
(* The execution branch, one step for each call on shared state. *)

Save(id, s) == status' = [i \in DOMAIN status \cup {id} |-> IF i = id THEN s ELSE status[i]]

BackToSelect ==
    /\ pc' = "select"
    /\ opp' = Nothing

EvaluateIgnored ==
    /\ pc' = "execute"
    /\ UNCHANGED status

EvaluateApproves ==
    /\ Risk!Approves(opp.kind.netPct, opp.kind.position)
    /\ pc' = "execute"
    /\ UNCHANGED status

EvaluateRefuses ==
    /\ ~Risk!Approves(opp.kind.netPct, opp.kind.position)
    /\ Save(opp.id, "skipped")
    /\ pc' = "refused"

Evaluate ==
    /\ pc = "evaluate"
    /\ Risk!Evaluate(opp.kind.netPct, opp.kind.position)
    /\ EvaluateApproves \/ EvaluateRefuses
    /\ UNCHANGED <<engine, opp, ticker, config, trades, events>>

\* if rm.State() == risk.StatePaused: the first of two calls of State.
AskWhetherPaused ==
    /\ pc = "refused"
    /\ Risk!State
    /\ IF Risk!CheckedState = "paused"
       THEN pc' = "announce" /\ UNCHANGED opp
       ELSE BackToSelect
    /\ UNCHANGED <<engine, ticker, config, store, events>>

\* publishCircuitBreaker: the second call of State, by now perhaps active.
PublishCircuitBreaker ==
    /\ pc = "announce"
    /\ Risk!State
    /\ breakerEvent' = Risk!CheckedState
    /\ BackToSelect
    /\ UNCHANGED <<engine, ticker, config, store, tradeEvents, oppEvents>>

\* A funding or triangular trade books its estimate; a spatial one what the
\* walk of the books gave (Executor).
Realised == IF opp.kind.strategy = "spatial" THEN RealisedPcts ELSE {opp.kind.netPct}

Execute ==
    /\ pc = "execute"
    /\ \E net \in Realised : trades' = Append(trades, [id |-> opp.id, net |-> net])
    /\ Save(opp.id, "executed")
    /\ pc' = "record"
    /\ UNCHANGED <<risk, engine, opp, ticker, config, events>>

ExecuteFailsUnheeded ==
    /\ pc = "execute"
    /\ opp.kind.strategy = "spatial"
    /\ \E s \in {"expired", "skipped"} : Save(opp.id, s)
    /\ pc' = "record"
    /\ UNCHANGED <<risk, engine, opp, ticker, config, trades, events>>

ExecuteFails ==
    /\ pc = "execute"
    /\ opp.kind.strategy = "spatial"
    /\ \E s \in {"expired", "skipped"} : Save(opp.id, s)
    /\ BackToSelect
    /\ UNCHANGED <<risk, engine, ticker, config, trades, events>>

\* The breaker is told the estimate made at detection, opp.NetProfitPct.
RecordTradeResult ==
    /\ pc = "record"
    /\ Risk!RecordTradeResult(opp.kind.netPct)
    /\ pc' = "publish"
    /\ UNCHANGED <<engine, opp, ticker, config, store, events>>

\* publishTradeExecuted of the last of AllTrades, then publishOpportunity.
Publish ==
    /\ pc = "publish"
    /\ tradeEvents' = IF trades = <<>> THEN tradeEvents
                      ELSE Append(tradeEvents, Last(trades))
    /\ oppEvents' = oppEvents \cup {opp.id}
    /\ BackToSelect
    /\ UNCHANGED <<risk, engine, ticker, config, store, breakerEvent>>

-----------------------------------------------------------------------------
(* HTTP handlers and the clock. *)

\* patchConfigFn takes cfgMu.
BeginPatch(body) ==
    /\ patch = <<>>
    /\ patches < MaxPatches
    /\ patch' = body
    /\ patches' = patches + 1
    /\ UNCHANGED <<risk, engine, pc, opp, ticker, liveCfg, store, events>>

\* The send into intervalCh has a default branch: it is dropped when the
\* buffer holds a value the loop has not taken yet.
SendInterval(v) == intervalCh' = IF intervalCh = <<>> THEN <<v>> ELSE intervalCh

RouteFieldNotToRisk(field, v) ==
    /\ IF field = "executionInterval" THEN SendInterval(v) ELSE UNCHANGED intervalCh
    /\ IF field = "minNetProfitPct" THEN Risk!SetMinNetProfitPct(v) ELSE UNCHANGED risk

\* The setter each field of the patch is routed to.  maxPositionUSDT goes to
\* the spatial strategy alone.
RouteField(field, v) ==
    /\ IF field = "executionInterval" THEN SendInterval(v) ELSE UNCHANGED intervalCh
    /\ CASE field = "minNetProfitPct"       -> Risk!SetMinNetProfitPct(v)
         [] field = "circuitBreakerN"       -> Risk!SetConsecutiveLossN(v)
         [] field = "circuitBreakerLossPct" -> Risk!SetLossThreshold(v)
         [] OTHER                           -> UNCHANGED risk

ApplyPatchField ==
    /\ patch # <<>>
    /\ LET a == Head(patch) IN
         /\ liveCfg' = [liveCfg EXCEPT ![a.field] = a.value]
         /\ RouteField(a.field, a.value)
    /\ patch' = Tail(patch)
    /\ UNCHANGED <<engine, pc, opp, interval, patches, store, events>>

\* GET /api/status asks the risk manager for its state.
GetStatus ==
    /\ Risk!State
    /\ UNCHANGED <<engine, pc, opp, ticker, config, store, events>>

Clock ==
    /\ Risk!Tick
    /\ UNCHANGED <<engine, pc, opp, ticker, config, store, events>>

Loop ==
    \/ ApplyInterval
    \/ \E kind \in Kinds : ProcessUpdate(kind)
    \/ TickFindsNothing
    \/ DequeueTop
    \/ Evaluate
    \/ AskWhetherPaused
    \/ PublishCircuitBreaker
    \/ Execute
    \/ ExecuteFails
    \/ RecordTradeResult
    \/ Publish

Next ==
    \/ Loop
    \/ \E body \in Patches : BeginPatch(body)
    \/ ApplyPatchField
    \/ GetStatus
    \/ Clock

Spec == Init /\ [][Next]_vars

-----------------------------------------------------------------------------
\* No trade is booked while a pause runs: between the approval and the trade
\* other goroutines patch thresholds and ask for the state, and none of it
\* lets a trade slip into a pause.
NoTradeInsidePause == [][trades' # trades => now >= pauseUntil]_vars

\* An opportunity marked executed has exactly one trade, any other status
\* none: the queue hands an opportunity out once, and a failed execution
\* leaves nothing behind.
OneTradePerExecuted ==
    \A id \in DOMAIN status :
        Cardinality({i \in DOMAIN trades : trades[i].id = id})
          = IF status[id] = "executed" THEN 1 ELSE 0

\* The trade_executed events are the trades, in order, one behind at most:
\* "the last of AllTrades" is the trade just made, and a failed execution
\* does not broadcast an older trade again (main.go:601-626).
EventsFollowTrades ==
    tradeEvents = IF pc \in {"record", "publish"} THEN Front(trades) ELSE trades

\* With no PATCH under way, the breaker works with the limit and the
\* threshold the API reports, whatever patches and trades were interleaved.
BreakerConfigLive ==
    patch = <<>> =>
        /\ liveCfg.circuitBreakerN = consecutiveLossN
        /\ liveCfg.circuitBreakerLossPct = lossThreshold

\* With every loss threshold at or below every minimum profit (the shipped
\* defaults are -0.005 and 0.0) no result ever counts as a loss.
BreakerNeverTrips == state = "active" /\ lossCount = 0

-----------------------------------------------------------------------------
(* What the documents say of the loop, and the code does otherwise. *)

\* The result recorded is the realised one (risk.go:105), so losing trades in
\* a row trip the breaker (dashboard.md:254).
LossesTripBreaker ==
    LET n == consecutiveLossN
        lastTrades == {i \in DOMAIN trades : i > Len(trades) - n}
    IN pc = "select" /\ patches = 0 /\ n > 0 /\ Len(trades) >= n
         /\ (\A i \in lastTrades : trades[i].net < lossThreshold)
       => pauseUntil > 0

=============================================================================
