------------------------------ MODULE Strategies ------------------------------
(***************************************************************************)
(* Engine.ProcessUpdate with the three strategies: an update of one        *)
(* exchange, the snapshot of all and the time are handed to one strategy   *)
(* after another, in the processing loop; meanwhile HTTP goroutines set    *)
(* the configuration and the funding goroutine polls.                      *)
(***************************************************************************)
EXTENDS SpatialStrategy, Cooldowns

CONSTANTS
    Quotes,      \* bound: quotes of an exchange, [bid, ask]
    Returns,     \* bound: returns of trades
    EnabledSets, \* bound: the strategies whose steps a behaviour takes
    MaxNow,      \* bound: the clock
    MaxUpdates,  \* bound: updates
    MaxTrades    \* bound: trades

\* Every division of the estimators is exact, as the code's are but for
\* rounding: a sample is divisible by all numbers of samples it may be averaged
\* over.  Given any prices, some Scale makes it so.
Divisible(x, n) == \A k \in 1 .. n : x % k = 0

ExactDivisions ==
    /\ Quotes \subseteq [bid : Nat \ {0}, ask : Nat \ {0}]
    /\ \A q, r \in Quotes : Divisible(((r.bid - q.ask) * Scale) \div q.ask, WindowSize)
    /\ Returns \subseteq Int
    /\ \A x \in Returns : Divisible(x, MaxTrades)

ASSUME StrategiesConstants ==
    /\ ExactDivisions
    /\ EnabledSets \subseteq SUBSET {"spatial", "triangular", "funding"}
    /\ MaxNow \in Nat /\ MaxUpdates \in Nat /\ MaxTrades \in Nat

VARIABLES
    now,      \* types.RealClock
    quotes,   \* the aggregator's latest prices, [bid, ask, at]
    todo,     \* the strategies that have not seen the update in hand
    updates,  \* number of updates
    queued,   \* the pairs of spatial opportunities handed to the queue
    enabled

engineVars == <<now, quotes, todo, updates, queued, enabled>>
vars == <<engineVars, spatialVars, fundingVars, triangularVars>>

Init ==
    /\ SpatialInit /\ FundingInit /\ TriangularInit
    /\ now = 0
    /\ quotes = [e \in Exchanges |-> Unknown]
    /\ call = Unknown
    /\ todo = <<>>
    /\ updates = 0
    /\ queued = {}
    /\ enabled \in EnabledSets

Tick ==
    /\ now < MaxNow
    /\ now' = now + 1
    /\ UNCHANGED <<quotes, todo, updates, queued, enabled, spatialVars, fundingVars,
                   triangularVars>>

\* The steps of a strategy.  Spatial copies its configuration before it does
\* anything else.
StepsOf(s) ==
    IF s \notin enabled THEN <<>> ELSE IF s = "spatial" THEN <<"copy", s>> ELSE <<s>>

\* ProcessUpdate up to its loop over the strategies.
ProcessUpdate(e, q) ==
    /\ todo = <<>>
    /\ updates < MaxUpdates
    /\ updates' = updates + 1
    /\ quotes' = [quotes EXCEPT ![e] = [bid |-> q.bid, ask |-> q.ask, at |-> now]]
    /\ call' = [exchange |-> e, snapshot |-> quotes', now |-> now, cfg |-> Unknown]
    /\ todo' = StepsOf("spatial") \o StepsOf("triangular") \o StepsOf("funding")
    /\ UNCHANGED <<now, queued, enabled, cfg, estimates, opps, sets, history, fundingVars,
                   triangularVars>>

Next1(step) == todo # <<>> /\ Head(todo) = step /\ todo' = Tail(todo)

DetectStep ==
    /\ \/ /\ Next1("copy")
          /\ CopyConfig
          /\ UNCHANGED <<queued, fundingVars, triangularVars>>
       \/ /\ Next1("spatial")
          /\ Detect
          /\ queued' = queued \cup {o.pair : o \in opps'}
          /\ UNCHANGED <<call, fundingVars, triangularVars>>
       \/ /\ Next1("triangular")
          /\ CycleDetect(call.exchange, call.snapshot[call.exchange], call.now)
          /\ UNCHANGED <<queued, spatialVars, fundingVars>>
       \/ /\ Next1("funding")
          /\ FundingDetect(call.now)
          /\ UNCHANGED <<queued, spatialVars, triangularVars>>
    /\ UNCHANGED <<now, quotes, updates, enabled>>

\* The loop's ticker: an opportunity of some pair is executed, at whatever
\* the prices are by then.
Trade ==
    /\ todo = <<>>
    /\ Len(traded) < MaxTrades
    /\ \E p \in queued, netPct \in Returns : RecordTradeReturn(p, netPct)
    /\ UNCHANGED <<engineVars, fundingVars, triangularVars>>

Setter ==
    /\ "spatial" \in enabled
    /\ Set
    /\ UNCHANGED <<engineVars, fundingVars, triangularVars>>

Polling ==
    /\ "funding" \in enabled
    /\ Poll
    /\ UNCHANGED <<engineVars, spatialVars, triangularVars>>

Next ==
    \/ Tick
    \/ \E e \in Exchanges, q \in Quotes : ProcessUpdate(e, q)
    \/ DetectStep
    \/ Trade
    \/ Setter
    \/ Polling

Spec == Init /\ [][Next]_vars

-----------------------------------------------------------------------------
\* Once a pair has enough samples, no trade of it takes more than the capped
\* fraction of the position limit: "fraction := kellyEstimator[pair].Fraction()
\* // 0..KellyMaxFraction", "Cuando hay >= KellyMinSamples (default 10), devuelve
\* la fraccion Kelly clasica [...] capeada" (docs/estrategias.md:85-89).
WarmPairsCapped ==
    \A p \in Pairs : Len(returns[p]) >= KellyMinSamples =>
        KellyFraction(p)[1] * KellyCap[2] <= KellyCap[1] * KellyFraction(p)[2]
=============================================================================
