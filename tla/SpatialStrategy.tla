--------------------------- MODULE SpatialStrategy ---------------------------
(***************************************************************************)
(* internal/strategy/spatial: Detect compares the ask of the exchange that *)
(* moved with the bids of all others.  It runs in the processing loop, as  *)
(* the reports of executed trades do; setters run in HTTP goroutines, and  *)
(* may fall between Detect's copy of the configuration and its use.        *)
(*                                                                         *)
(* Prices are positive integers; a fee table says what a leg costs at any  *)
(* price, and what it costs more for each unit of age, instead of rates.   *)
(* Scores are left out: Engine takes any.                                  *)
(***************************************************************************)
EXTENDS Estimators, Sequences, FiniteSetsExt

CONSTANTS
    Exchanges,
    Scale,       \* spreads are integers in units of 1 / Scale
    Coeff,       \* AdaptiveCoeff
    Weight,      \* CorrPenaltyWeight, in tenths
    Settings,    \* bound: values of the configuration that setters bring about
    MaxSets,     \* bound: calls of setters
    Unknown      \* the quote of an exchange that has sent none yet

ASSUME SpatialConstants ==
    /\ Scale \in Nat \ {0} /\ Coeff \in Nat /\ Weight \in Nat /\ MaxSets \in Nat
    /\ \A s \in Settings : /\ DOMAIN s = {"base", "position", "staleness", "fees"}
                           /\ s.base \in Int /\ s.position \in Nat /\ s.staleness \in Nat

VARIABLES
    cfg,      \* SpatialStrategy.cfg: base, position, staleness, fees
    models,   \* of each pair, a SpreadModel
    kelly,    \* of the pairs that have traded, a KellyEstimator
    recent,   \* recentTrades
    call,     \* the update in hand: [exchange, snapshot, now, cfg], cfg once copied
    opps,     \* the opportunities of the last Detect
    sets,     \* number of calls of setters
    \* What happened, for the properties: by pair, or in order.
    spreads, returns, traded

estimates == <<models, kelly, recent>>
history == <<spreads, returns, traded>>
spatialVars == <<cfg, estimates, call, opps, sets, history>>

Pairs == {p \in Exchanges \X Exchanges : p[1] # p[2]}

SpatialInit ==
    /\ cfg \in Settings
    /\ models = [p \in Pairs |-> NewSpreadModel]
    /\ kelly = <<>>
    /\ recent = NewRing
    /\ opps = {}
    /\ sets = 0
    /\ spreads = [p \in Pairs |-> <<>>]
    /\ returns = [p \in Pairs |-> <<>>]
    /\ traded = <<>>

-----------------------------------------------------------------------------
(* SetMinNetProfitPct, SetMaxPositionUSDT, SetStaleness, SetFees: one      *)
(* field each.                                                             *)

Set ==
    /\ sets < MaxSets
    /\ sets' = sets + 1
    /\ \E s \in Settings :
         \/ cfg' = [cfg EXCEPT !.base = s.base]
         \/ cfg' = [cfg EXCEPT !.position = s.position]
         \/ cfg' = [cfg EXCEPT !.staleness = s.staleness]
         \/ cfg' = [cfg EXCEPT !.fees = s.fees]
    /\ cfg' # cfg
    /\ UNCHANGED <<estimates, call, opps, history>>

CopyConfig ==
    /\ call' = [call EXCEPT !.cfg = cfg]
    /\ UNCHANGED <<cfg, estimates, opps, sets, history>>

-----------------------------------------------------------------------------
(* Detect, once it has its copy. *)

Age(e) == call.now - call.snapshot[e].at
Fresh(e) == e # call.exchange /\ call.snapshot[e] # Unknown /\ Age(e) <= call.cfg.staleness
Ask == call.snapshot[call.exchange].ask
Bid(e) == call.snapshot[e].bid
RawSpread(e) == ((Bid(e) - Ask) * Scale) \div Ask

\* The models are trained before anything is filtered.
Trained == [p \in Pairs |-> IF p[1] = call.exchange /\ Fresh(p[2])
                            THEN Update(models[p], RawSpread(p[2])) ELSE models[p]]

AgeFactor(e) == IF 1 + Age(e) > 3 THEN 3 ELSE 1 + Age(e)
NetProfit(e) ==
    LET buy == call.cfg.fees[call.exchange]
        sell == call.cfg.fees[e]
    IN Bid(e) - Ask - buy.fixed - sell.fixed - buy.drift - sell.drift * AgeFactor(e)

\* netPct >= base + Coeff * std, without the root.
AboveThreshold(e) ==
    LET m == Trained[<<call.exchange, e>>]
        excess == NetProfit(e) * Scale - call.cfg.base * Ask
        sigmas == Coeff * Coeff * VarianceTimesN(m) * Ask * Ask
    IN excess >= 0 /\ (sigmas = 0 \/ excess * excess * m.n >= sigmas)

\* A fraction of 0 means "no advice", whatever the reason.
KellyFraction(p) ==
    IF p \in DOMAIN kelly /\ Fraction(kelly[p])[1] > 0 THEN Fraction(kelly[p]) ELSE <<1, 1>>

\* 1 - Weight * matches / CorrWindowN, at least 0.1.
Penalty(p) ==
    LET tenths == 10 * CorrWindowN - Weight * CountSameExchange(recent, p[1], p[2])
    IN IF tenths < CorrWindowN THEN <<1, 10>> ELSE <<tenths, 10 * CorrWindowN>>

\* The volume as a fraction: what is divided by what.
MaxVolume(p) ==
    <<KellyFraction(p)[1] * call.cfg.position * Penalty(p)[1],
      KellyFraction(p)[2] * Ask * Penalty(p)[2]>>

Detected(e) ==
    /\ Fresh(e)
    /\ Bid(e) > Ask
    /\ NetProfit(e) > 0
    /\ AboveThreshold(e)

Detect ==
    /\ models' = Trained
    /\ opps' = {[pair |-> <<call.exchange, e>>, volume |-> MaxVolume(<<call.exchange, e>>),
                 ask |-> Ask, position |-> call.cfg.position] : e \in {x \in Exchanges : Detected(x)}}
    /\ spreads' = [p \in Pairs |-> IF p[1] = call.exchange /\ Fresh(p[2])
                                   THEN Append(spreads[p], RawSpread(p[2])) ELSE spreads[p]]
    /\ UNCHANGED <<cfg, kelly, recent, sets, returns, traded>>

-----------------------------------------------------------------------------
\* The executor reports what a trade of the pair returned.
RecordTradeReturn(p, netPct) ==
    /\ kelly' = [q \in DOMAIN kelly \cup {p} |->
                   IF q # p THEN kelly[q]
                   ELSE Record(IF p \in DOMAIN kelly THEN kelly[p] ELSE NewKelly, netPct)]
    /\ recent' = PushTrade(recent, p)
    /\ returns' = [returns EXCEPT ![p] = Append(returns[p], netPct)]
    /\ traded' = Append(traded, p)
    /\ UNCHANGED <<cfg, models, call, opps, sets, spreads>>

-----------------------------------------------------------------------------
\* The indices of the last n elements of a sequence.
LastOf(s, n) == (IF Len(s) > n THEN Len(s) - n + 1 ELSE 1) .. Len(s)
Squares(s) == [i \in DOMAIN s |-> s[i] * s[i]]

\* n, mean and the sum of squared deviations that a model should hold for the
\* samples of a window, deviations being squares minus the square of the mean.
Describes(m, s, window) ==
    LET sum == SumFunctionOnSet(s, window) IN
    /\ m.n = Cardinality(window)
    /\ m.n > 0 => /\ m.mu * m.n = sum
                  /\ m.m2 * m.n = m.n * SumFunctionOnSet(Squares(s), window) - sum * sum

\* However often the ring has wrapped, the threshold and the z-scores rest on
\* mean and variance of exactly the last WindowSize spreads of the pair
\* (spread.go:47-84).
SpreadTellsWindow ==
    \A p \in Pairs : Describes(models[p], spreads[p], LastOf(spreads[p], WindowSize))

\* The volume of an opportunity follows from the trades before it: the share
\* of the position limit that mean and variance of all returns of its pair
\* advise, less for each of the last CorrWindowN trades that touched one of
\* its exchanges (spatial.go:172-194, kelly.go:27-63, correlation.go:30-54).
Sum(s) == SumFunctionOnSet(s, DOMAIN s)
Equal(x, y) == x[1] * y[2] = y[1] * x[2]
SharesExchange(p, q) == {p[1], p[2]} \cap {q[1], q[2]} # {}

AdvisedFraction(rs) ==
    LET n == Len(rs)
        deviation == n * Sum(Squares(rs)) - Sum(rs) * Sum(rs)
        advises == n >= KellyMinSamples /\ deviation > 0 /\ Sum(rs) > 0
        capped == Sum(rs) * n * KellyCap[2] >= KellyCap[1] * deviation
    IN IF ~advises THEN <<1, 1>> ELSE IF capped THEN KellyCap ELSE <<Sum(rs) * n, deviation>>

AdvisedVolume(o) ==
    LET f == AdvisedFraction(returns[o.pair])
        matches == Cardinality({i \in LastOf(traded, CorrWindowN) :
                                  SharesExchange(traded[i], o.pair)})
        tenths == Max({CorrWindowN, 10 * CorrWindowN - Weight * matches})
    IN Equal(o.volume, <<f[1] * o.position * tenths, f[2] * o.ask * 10 * CorrWindowN>>)

VolumeTellsTrades ==
    [][spreads' # spreads => \A o \in opps' : AdvisedVolume(o)]_spatialVars
=============================================================================
