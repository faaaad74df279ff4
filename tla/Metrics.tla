------------------------------- MODULE Metrics -------------------------------
(***************************************************************************)
(* internal/backtest/metrics.go: what a replay reports of the trades it    *)
(* booked.  A trade is [strategy, profit]; profits are integers, quotients *)
(* stay pairs <<numerator, denominator>>, and of the Sharpe ratio there is *)
(* the sign and the square.                                                *)
(***************************************************************************)
EXTENDS Integers, Sequences, Functions

CONSTANT SecondsPerYear

ASSUME MetricsConstants == SecondsPerYear \in Nat \ {0}

\* The trades of a strategy are collected one by one.
Profits(trades, s) ==
    LET upto[i \in 0 .. Len(trades)] ==
          IF i = 0 THEN <<>>
          ELSE IF trades[i].strategy = s THEN Append(upto[i - 1], trades[i].profit)
          ELSE upto[i - 1]
    IN upto[Len(trades)]

sumNetProfit(ps) == SumFunction(ps)

\* One pass over the equity curve, which starts at a peak of 0.
AtStart == [eq |-> 0, peak |-> 0, dd |-> 0]
Larger(x, y) == IF x > y THEN x ELSE y

\* The peak forgotten: only the drop of one trade counts.
AfterTradeNoPeak(c, p) ==
    [eq |-> c.eq + p, peak |-> c.eq + p, dd |-> Larger(c.peak - (c.eq + p), c.dd)]

AfterTrade(c, p) ==
    LET peak == Larger(c.eq + p, c.peak)
    IN [eq |-> c.eq + p, peak |-> peak, dd |-> Larger(peak - (c.eq + p), c.dd)]

Curve(ps) ==
    LET after[i \in 0 .. Len(ps)] ==
          IF i = 0 THEN AtStart ELSE AfterTrade(after[i - 1], ps[i])
    IN after[Len(ps)]

maxDrawdown(ps) == Curve(ps).dd

\* mean / std * sqrt(trades per year), with the sample variance.
Deviations(ps) ==
    LET n == Len(ps)
        sum == sumNetProfit(ps)
    IN SumFunction([i \in DOMAIN ps |-> (n * ps[i] - sum) * (n * ps[i] - sum)])

sharpeRatio(ps, seconds) ==
    LET n == Len(ps)
        sum == sumNetProfit(ps)
    IN IF n < 2 \/ seconds <= 0 \/ Deviations(ps) = 0 THEN [sign |-> 0, square |-> <<0, 1>>]
       ELSE [sign |-> IF sum > 0 THEN 1 ELSE IF sum < 0 THEN -1 ELSE 0,
             square |-> <<sum * sum * (n - 1) * n * SecondsPerYear, Deviations(ps) * seconds>>]

Wins(ps) == SumFunction([i \in DOMAIN ps |-> IF ps[i] > 0 THEN 1 ELSE 0])

hitRate(ps) == IF ps = <<>> THEN <<0, 1>> ELSE <<Wins(ps), Len(ps)>>

NoLosses == <<999, 1>>
Gains(ps) == SumFunction([i \in DOMAIN ps |-> IF ps[i] > 0 THEN ps[i] ELSE 0])
Losses(ps) == SumFunction([i \in DOMAIN ps |-> IF ps[i] < 0 THEN ps[i] ELSE 0])

profitFactor(ps) ==
    IF ps = <<>> THEN <<0, 1>>
    ELSE IF Losses(ps) = 0 THEN NoLosses ELSE <<Gains(ps), -Losses(ps)>>

ComputeMetrics(trades, from, to) ==
    [s \in {trades[i].strategy : i \in DOMAIN trades} |->
       LET ps == Profits(trades, s)
       IN [TotalPnL |-> sumNetProfit(ps), MaxDrawdown |-> maxDrawdown(ps),
           Sharpe |-> sharpeRatio(ps, to - from), HitRate |-> hitRate(ps),
           ProfitFactor |-> profitFactor(ps), TradeCount |-> Len(ps)]]
=============================================================================
