----------------------------- MODULE MCStrategies -----------------------------
(* Small instances of Strategies for TLC. *)
EXTENDS Strategies

CONSTANTS binance, kraken

\* ExactDivisions: asks divide Scale, spreads are even (WindowSize is 2) and so
\* are returns (there are at most 2).
MCQuotes == {[bid |-> 9, ask |-> 10], [bid |-> 14, ask |-> 15]}

Fees(sell) == [e \in {binance, kraken} |->
                 IF e = binance THEN [fixed |-> 0, drift |-> 0] ELSE [fixed |-> sell, drift |-> 1]]

MCSettings == {[base |-> 0, position |-> 100, staleness |-> 1, fees |-> Fees(0)],
               [base |-> 12, position |-> 40, staleness |-> 0, fees |-> Fees(1)]}

MCReturns == {-4, 2, 6}
MCKellyCap == <<1, 4>>
MCRates == {0, 1}
MCFairPrices == {10, 16}

\* Strategies share nothing but the update, the clock and the order of the calls.
MCEnabled == {{"spatial"}, {"triangular", "funding"}}
SpatialOnly == {{"spatial"}}
=============================================================================
