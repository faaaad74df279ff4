-------------------------- MODULE MCProcessingLoop --------------------------
(* Small instances of ProcessingLoop for TLC. *)
EXTENDS ProcessingLoop

Set(field, value) == [field |-> field, value |-> value]
Detects(strategy, score, netPct, position) ==
    [strategy |-> strategy, score |-> score, netPct |-> netPct, position |-> position]

MCRealisedPcts == {-1, 1}
MCMins == {0}
MCIntervals == {50}
MCMaxPositions == {1, 2}
MCLossNs == {1, 2}

\* An operator may raise the loss threshold above what is detected: only then
\* do results count as losses.
MCThresholds == {-1, 2}
MCKinds ==
    {Detects("spatial", 2, 1, 1), Detects("spatial", 1, 3, 2), Detects("funding", 1, 1, 1)}
MCPatches ==
    {<<Set("circuitBreakerN", 1), Set("circuitBreakerLossPct", 2)>>,
     <<Set("maxPositionUSDT", 2)>>,
     <<Set("executionInterval", 50)>>}

\* The documented defaults: no threshold above a minimum.
DefaultThresholds == {-2, -1, 0}
DefaultKinds == {Detects("spatial", 1, 0, 1), Detects("triangular", 1, 1, 1)}
=============================================================================
