--------------------------- MODULE FundingStrategy ---------------------------
(***************************************************************************)
(* internal/strategy/funding: a goroutine refreshes synthetic rates, and   *)
(* every update makes Detect compare the highest with the lowest.  Scores  *)
(* and the models behind them are left out.                                *)
(***************************************************************************)
EXTENDS Integers, Sequences

CONSTANTS
    Venues,
    Rates,            \* bound: values of the synthetic wave with its jitter
    Threshold,
    FundingCooldown,  \* EmitCooldown
    NoRate

ASSUME FundingConstants ==
    /\ Rates \subseteq Int /\ Threshold \in Nat /\ FundingCooldown \in Nat /\ NoRate \notin Rates

VARIABLES
    rates,       \* FundingStrategy.rates, NoRate before the first tick
    lastEmit,    \* of the pairs that were emitted, the time
    fundingOpps  \* what Detect has emitted: [pair, at]

fundingVars == <<rates, lastEmit, fundingOpps>>

FundingInit ==
    /\ rates = [v \in Venues |-> NoRate]
    /\ lastEmit = <<>>
    /\ fundingOpps = <<>>

\* tick: the goroutine of Start.
Poll ==
    /\ rates' \in [Venues -> Rates]
    /\ UNCHANGED <<lastEmit, fundingOpps>>

\* The venues Detect may find highest and lowest: among equals, the first in
\* the order the map is walked in.
Highest == {v \in Venues : \A w \in Venues : rates[v] >= rates[w]}
Lowest == {v \in Venues : \A w \in Venues : rates[v] <= rates[w]}

Cooling(last, key, now, cooldown) == key \in DOMAIN last /\ now - last[key] < cooldown
EmittedForgetsOthers(last, key, now) == [x \in {key} |-> now]
Emitted(last, key, now) == [x \in DOMAIN last \cup {key} |-> IF x = key THEN now ELSE last[x]]

FundingDetect(now) ==
    \/ /\ \E v \in Venues : rates[v] = NoRate
       /\ UNCHANGED fundingVars
    \/ /\ \A v \in Venues : rates[v] # NoRate
       /\ \E low \in Lowest, high \in Highest :
            /\ rates[low] = rates[high] => low = high
            /\ IF rates[high] - rates[low] < Threshold
                  \/ Cooling(lastEmit, <<low, high>>, now, FundingCooldown)
               THEN UNCHANGED <<lastEmit, fundingOpps>>
               ELSE /\ lastEmit' = Emitted(lastEmit, <<low, high>>, now)
                    /\ fundingOpps' = Append(fundingOpps, [pair |-> <<low, high>>, at |-> now])
       /\ UNCHANGED rates
=============================================================================
