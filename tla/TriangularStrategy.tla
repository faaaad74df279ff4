-------------------------- MODULE TriangularStrategy --------------------------
(***************************************************************************)
(* internal/strategy/triangular: a cycle USDT, BTC, ETH within one         *)
(* exchange.  ETH is simulated: refs and ethBtc matter only by their       *)
(* quotient, the price of BTC at which the cycle would be fair.  Scores    *)
(* and the models behind them are left out.                                *)
(***************************************************************************)
EXTENDS Integers, Sequences

CONSTANTS
    Markets,
    FairPrices,     \* bound: values of refs / ethBtc, seeded with noise
    CycleFee,       \* 3 * TakerFee, in percent
    RefreshEvery,
    CycleCooldown,  \* EmitCooldown
    Unseeded

ASSUME TriangularConstants ==
    /\ FairPrices \subseteq Nat \ {0} /\ Unseeded \notin FairPrices
    /\ CycleFee \in Nat /\ RefreshEvery \in Nat /\ CycleCooldown \in Nat

VARIABLES
    fair,         \* refs / ethBtc of each market
    lastRefresh,  \* when refs was seeded or refreshed
    last,         \* of the markets that were emitted, the time
    cycleOpps     \* what Detect has emitted: [market, at]

triangularVars == <<fair, lastRefresh, last, cycleOpps>>

TriangularInit ==
    /\ fair = [m \in Markets |-> Unseeded]
    /\ lastRefresh = [m \in Markets |-> Unseeded]
    /\ last = <<>>
    /\ cycleOpps = <<>>

\* refs drifts when it is due.  ethBtc would drift by the same test, which
\* cannot hold any more once refs has been refreshed.
RefreshDue(m, now) ==
    RefreshEvery > 0 /\ lastRefresh[m] # Unseeded /\ now - lastRefresh[m] >= RefreshEvery

Reseeded(m, now) ==
    IF fair[m] = Unseeded \/ RefreshDue(m, now) THEN FairPrices ELSE {fair[m]}

\* max(fair / ask, bid / fair) - 1 beats the three fees, in percent.
Profitable(quote, price) ==
    \/ (price - quote.ask) * 100 > CycleFee * quote.ask
    \/ (quote.bid - price) * 100 > CycleFee * price

CyclesCooling(m, now) == m \in DOMAIN last /\ now - last[m] < CycleCooldown

CycleDetect(m, quote, now) ==
    \E price \in Reseeded(m, now) :
        /\ fair' = [fair EXCEPT ![m] = price]
        /\ lastRefresh' = [lastRefresh EXCEPT ![m] =
                             IF lastRefresh[m] = Unseeded \/ RefreshDue(m, now) THEN now
                             ELSE lastRefresh[m]]
        /\ IF Profitable(quote, price) /\ ~CyclesCooling(m, now)
           THEN /\ last' = [x \in DOMAIN last \cup {m} |-> IF x = m THEN now ELSE last[x]]
                /\ cycleOpps' = Append(cycleOpps, [market |-> m, at |-> now])
           ELSE UNCHANGED <<last, cycleOpps>>
=============================================================================
