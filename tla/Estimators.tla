------------------------------ MODULE Estimators ------------------------------
(***************************************************************************)
(* What the spatial strategy remembers: internal/model/spread.go (mean and *)
(* variance of a sliding window, by Welford's method forwards and          *)
(* backwards), internal/sizing/kelly.go (the same over all returns, never  *)
(* backwards) and strategy/spatial/correlation.go (a ring of the last      *)
(* trades).                                                                *)
(*                                                                         *)
(* Samples are integers that every division here divides exactly: rounding *)
(* of floating point is not modelled.                                      *)
(***************************************************************************)
EXTENDS Integers, FiniteSets

CONSTANTS
    WindowSize,       \* 500
    KellyMinSamples,  \* 10
    KellyCap,         \* KellyFraction, 0.25, as <<numerator, denominator>>
    CorrWindowN       \* 50

ASSUME EstimatorsConstants ==
    /\ WindowSize \in Nat \ {0} /\ KellyMinSamples \in Nat \ {0} /\ CorrWindowN \in Nat \ {0}
    /\ KellyCap \in (Nat \ {0}) \X (Nat \ {0})  \* spatial.go:73 replaces a zero

-----------------------------------------------------------------------------
(* SpreadModel. *)

NewSpreadModel ==
    [n |-> 0, mu |-> 0, m2 |-> 0, buf |-> [i \in 0 .. WindowSize - 1 |-> 0],
     pos |-> 0, len |-> 0]

\* Reverse Welford: the sample about to be overwritten.
EvictedWithOneMean(m) ==
    LET old == m.buf[m.pos]
        n == m.n - 1
        oldMu == ((n + 1) * m.mu - old) \div n
    IN IF n = 0 THEN [m EXCEPT !.n = 0, !.mu = 0, !.m2 = 0]
       ELSE [m EXCEPT !.n = n, !.mu = oldMu, !.m2 = m.m2 - (old - m.mu) * (old - m.mu)]

Evicted(m) ==
    LET old == m.buf[m.pos]
        n == m.n - 1
        oldMu == ((n + 1) * m.mu - old) \div n
    IN IF n = 0 THEN [m EXCEPT !.n = 0, !.mu = 0, !.m2 = 0]
       ELSE [m EXCEPT !.n = n, !.mu = oldMu, !.m2 = m.m2 - (old - m.mu) * (old - oldMu)]

Added(m, x) ==
    LET n == m.n + 1
        mu == m.mu + (x - m.mu) \div n
    IN [m EXCEPT !.n = n, !.mu = mu, !.m2 = m.m2 + (x - m.mu) * (x - mu)]

Update(m, x) ==
    IF m.len = WindowSize
    THEN [Added(Evicted(m), x) EXCEPT !.buf[m.pos] = x, !.pos = (m.pos + 1) % WindowSize]
    ELSE [Added(m, x) EXCEPT !.buf[(m.pos + m.len) % WindowSize] = x, !.len = m.len + 1]

\* The population variance, as a numerator over n.
VarianceTimesN(m) == IF m.n < 2 \/ m.m2 < 0 THEN 0 ELSE m.m2

-----------------------------------------------------------------------------
(* KellyEstimator. *)

NewKelly == [n |-> 0, mean |-> 0, m2 |-> 0]

Record(k, netPct) ==
    LET n == k.n + 1
        mean == k.mean + (netPct - k.mean) \div n
    IN [n |-> n, mean |-> mean, m2 |-> k.m2 + (netPct - k.mean) * (netPct - mean)]

NoFraction == <<0, 1>>

\* mean / variance, capped; 0 for too few samples, no variance, or a loss.
Fraction(k) ==
    LET raw == <<k.mean * k.n, k.m2>>
    IN IF k.n < KellyMinSamples \/ k.m2 <= 0 \/ k.mean < 0 THEN NoFraction
       ELSE IF raw[1] * KellyCap[2] < KellyCap[1] * raw[2] THEN raw ELSE KellyCap

-----------------------------------------------------------------------------
(* recentTradeRing.  Entries are pairs <<BuyEx, SellEx>>. *)

NewRing == [buf |-> [i \in 0 .. CorrWindowN - 1 |-> <<>>], idx |-> 0, len |-> 0]

PushTrade(r, entry) ==
    [buf |-> [r.buf EXCEPT ![r.idx] = entry], idx |-> (r.idx + 1) % CorrWindowN,
     len |-> IF r.len < CorrWindowN THEN r.len + 1 ELSE r.len]

CountSameSide(r, buyEx, sellEx) ==
    Cardinality({i \in 0 .. r.len - 1 : r.buf[i][1] = buyEx \/ r.buf[i][2] = sellEx})

CountSameExchange(r, buyEx, sellEx) ==
    Cardinality({i \in 0 .. r.len - 1 :
                   {r.buf[i][1], r.buf[i][2]} \cap {buyEx, sellEx} # {}})
=============================================================================
