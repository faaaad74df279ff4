----------------------------- MODULE RiskManager -----------------------------
(***************************************************************************)
(* internal/risk/risk.go: the three-state circuit breaker.                 *)
(*                                                                         *)
(* Every method holds r.mu from its first line to its return, so each is   *)
(* one action.  The processing loop calls Evaluate, State and              *)
(* RecordTradeResult; the HTTP handler of PATCH /api/config calls the      *)
(* setters from its own goroutine, in any order with them.  A pause does   *)
(* not end by a timer: checkPauseExpiry runs at the head of the loop's     *)
(* three methods, and that is where an elapsed pause is noticed.           *)
(*                                                                         *)
(* Percentages and position sizes are integers: the code only compares     *)
(* them.  Time counts in ticks of types.Clock.                             *)
(***************************************************************************)
EXTENDS Integers

CONSTANTS
    NetPcts,          \* values of netPct: opportunities, results and thresholds
    Positions,        \* values of MaxVolume * BuyPrice
    MaxPositionUSDT,  \* Config.MaxPositionUSDT: it has no setter
    LossNs,           \* values of ConsecutiveLossN an operator may choose
    PauseDuration,    \* Config.PauseDuration
    Horizon           \* bound: no result is recorded after it, and the clock
                      \* runs past it only to the end of the pause under way

ASSUME RiskConstants ==
    /\ NetPcts \subseteq Int
    /\ Positions \subseteq Int
    /\ MaxPositionUSDT \in Int
    /\ LossNs \subseteq Int
    /\ PauseDuration \in Nat
    /\ Horizon \in Nat

VARIABLES
    state,             \* "active", "watching" or "paused"
    lossCount,
    pauseUntil,
    minNetProfitPct,   \* the three fields of cfg that have a setter
    lossThreshold,
    consecutiveLossN,
    now,               \* clock.Now()
    approved           \* whether the call just made was an Evaluate that returned true

config == <<minNetProfitPct, lossThreshold, consecutiveLossN>>
breaker == <<state, lossCount, pauseUntil>>
vars == <<state, lossCount, pauseUntil, minNetProfitPct, lossThreshold,
          consecutiveLossN, now, approved>>

Init ==
    /\ state = "active"
    /\ lossCount = 0
    /\ pauseUntil = 0
    /\ minNetProfitPct \in NetPcts
    /\ lossThreshold \in NetPcts
    /\ consecutiveLossN \in LossNs
    /\ now = 0
    /\ approved = FALSE

(***************************************************************************)
(* checkPauseExpiry, as the state and the count its caller goes on with.   *)
(***************************************************************************)
PauseExpiredEarly == state = "paused" /\ now + 1 >= pauseUntil
PauseExpired == state = "paused" /\ now >= pauseUntil
CheckedStateKept == state
CheckedState == IF PauseExpired THEN "active" ELSE state
CheckedLossCountKept == lossCount
CheckedLossCount == IF PauseExpired THEN 0 ELSE lossCount

CheckPauseExpiry ==
    /\ state' = CheckedState
    /\ lossCount' = CheckedLossCount
    /\ UNCHANGED pauseUntil

State ==
    /\ CheckPauseExpiry
    /\ approved' = FALSE
    /\ UNCHANGED <<config, now>>

ApprovesWhilePaused(netPct, position) ==
    /\ netPct >= minNetProfitPct
    /\ position <= MaxPositionUSDT

\* The value Evaluate returns for an opportunity.
Approves(netPct, position) ==
    /\ CheckedState # "paused"
    /\ netPct >= minNetProfitPct
    /\ position <= MaxPositionUSDT

Evaluate(netPct, position) ==
    /\ CheckPauseExpiry
    /\ approved' = Approves(netPct, position)
    /\ UNCHANGED <<config, now>>

RecordWhilePaused ==
    /\ CheckedState = "paused"
    /\ UNCHANGED breaker

RecordGainDecays(netPct) ==
    /\ CheckedState # "paused"
    /\ netPct >= lossThreshold
    /\ state' = "active"
    /\ lossCount' = CheckedLossCount - 1
    /\ UNCHANGED pauseUntil

RecordGain(netPct) ==
    /\ CheckedState # "paused"
    /\ netPct >= lossThreshold
    /\ state' = "active"
    /\ lossCount' = 0
    /\ UNCHANGED pauseUntil

RecordLossOneLate(netPct) ==
    /\ CheckedState # "paused"
    /\ netPct < lossThreshold
    /\ lossCount' = CheckedLossCount + 1
    /\ IF CheckedLossCount + 1 > consecutiveLossN
       THEN /\ state' = "paused"
            /\ pauseUntil' = now + PauseDuration
       ELSE /\ state' = "watching"
            /\ UNCHANGED pauseUntil

RecordLoss(netPct) ==
    /\ CheckedState # "paused"
    /\ netPct < lossThreshold
    /\ lossCount' = CheckedLossCount + 1
    /\ IF CheckedLossCount + 1 >= consecutiveLossN
       THEN /\ state' = "paused"
            /\ pauseUntil' = now + PauseDuration
       ELSE /\ state' = "watching"
            /\ UNCHANGED pauseUntil

RecordTradeResult(netPct) ==
    /\ now <= Horizon
    /\ RecordWhilePaused \/ RecordGain(netPct) \/ RecordLoss(netPct)
    /\ approved' = FALSE
    /\ UNCHANGED <<config, now>>

SetMinNetProfitPct(v) ==
    /\ minNetProfitPct' = v
    /\ approved' = FALSE
    /\ UNCHANGED <<breaker, lossThreshold, consecutiveLossN, now>>

SetConsecutiveLossN(n) ==
    /\ consecutiveLossN' = n
    /\ approved' = FALSE
    /\ UNCHANGED <<breaker, minNetProfitPct, lossThreshold, now>>

SetLossThreshold(v) ==
    /\ lossThreshold' = v
    /\ approved' = FALSE
    /\ UNCHANGED <<breaker, minNetProfitPct, consecutiveLossN, now>>

Tick ==
    /\ now < Horizon \/ (state = "paused" /\ now < pauseUntil)
    /\ now' = now + 1
    /\ approved' = FALSE
    /\ UNCHANGED <<breaker, config>>

Next ==
    \/ State
    \/ \E p \in NetPcts, q \in Positions : Evaluate(p, q)
    \/ \E p \in NetPcts : RecordTradeResult(p)
    \/ \E v \in NetPcts : SetMinNetProfitPct(v) \/ SetLossThreshold(v)
    \/ \E n \in LossNs : SetConsecutiveLossN(n)
    \/ Tick

Spec == Init /\ [][Next]_vars

(***************************************************************************)
(* The clock runs, and the ticker of the processing loop keeps asking.     *)
(***************************************************************************)
AskAgain == \E p \in NetPcts, q \in Positions : Evaluate(p, q)
FairSpec == Spec /\ WF_vars(Tick) /\ WF_vars(AskAgain)

-----------------------------------------------------------------------------
StateTypeOK ==
    /\ state \in {"active", "watching", "paused"}
    /\ lossCount \in Nat
    /\ pauseUntil \in Nat
    /\ minNetProfitPct \in NetPcts
    /\ lossThreshold \in NetPcts
    /\ consecutiveLossN \in LossNs
    /\ now \in Nat

TypeOK == StateTypeOK /\ approved \in BOOLEAN

\* Whatever the calls, setters included, no trade is approved between the
\* loss that tripped the breaker and the end of its pause: pauseUntil only
\* moves at a trip, so an approval at an earlier instant would be a trade
\* inside the pause (Evaluate, RecordTradeResult, checkPauseExpiry).
NoApprovalInsidePause == approved => now >= pauseUntil

\* The breaker leaves "paused" only once the pause has been served in full,
\* and a pause under way is never restarted or extended by late results.
PauseServedOnce ==
    [][state = "paused" /\ now < pauseUntil
         => state' = "paused" /\ pauseUntil' = pauseUntil]_vars

\* "watching" is exactly the state with counted losses that did not trip:
\* the three names never disagree with the counter they summarise, however
\* pauses end and whatever limits are set in between.
StateTellsCount ==
    /\ state = "active" => lossCount = 0
    /\ state = "watching" => lossCount > 0
    /\ state # "paused" => now >= pauseUntil

\* Losses in a row that trip the breaker stop trading for a while, not for
\* good: with opportunities still arriving, a paused breaker reopens.
PauseEnds == state = "paused" ~> state # "paused"

(***************************************************************************)
(* The lazy state machine implements the breaker with a timer: no caller   *)
(* can tell that an elapsed pause is only noticed at the next call.        *)
(***************************************************************************)
Breaker == INSTANCE CircuitBreaker
    WITH streak <- IF state = "paused" THEN 0 ELSE lossCount,
         limit <- consecutiveLossN,
         blockedUntil <- pauseUntil,
         answer <- approved

\* RiskManager behaves as CircuitBreaker: results count, each by itself, and
\* trades are refused, as if the pause ended by itself on time.  It is not the
\* breaker of docs/configuracion.md:74 and docs/dashboard.md:246, which add up
\* the losses of the streak: two losses of exactly the threshold trip that one,
\* and never this one.
ImplementsBreaker == Breaker!Spec

=============================================================================
