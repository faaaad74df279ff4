-------------------------- MODULE RiskManagerProofs --------------------------
(***************************************************************************)
(* Theorems about RiskManager for every set of percentages, every limit,   *)
(* every pause duration.  The induction rests on Inv: the types and        *)
(* StateTellsCount, whose last conjunct (outside "paused" no pause is      *)
(* running) is what makes the lazy expiry safe.                            *)
(***************************************************************************)
EXTENDS RiskManager, TLAPS

Inv == StateTypeOK /\ StateTellsCount

\* The head of every method: noticing an elapsed pause keeps Inv, and what
\* it leaves is a state in which "not paused" means "no pause running".
LEMMA CheckedFacts ==
    ASSUME Inv
    PROVE  /\ CheckedState \in {"active", "watching", "paused"}
           /\ CheckedLossCount \in Nat
           /\ CheckedState = "active" => CheckedLossCount = 0
           /\ CheckedState = "watching" => CheckedLossCount > 0
           /\ CheckedState # "paused" => now >= pauseUntil
           /\ CheckedState = "paused" => state = "paused" /\ now < pauseUntil
  BY DEF Inv, StateTypeOK, StateTellsCount, CheckedState, CheckedLossCount, PauseExpired

LEMMA InitInv == Init => Inv
  BY RiskConstants DEF Init, Inv, StateTypeOK, StateTellsCount

LEMMA StepInv == Inv /\ [Next]_vars => Inv'
<1> SUFFICES ASSUME Inv, [Next]_vars PROVE Inv'
  OBVIOUS
<1> USE RiskConstants DEF Inv, StateTypeOK, StateTellsCount, config, breaker
<1>1. CASE State
  BY <1>1, CheckedFacts DEF State, CheckPauseExpiry
<1>2. ASSUME NEW p \in NetPcts, NEW q \in Positions, Evaluate(p, q)
      PROVE  Inv'
  BY <1>2, CheckedFacts DEF Evaluate, CheckPauseExpiry, Approves
<1>3. ASSUME NEW p \in NetPcts, RecordTradeResult(p)
      PROVE  Inv'
  <2>0. /\ UNCHANGED <<config, now>>
        /\ approved' = FALSE
    BY <1>3 DEF RecordTradeResult
  <2>1. CASE RecordWhilePaused
    BY <2>0, <2>1 DEF RecordWhilePaused
  <2>2. CASE RecordGain(p)
    BY <2>0, <2>2, CheckedFacts DEF RecordGain
  <2>3. CASE RecordLoss(p)
    <3>1. CASE CheckedLossCount + 1 >= consecutiveLossN
      BY <2>0, <2>3, <3>1, CheckedFacts DEF RecordLoss
    <3>2. CASE ~(CheckedLossCount + 1 >= consecutiveLossN)
      BY <2>0, <2>3, <3>2, CheckedFacts DEF RecordLoss
    <3>3. QED BY <3>1, <3>2
  <2>4. QED BY <1>3, <2>1, <2>2, <2>3 DEF RecordTradeResult
<1>4. ASSUME NEW v \in NetPcts, SetMinNetProfitPct(v) \/ SetLossThreshold(v)
      PROVE  Inv'
  BY <1>4 DEF SetMinNetProfitPct, SetLossThreshold
<1>5. ASSUME NEW n \in LossNs, SetConsecutiveLossN(n)
      PROVE  Inv'
  BY <1>5 DEF SetConsecutiveLossN
<1>6. CASE Tick
  BY <1>6 DEF Tick
<1>7. CASE UNCHANGED vars
  BY <1>7 DEF vars
<1>8. QED BY <1>1, <1>2, <1>3, <1>4, <1>5, <1>6, <1>7 DEF Next

LEMMA Invariance == Spec => []Inv
  BY InitInv, StepInv, PTL DEF Spec

-----------------------------------------------------------------------------
\* Type correctness, for every choice of the constants.
THEOREM TypeCorrect == Spec => []TypeOK
<1> DEFINE B == approved \in BOOLEAN
<1>1. Init => B
  BY DEF Init
<1>2. B /\ [Next]_vars => B'
  <2>1. ASSUME NEW p \in NetPcts, NEW q \in Positions, Evaluate(p, q)
        PROVE  approved' \in BOOLEAN
    BY <2>1, Zenon DEF Evaluate, Approves
  <2>2. QED
    BY <2>1, Zenon DEF Next, vars, State, RecordTradeResult, SetMinNetProfitPct,
                       SetLossThreshold, SetConsecutiveLossN, Tick
<1>3. Inv /\ B => TypeOK
  BY DEF Inv, TypeOK
<1> HIDE DEF B
<1>4. QED BY <1>1, <1>2, <1>3, Invariance, PTL DEF Spec

\* The names of the states agree with the loss counter (risk.go:60-160).
THEOREM StateTellsCountHolds == Spec => []StateTellsCount
<1>1. Inv => StateTellsCount
  BY DEF Inv
<1>2. QED BY <1>1, Invariance, PTL

\* No trade is approved inside a pause (risk.go:78-102 against 106-130).
THEOREM NoApprovalInsidePauseHolds == Spec => []NoApprovalInsidePause
<1> DEFINE P == NoApprovalInsidePause
<1>1. Init => P
  BY DEF Init, NoApprovalInsidePause
<1>2. Inv /\ P /\ [Next]_vars => P'
  <2> SUFFICES ASSUME Inv, P, [Next]_vars PROVE P'
    OBVIOUS
  <2>1. CASE UNCHANGED vars
    BY <2>1 DEF vars, NoApprovalInsidePause
  <2>2. ASSUME NEW p \in NetPcts, NEW q \in Positions, Evaluate(p, q)
        PROVE  P'
    <3>1. approved' => CheckedState # "paused"
      BY <2>2 DEF Evaluate, Approves
    <3>2. UNCHANGED <<pauseUntil, now>>
      BY <2>2 DEF Evaluate, CheckPauseExpiry
    <3>3. QED BY <3>1, <3>2, CheckedFacts DEF NoApprovalInsidePause
  <2>3. CASE ~(\E p \in NetPcts, q \in Positions : Evaluate(p, q))
             /\ ~UNCHANGED vars
    <3>1. approved' = FALSE
      BY <2>3 DEF Next, State, RecordTradeResult, SetMinNetProfitPct,
                  SetLossThreshold, SetConsecutiveLossN, Tick
    <3>2. QED BY <3>1 DEF NoApprovalInsidePause
  <2>4. QED BY <2>1, <2>2, <2>3
<1>3. QED BY <1>1, <1>2, Invariance, PTL DEF Spec

\* A pause is served in full and never extended (risk.go:111-113, 155-160).
THEOREM PauseServedOnceHolds == Spec => PauseServedOnce
<1> DEFINE A == state = "paused" /\ now < pauseUntil
                  => state' = "paused" /\ pauseUntil' = pauseUntil
<1>1. Inv /\ [Next]_vars => [A]_vars
  <2> SUFFICES ASSUME Inv, Next, state = "paused", now < pauseUntil
               PROVE  state' = "paused" /\ pauseUntil' = pauseUntil
    OBVIOUS
  <2>1. CheckedState = "paused"
    BY DEF CheckedState, PauseExpired, Inv, StateTypeOK
  <2>2. QED
    BY <2>1 DEF Next, State, Evaluate, CheckPauseExpiry, RecordTradeResult,
                RecordWhilePaused, RecordGain, RecordLoss, breaker,
                SetMinNetProfitPct, SetLossThreshold, SetConsecutiveLossN, Tick
<1>2. QED BY <1>1, Invariance, PTL DEF Spec, PauseServedOnce

-----------------------------------------------------------------------------
\* The refinement: every behaviour of the lazy state machine is one of the
\* breaker with a timer.
THEOREM BreakerImplemented == Spec => ImplementsBreaker
<1> DEFINE streak == IF state = "paused" THEN 0 ELSE lossCount
<1>1. Init => Breaker!Init
  BY RiskConstants DEF Init, Breaker!Init
<1>2. Inv /\ [Next]_vars => [Breaker!Next]_Breaker!vars
  <2> SUFFICES ASSUME Inv, [Next]_vars
               PROVE  Breaker!Next \/ UNCHANGED Breaker!vars
    BY DEF Breaker!vars
  <2> USE RiskConstants DEF Inv, StateTypeOK, StateTellsCount, config, breaker
  <2>1. ASSUME CheckPauseExpiry
        PROVE  streak' = streak
    BY <2>1 DEF CheckPauseExpiry, CheckedState, CheckedLossCount, PauseExpired
  <2>2. CASE State
    <3>1. Breaker!Ask
      BY <2>1, <2>2 DEF State, CheckPauseExpiry, Breaker!Ask
    <3>2. QED BY <3>1 DEF Breaker!Next
  <2>3. ASSUME NEW p \in NetPcts, NEW q \in Positions, Evaluate(p, q)
        PROVE  Breaker!Next
    <3>1. approved' => ~Breaker!Blocked
      <4>1. approved' => CheckedState # "paused"
        BY <2>3 DEF Evaluate, Approves
      <4>2. QED BY <4>1, CheckedFacts DEF Breaker!Blocked
    <3>2. approved' \in {FALSE, ~Breaker!Blocked}
      BY <2>3, <3>1 DEF Evaluate, Approves
    <3>3. Breaker!Ask
      BY <2>1, <2>3, <3>2 DEF Evaluate, CheckPauseExpiry, Breaker!Ask
    <3>4. QED BY <3>3 DEF Breaker!Next
  <2>4. ASSUME NEW p \in NetPcts, RecordTradeResult(p)
        PROVE  Breaker!Next
    <3>0. /\ UNCHANGED <<config, now>>
          /\ approved' = FALSE
      BY <2>4 DEF RecordTradeResult
    <3>1. CASE RecordWhilePaused
      <4>1. Breaker!Ask
        BY <3>0, <3>1 DEF RecordWhilePaused, Breaker!Ask
      <4>2. QED BY <4>1 DEF Breaker!Next
    <3>2. CASE RecordGain(p)
      <4>1. Breaker!Win
        BY <3>0, <3>2, CheckedFacts DEF RecordGain, Breaker!Win, Breaker!Blocked
      <4>2. QED BY <4>1 DEF Breaker!Next
    <3>3. CASE RecordLoss(p)
      <4>0. /\ ~Breaker!Blocked
            /\ streak = CheckedLossCount
        BY <3>3, CheckedFacts DEF RecordLoss, Breaker!Blocked, CheckedState,
                                  CheckedLossCount, PauseExpired
      <4>1. CASE CheckedLossCount + 1 >= consecutiveLossN
        <5>1. Breaker!Trip
          BY <3>0, <3>3, <4>0, <4>1, CheckedFacts DEF RecordLoss, Breaker!Trip
        <5>2. QED BY <5>1 DEF Breaker!Next
      <4>2. CASE ~(CheckedLossCount + 1 >= consecutiveLossN)
        <5>1. Breaker!CountLoss
          BY <3>0, <3>3, <4>0, <4>2, CheckedFacts DEF RecordLoss, Breaker!CountLoss
        <5>2. QED BY <5>1 DEF Breaker!Next
      <4>3. QED BY <4>1, <4>2
    <3>4. QED BY <2>4, <3>1, <3>2, <3>3 DEF RecordTradeResult
  <2>5. ASSUME NEW v \in NetPcts, SetMinNetProfitPct(v) \/ SetLossThreshold(v)
        PROVE  Breaker!Next
    <3>1. Breaker!Ask
      BY <2>5 DEF SetMinNetProfitPct, SetLossThreshold, Breaker!Ask
    <3>2. QED BY <3>1 DEF Breaker!Next
  <2>6. ASSUME NEW n \in LossNs, SetConsecutiveLossN(n)
        PROVE  Breaker!Next
    <3>1. Breaker!Retune
      BY <2>6 DEF SetConsecutiveLossN, Breaker!Retune
    <3>2. QED BY <3>1 DEF Breaker!Next
  <2>7. CASE Tick
    <3>1. Breaker!TimePasses
      BY <2>7 DEF Tick, Breaker!TimePasses
    <3>2. QED BY <3>1 DEF Breaker!Next
  <2>8. CASE UNCHANGED vars
    BY <2>8 DEF vars, Breaker!vars
  <2>9. QED BY <2>2, <2>3, <2>4, <2>5, <2>6, <2>7, <2>8 DEF Next
<1>3. QED BY <1>1, <1>2, Invariance, PTL DEF Spec, ImplementsBreaker, Breaker!Spec

=============================================================================
