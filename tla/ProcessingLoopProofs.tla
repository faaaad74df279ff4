------------------------ MODULE ProcessingLoopProofs ------------------------
(***************************************************************************)
(* Theorems about ProcessingLoop for every set of opportunities, patches   *)
(* and thresholds, any number of opportunities and any interleaving.       *)
(*                                                                         *)
(* First, a step of the loop, of a handler or of the clock is a step of    *)
(* the risk manager or leaves it alone: whatever RiskManagerProofs shows   *)
(* of the risk manager holds inside the running system.  Then, what the    *)
(* loop adds: no trade inside a pause, a breaker configuration that        *)
(* matches the reported one, trade events that are the trades, and a       *)
(* breaker that cannot trip as long as no threshold exceeds a minimum.     *)
(***************************************************************************)
EXTENDS ProcessingLoop, TLAPS, SequenceTheorems, FiniteSetTheorems

RiskProofs == INSTANCE RiskManagerProofs

ThisTypes ==
    /\ minNetProfitPct \in Mins
    /\ lossThreshold \in Thresholds
    /\ consecutiveLossN \in LossNs
    /\ patch \in Seq(Assignments)
    /\ \A o \in pending : o.kind \in Kinds
    /\ pc # "select" => opp.kind \in Kinds

LEMMA InitTypes == Init => ThisTypes
<1> SUFFICES ASSUME Init PROVE ThisTypes
  OBVIOUS
<1>1. consecutiveLossN \in LossNs
  BY DEF Init, Risk!Init
<1>2. QED BY <1>1 DEF Init, ThisTypes

\* The head of a patch is a field and one of its values, its tail a patch.
LEMMA PatchHead ==
    ASSUME patch \in Seq(Assignments), patch # <<>>
    PROVE  /\ Head(patch) \in Assignments
           /\ Tail(patch) \in Seq(Assignments)
  BY HeadTailProperties

\* Routing a field keeps the risk manager's configuration inside its sets
\* and is a call of one of its setters, or no call.
LEMMA RouteFacts ==
    ASSUME ThisTypes, NEW a \in Assignments, RouteField(a.field, a.value)
    PROVE  /\ minNetProfitPct' \in Mins
           /\ lossThreshold' \in Thresholds
           /\ consecutiveLossN' \in LossNs
           /\ Risk!Next \/ UNCHANGED risk
<1> DEFINE f == a.field  v == a.value
<1>0. f \in Fields /\ v \in FieldValues[f]
  BY DEF Assignments
<1>1. CASE f = "minNetProfitPct"
  <2>1. v \in Mins
    BY <1>0, <1>1 DEF FieldValues
  <2>2. Risk!SetMinNetProfitPct(v)
    BY <1>1 DEF RouteField
  <2>3. Risk!Next
    BY <2>1, <2>2 DEF Risk!Next, NetPcts
  <2>4. QED BY <2>1, <2>2, <2>3 DEF Risk!SetMinNetProfitPct, ThisTypes
<1>2. CASE f = "circuitBreakerN"
  <2>1. v \in LossNs
    BY <1>0, <1>2 DEF FieldValues
  <2>2. Risk!SetConsecutiveLossN(v)
    BY <1>2 DEF RouteField
  <2>3. Risk!Next
    BY <2>1, <2>2 DEF Risk!Next
  <2>4. QED BY <2>1, <2>2, <2>3 DEF Risk!SetConsecutiveLossN, ThisTypes
<1>3. CASE f = "circuitBreakerLossPct"
  <2>1. v \in Thresholds
    BY <1>0, <1>3 DEF FieldValues
  <2>2. Risk!SetLossThreshold(v)
    BY <1>3 DEF RouteField
  <2>3. Risk!Next
    BY <2>1, <2>2 DEF Risk!Next, NetPcts
  <2>4. QED BY <2>1, <2>2, <2>3 DEF Risk!SetLossThreshold, ThisTypes
<1>4. CASE f \in {"maxPositionUSDT", "executionInterval"}
  <2>1. UNCHANGED risk
    BY <1>4 DEF RouteField
  <2>2. QED BY <2>1 DEF risk, ThisTypes
<1>5. QED BY <1>0, <1>1, <1>2, <1>3, <1>4 DEF Fields

-----------------------------------------------------------------------------
\* Every action, seen from the risk manager.
LEMMA StepOfRisk ==
    ASSUME ThisTypes, [Next]_vars
    PROVE  /\ ThisTypes'
           /\ Risk!Next \/ UNCHANGED risk
<1> USE DEF ThisTypes
<1>1. ASSUME UNCHANGED risk,
             UNCHANGED patch,
             \A o \in pending' : o.kind \in Kinds,
             pc' # "select" => opp'.kind \in Kinds
      PROVE  /\ ThisTypes'
             /\ Risk!Next \/ UNCHANGED risk
  BY <1>1 DEF risk
<1>2. CASE ApplyInterval
  BY <1>2 DEF ApplyInterval, risk, engine, config
<1>3. ASSUME NEW kind \in Kinds, ProcessUpdate(kind)
      PROVE  /\ ThisTypes'
             /\ Risk!Next \/ UNCHANGED risk
  BY <1>3 DEF ProcessUpdate, risk, config
<1>4. CASE TickFindsNothing
  BY <1>4 DEF TickFindsNothing, Queue!FindNothing, risk, config
<1>5. CASE DequeueTop
  BY <1>5 DEF DequeueTop, Queue!Fresh, Queue!HandOut, risk, config
<1>6. CASE Evaluate
  <2>1. opp.kind.netPct \in NetPcts /\ opp.kind.position \in Positions
    BY <1>6 DEF Evaluate, NetPcts, Positions
  <2>2. Risk!Evaluate(opp.kind.netPct, opp.kind.position)
    BY <1>6 DEF Evaluate
  <2>3. Risk!Next
    BY <2>1, <2>2 DEF Risk!Next
  <2>4. UNCHANGED <<minNetProfitPct, lossThreshold, consecutiveLossN>>
    BY <2>2 DEF Risk!Evaluate, Risk!config
  <2>5. QED BY <1>6, <2>3, <2>4 DEF Evaluate, engine, config
<1>7. CASE AskWhetherPaused
  <2>1. UNCHANGED <<minNetProfitPct, lossThreshold, consecutiveLossN>>
    BY <1>7 DEF AskWhetherPaused, Risk!State, Risk!config
  <2>2. QED
    BY <1>7, <2>1 DEF AskWhetherPaused, BackToSelect, Risk!Next, engine, config
<1>8. CASE PublishCircuitBreaker
  <2>1. UNCHANGED <<minNetProfitPct, lossThreshold, consecutiveLossN>>
    BY <1>8 DEF PublishCircuitBreaker, Risk!State, Risk!config
  <2>2. QED
    BY <1>8, <2>1 DEF PublishCircuitBreaker, BackToSelect, Risk!Next, engine, config
<1>9. CASE Execute
  BY <1>9 DEF Execute, risk, engine, config
<1>10. CASE ExecuteFails
  BY <1>10 DEF ExecuteFails, BackToSelect, risk, engine, config
<1>11. CASE RecordTradeResult
  <2>1. opp.kind.netPct \in NetPcts
    BY <1>11 DEF RecordTradeResult, NetPcts
  <2>2. Risk!RecordTradeResult(opp.kind.netPct)
    BY <1>11 DEF RecordTradeResult
  <2>3. Risk!Next
    BY <2>1, <2>2 DEF Risk!Next
  <2>4. UNCHANGED <<minNetProfitPct, lossThreshold, consecutiveLossN>>
    BY <2>2 DEF Risk!RecordTradeResult, Risk!config
  <2>5. QED BY <1>11, <2>3, <2>4 DEF RecordTradeResult, engine, config
<1>12. CASE Publish
  BY <1>12 DEF Publish, BackToSelect, risk, engine, config
<1>13. ASSUME NEW body \in Patches, BeginPatch(body)
       PROVE  /\ ThisTypes'
              /\ Risk!Next \/ UNCHANGED risk
  BY <1>13, LoopConstants DEF BeginPatch, risk, engine
<1>14. CASE ApplyPatchField
  <2> DEFINE a == Head(patch)
  <2>1. a \in Assignments /\ Tail(patch) \in Seq(Assignments)
    BY <1>14, PatchHead DEF ApplyPatchField
  <2>2. RouteField(a.field, a.value)
    BY <1>14 DEF ApplyPatchField
  <2>3. /\ minNetProfitPct' \in Mins
        /\ lossThreshold' \in Thresholds
        /\ consecutiveLossN' \in LossNs
        /\ Risk!Next \/ UNCHANGED risk
    <3> HIDE DEF a
    <3>1. QED BY <2>1, <2>2, RouteFacts
  <2>4. QED BY <1>14, <2>1, <2>3 DEF ApplyPatchField, engine
<1>15. CASE GetStatus
  BY <1>15 DEF GetStatus, Risk!State, Risk!Next, Risk!config, engine, config
<1>16. CASE Clock
  BY <1>16 DEF Clock, Risk!Tick, Risk!Next, Risk!config, engine, config
<1>17. CASE UNCHANGED vars
  BY <1>17 DEF vars, risk, engine, config
<1>18. QED
  BY <1>2, <1>3, <1>4, <1>5, <1>6, <1>7, <1>8, <1>9, <1>10, <1>11, <1>12,
     <1>13, <1>14, <1>15, <1>16, <1>17 DEF Next, Loop

\* The running system never uses the risk manager but through its methods:
\* the loop's three calls, the status handler's and the setters of a PATCH.
THEOREM LoopImplementsRisk == Spec => Risk!Spec
<1>1. Init => Risk!Init
  BY DEF Init
<1>2. ThisTypes /\ [Next]_vars => ThisTypes' /\ [Risk!Next]_(Risk!vars)
  BY StepOfRisk DEF risk, Risk!vars
<1>3. QED BY <1>1, <1>2, InitTypes, PTL DEF Spec, Risk!Spec

-----------------------------------------------------------------------------
(* Borrowing the invariant of RiskManagerProofs. *)

LEMMA RiskConstantsHold ==
    /\ NetPcts \subseteq Int
    /\ Positions \subseteq Int
    /\ MaxPositionUSDT \in Int
    /\ LossNs \subseteq Int
    /\ PauseDuration \in Nat
    /\ Horizon \in Nat
  BY LoopConstants DEF NetPcts, Positions, Kind

RiskInv == Risk!StateTypeOK /\ Risk!StateTellsCount

LEMMA SameInv == RiskInv <=> RiskProofs!Inv
  BY DEF RiskInv, RiskProofs!Inv, Risk!StateTypeOK, RiskProofs!StateTypeOK,
         Risk!StateTellsCount, RiskProofs!StateTellsCount

LEMMA SameStep == [Risk!Next]_(Risk!vars) => [RiskProofs!Next]_(RiskProofs!vars)
  BY Zenon DEF
        Risk!Next, RiskProofs!Next, Risk!State, RiskProofs!State, Risk!Evaluate,
        RiskProofs!Evaluate, Risk!CheckPauseExpiry, RiskProofs!CheckPauseExpiry,
        Risk!Approves, RiskProofs!Approves, Risk!CheckedState,
        RiskProofs!CheckedState, Risk!CheckedLossCount,
        RiskProofs!CheckedLossCount, Risk!PauseExpired, RiskProofs!PauseExpired,
        Risk!RecordTradeResult, RiskProofs!RecordTradeResult,
        Risk!RecordWhilePaused, RiskProofs!RecordWhilePaused, Risk!RecordGain,
        RiskProofs!RecordGain, Risk!RecordLoss, RiskProofs!RecordLoss,
        Risk!SetMinNetProfitPct, RiskProofs!SetMinNetProfitPct,
        Risk!SetLossThreshold, RiskProofs!SetLossThreshold,
        Risk!SetConsecutiveLossN, RiskProofs!SetConsecutiveLossN, Risk!Tick,
        RiskProofs!Tick, Risk!config, RiskProofs!config, Risk!breaker,
        RiskProofs!breaker, Risk!vars, RiskProofs!vars

LEMMA RiskInvHolds == Spec => []RiskInv
<1>1. Init => RiskInv
  <2>1. Init => RiskProofs!Init
    BY DEF Init, Risk!Init, RiskProofs!Init
  <2>2. QED BY <2>1, RiskProofs!InitInv, RiskConstantsHold, SameInv
<1>2. RiskInv /\ [Risk!Next]_(Risk!vars) => RiskInv'
  <2>1. RiskProofs!Inv /\ [RiskProofs!Next]_(RiskProofs!vars) => RiskProofs!Inv'
    BY RiskProofs!StepInv, RiskConstantsHold
  <2>2. RiskInv' <=> RiskProofs!Inv'
    BY DEF RiskInv, RiskProofs!Inv, Risk!StateTypeOK, RiskProofs!StateTypeOK,
           Risk!StateTellsCount, RiskProofs!StateTellsCount
  <2>3. QED BY <2>1, <2>2, SameInv, SameStep
<1>3. QED BY <1>1, <1>2, LoopImplementsRisk, PTL DEF Spec, Risk!Spec

-----------------------------------------------------------------------------
(* No trade inside a pause. *)

ApprovedIsOpen == pc = "execute" => state # "paused"

LEMMA OpenStep == ApprovedIsOpen /\ [Next]_vars => ApprovedIsOpen'
<1> SUFFICES ASSUME ApprovedIsOpen, [Next]_vars, pc' = "execute"
             PROVE  state' # "paused"
  BY DEF ApprovedIsOpen
<1> USE DEF ApprovedIsOpen
<1>1. CASE UNCHANGED vars
  BY <1>1 DEF vars, risk
<1>2. CASE Evaluate
  <2>1. Risk!Approves(opp.kind.netPct, opp.kind.position)
    BY <1>2 DEF Evaluate, EvaluateApproves, EvaluateRefuses
  <2>2. state' = Risk!CheckedState
    BY <1>2 DEF Evaluate, Risk!Evaluate, Risk!CheckPauseExpiry
  <2>3. QED BY <2>1, <2>2 DEF Risk!Approves
<1>3. CASE GetStatus
  BY <1>3 DEF GetStatus, Risk!State, Risk!CheckPauseExpiry, Risk!CheckedState,
              Risk!PauseExpired
<1>4. CASE ApplyPatchField
  <2>1. state' = state /\ pc' = pc
    BY <1>4 DEF ApplyPatchField, RouteField, Risk!SetMinNetProfitPct,
                Risk!SetConsecutiveLossN, Risk!SetLossThreshold, Risk!breaker, risk
  <2>2. QED BY <2>1
<1>5. CASE Clock
  BY <1>5 DEF Clock, Risk!Tick, Risk!breaker
<1>6. ASSUME NEW body \in Patches, BeginPatch(body)
      PROVE  state' # "paused"
  BY <1>6 DEF BeginPatch, risk
<1>7. CASE Loop /\ ~Evaluate
  <2>1. pc' = pc \/ pc' # "execute"
    BY <1>7 DEF Loop, ApplyInterval, ProcessUpdate, TickFindsNothing, DequeueTop,
                AskWhetherPaused, PublishCircuitBreaker, Execute, ExecuteFails,
                RecordTradeResult, Publish, BackToSelect
  <2>2. pc # "execute"
    BY <1>7 DEF Loop, ApplyInterval, ProcessUpdate, TickFindsNothing, DequeueTop,
                AskWhetherPaused, PublishCircuitBreaker, Execute, ExecuteFails,
                RecordTradeResult, Publish, BackToSelect
  <2>3. QED BY <2>1, <2>2
<1>8. QED BY <1>1, <1>2, <1>3, <1>4, <1>5, <1>6, <1>7 DEF Next

\* A trade is booked only in a step of Execute.
LEMMA TradeIsExecute == [Next]_vars /\ trades' # trades => pc = "execute" /\ UNCHANGED now
  BY DEF Next, Loop, vars, store, risk, ApplyInterval, ProcessUpdate,
         TickFindsNothing, DequeueTop, Evaluate, AskWhetherPaused,
         PublishCircuitBreaker, Execute, ExecuteFails, RecordTradeResult, Publish,
         BeginPatch, ApplyPatchField, GetStatus, Clock

\* No trade is booked while a pause runs (main.go:592-615 with risk.go).
THEOREM NoTradeInsidePauseHolds == Spec => NoTradeInsidePause
<1> DEFINE A == trades' # trades => now >= pauseUntil
<1>1. Init => ApprovedIsOpen
  BY DEF Init, ApprovedIsOpen
<1>2. RiskInv /\ ApprovedIsOpen /\ [Next]_vars => [A]_vars
  BY TradeIsExecute DEF RiskInv, Risk!StateTellsCount, ApprovedIsOpen
<1>3. QED BY <1>1, <1>2, OpenStep, RiskInvHolds, PTL DEF Spec, NoTradeInsidePause

-----------------------------------------------------------------------------
(* The breaker's configuration is the reported one. *)

Reported ==
    /\ DOMAIN liveCfg = Fields
    /\ liveCfg.circuitBreakerN = consecutiveLossN
    /\ liveCfg.circuitBreakerLossPct = lossThreshold

LEMMA ReportedStep == ThisTypes /\ Reported /\ [Next]_vars => Reported'
<1> SUFFICES ASSUME ThisTypes, Reported, [Next]_vars PROVE Reported'
  OBVIOUS
<1>1. CASE ApplyPatchField
  <2> DEFINE a == Head(patch)
  <2>1. a \in Assignments
    BY <1>1, PatchHead DEF ApplyPatchField, ThisTypes
  <2>2. a.field \in Fields
    BY <2>1 DEF Assignments
  <2>3. liveCfg' = [liveCfg EXCEPT ![a.field] = a.value]
    BY <1>1 DEF ApplyPatchField
  <2>4. RouteField(a.field, a.value)
    BY <1>1 DEF ApplyPatchField
  <2>5. /\ consecutiveLossN' = IF a.field = "circuitBreakerN" THEN a.value
                                ELSE consecutiveLossN
        /\ lossThreshold' = IF a.field = "circuitBreakerLossPct" THEN a.value
                             ELSE lossThreshold
    <3> HIDE DEF a
    <3>1. QED
      BY <2>2, <2>4 DEF RouteField, Fields, risk, Risk!SetMinNetProfitPct,
                        Risk!SetConsecutiveLossN, Risk!SetLossThreshold
  <2> HIDE DEF a
  <2>6. QED BY <2>2, <2>3, <2>5 DEF Reported, Fields
<1>2. CASE ~ApplyPatchField
  <2>1. UNCHANGED liveCfg
    BY <1>2 DEF Next, Loop, vars, config, ApplyInterval, ProcessUpdate,
       TickFindsNothing, DequeueTop, Evaluate, AskWhetherPaused,
       PublishCircuitBreaker, Execute, ExecuteFails, RecordTradeResult, Publish,
       BeginPatch, GetStatus, Clock
  <2>2. UNCHANGED <<consecutiveLossN, lossThreshold>>
    BY <1>2 DEF Next, Loop, vars, risk, ApplyInterval, ProcessUpdate,
       TickFindsNothing, DequeueTop, Evaluate, AskWhetherPaused,
       PublishCircuitBreaker, Execute, ExecuteFails, RecordTradeResult, Publish,
       BeginPatch, GetStatus, Clock, Risk!Evaluate, Risk!State,
       Risk!RecordTradeResult, Risk!Tick, Risk!config
  <2>3. QED BY <2>1, <2>2 DEF Reported
<1>3. QED BY <1>1, <1>2

LEMMA TypesHold == Spec => []ThisTypes
<1>1. ThisTypes /\ [Next]_vars => ThisTypes'
  BY StepOfRisk
<1>2. QED BY <1>1, InitTypes, PTL DEF Spec

\* PATCH leaves the breaker working with the values it reports (main.go:265-352).
THEOREM BreakerConfigLiveHolds == Spec => []BreakerConfigLive
<1>1. Init => Reported
  BY DEF Init, Reported, Fields
<1>2. Reported => BreakerConfigLive
  BY DEF Reported, BreakerConfigLive
<1>3. QED BY <1>1, <1>2, ReportedStep, TypesHold, PTL DEF Spec

-----------------------------------------------------------------------------
(* The events are the trades. *)

TradeRecord == [id : Nat, net : Int]

\* What is needed of the types, and where the loop is once a trade is made.
EventTypes ==
    /\ detected \in Nat
    /\ \A o \in pending : o.id \in Nat
    /\ pc # "select" => opp.id \in Nat
    /\ trades \in Seq(TradeRecord)

EventInv ==
    /\ EventsFollowTrades
    /\ pc \in {"record", "publish"} => trades # <<>>

LEMMA EventTypesStep ==
    ThisTypes /\ EventTypes /\ [Next]_vars => EventTypes'
<1> SUFFICES ASSUME ThisTypes, EventTypes, [Next]_vars PROVE EventTypes'
  OBVIOUS
<1> USE DEF EventTypes
<1>1. CASE Execute
  <2>1. Realised \subseteq Int
    BY <1>1, LoopConstants DEF Execute, Realised, ThisTypes, Kind
  <2>2. PICK net \in Realised : trades' = Append(trades, [id |-> opp.id, net |-> net])
    BY <1>1 DEF Execute
  <2>3. [id |-> opp.id, net |-> net] \in TradeRecord
    BY <1>1, <2>1, <2>2 DEF Execute, TradeRecord
  <2>4. trades' \in Seq(TradeRecord)
    BY <2>2, <2>3, AppendProperties
  <2>5. QED BY <1>1, <2>4 DEF Execute, engine
<1>2. ASSUME NEW kind \in Kinds, ProcessUpdate(kind) PROVE EventTypes'
  BY <1>2 DEF ProcessUpdate, store
<1>3. CASE TickFindsNothing
  BY <1>3 DEF TickFindsNothing, Queue!FindNothing, store
<1>4. CASE DequeueTop
  BY <1>4 DEF DequeueTop, Queue!Fresh, Queue!HandOut, store
<1>5. CASE UNCHANGED <<engine, trades>> /\ (pc' = pc \/ pc # "select") /\ opp' = opp
  BY <1>5 DEF engine
<1>6. CASE UNCHANGED <<engine, trades>> /\ pc' = "select"
  BY <1>6 DEF engine
<1>7. QED
  BY <1>1, <1>2, <1>3, <1>4, <1>5, <1>6 DEF Next, Loop, vars, store, engine,
     ApplyInterval, Evaluate, AskWhetherPaused, PublishCircuitBreaker, ExecuteFails,
     RecordTradeResult, Publish, BackToSelect, BeginPatch, ApplyPatchField,
     GetStatus, Clock, EvaluateApproves, EvaluateRefuses

\* Appending leaves the trades there were in front, and cannot be empty.
LEMMA FrontOfAppend ==
    ASSUME NEW S, NEW s \in Seq(S), NEW e \in S
    PROVE  Front(Append(s, e)) = s /\ Append(s, e) # <<>>
  BY DEF Front

\* Taking the last away and appending it again restores a sequence.
LEMMA FrontAndLast ==
    ASSUME NEW S, NEW s \in Seq(S), s # <<>>
    PROVE  Append(Front(s), Last(s)) = s
  BY DEF Front, Last

LEMMA EventStep ==
    ThisTypes /\ EventTypes /\ EventTypes' /\ EventInv /\ [Next]_vars => EventInv'
<1> SUFFICES ASSUME ThisTypes, EventTypes, EventTypes', EventInv, [Next]_vars
             PROVE  EventInv'
  OBVIOUS
<1> USE DEF EventInv, EventsFollowTrades
<1>1. CASE Execute
  <2>1. PICK net \in Realised : trades' = Append(trades, [id |-> opp.id, net |-> net])
    BY <1>1 DEF Execute
  <2>2. [id |-> opp.id, net |-> net] \in TradeRecord
    <3>1. Realised \subseteq Int
      BY <1>1, LoopConstants DEF Execute, Realised, ThisTypes, Kind
    <3>2. QED BY <1>1, <3>1 DEF Execute, EventTypes, TradeRecord
  <2>3. Front(trades') = trades /\ trades' # <<>>
    BY <2>1, <2>2, FrontOfAppend DEF EventTypes
  <2>4. QED BY <1>1, <2>3 DEF Execute, events
<1>2. CASE Publish
  <2>1. tradeEvents' = Append(Front(trades), Last(trades))
    BY <1>2 DEF Publish
  <2>2. tradeEvents' = trades
    BY <1>2, <2>1, FrontAndLast DEF Publish, EventTypes
  <2>3. QED BY <1>2, <2>2 DEF Publish, BackToSelect, store
<1>3. CASE /\ UNCHANGED <<trades, tradeEvents>>
           /\ (pc \in {"record", "publish"}) <=> (pc' \in {"record", "publish"})
  BY <1>3
<1>4. QED
  BY <1>1, <1>2, <1>3 DEF Next, Loop, vars, store, events, ApplyInterval,
     ProcessUpdate, TickFindsNothing, DequeueTop, Evaluate, AskWhetherPaused,
     PublishCircuitBreaker, ExecuteFails, RecordTradeResult, BackToSelect,
     BeginPatch, ApplyPatchField, GetStatus, Clock, EvaluateApproves,
     EvaluateRefuses

\* The trade_executed events are the trades in order, although Publish reads
\* the trade back as the last of AllTrades (main.go:601-626).
THEOREM EventsFollowTradesHolds == Spec => []EventsFollowTrades
<1>1. Init => EventTypes /\ EventInv
  BY DEF Init, EventTypes, EventInv, EventsFollowTrades
<1>2. EventInv => EventsFollowTrades
  BY DEF EventInv
<1>3. QED BY <1>1, <1>2, EventTypesStep, EventStep, TypesHold, PTL DEF Spec

-----------------------------------------------------------------------------
(* One trade for each opportunity executed. *)

\* An opportunity has one identifier, which is nowhere in the store while it
\* waits in the queue or is being decided on, and the trades of the store are
\* those of the identifiers marked executed, one each.
DecidedOnce ==
    /\ \A o \in pending : o.id \in 1 .. detected /\ o.id \notin DOMAIN status
    /\ \A o, other \in pending : o.id = other.id => o = other
    /\ pc # "select" => /\ opp.id \in 1 .. detected
                        /\ \A o \in pending : o.id # opp.id
    /\ pc \in {"evaluate", "execute"} => opp.id \notin DOMAIN status
    /\ DOMAIN status \subseteq 1 .. detected

TradedOnce ==
    /\ \A i \in DOMAIN trades : /\ trades[i].id \in DOMAIN status
                                /\ status[trades[i].id] = "executed"
    /\ \A id \in DOMAIN status :
         status[id] = "executed" => \E i \in DOMAIN trades : trades[i].id = id
    /\ \A i, j \in DOMAIN trades : trades[i].id = trades[j].id => i = j

\* Saving the status of an opportunity marks that one and no other.
LEMMA SaveMarks ==
    ASSUME NEW id, NEW s, Save(id, s)
    PROVE  /\ DOMAIN status' = DOMAIN status \cup {id}
           /\ status'[id] = s
           /\ \A i \in DOMAIN status : i # id => status'[i] = status[i]
  BY DEF Save

\* Deciding on the opportunity in hand without a trade.
LEMMA SavedWithoutTrade ==
    ASSUME EventTypes, DecidedOnce, TradedOnce,
           pc \in {"evaluate", "execute"}, pc' \notin {"evaluate", "execute"},
           NEW s, s # "executed", Save(opp.id, s),
           pc' = "select" \/ opp' = opp,
           UNCHANGED <<pending, detected, trades>>
    PROVE  DecidedOnce' /\ TradedOnce'
<1>1. /\ DOMAIN status' = DOMAIN status \cup {opp.id}
      /\ status'[opp.id] = s
      /\ \A i \in DOMAIN status : i # opp.id => status'[i] = status[i]
      /\ opp.id \notin DOMAIN status
  BY SaveMarks DEF DecidedOnce
<1>2. DecidedOnce'
  BY <1>1 DEF DecidedOnce
<1>3. TradedOnce'
  BY <1>1 DEF TradedOnce
<1> QED  BY <1>2, <1>3

LEMMA ExecuteOnce ==
    ASSUME ThisTypes, EventTypes, DecidedOnce, TradedOnce, Execute
    PROVE  DecidedOnce' /\ TradedOnce'
<1>1. /\ pc = "execute" /\ pc' = "record"
      /\ opp' = opp /\ pending' = pending /\ detected' = detected
      /\ opp.id \notin DOMAIN status
  BY DEF Execute, engine, DecidedOnce
<1>2. /\ DOMAIN status' = DOMAIN status \cup {opp.id}
      /\ status'[opp.id] = "executed"
      /\ \A i \in DOMAIN status : i # opp.id => status'[i] = status[i]
  BY SaveMarks DEF Execute
<1>3. PICK net \in Realised : trades' = Append(trades, [id |-> opp.id, net |-> net])
  BY DEF Execute
<1>4. /\ Len(trades) \in Nat
      /\ DOMAIN trades = 1 .. Len(trades)
      /\ DOMAIN trades' = 1 .. Len(trades) + 1
      /\ \A i \in DOMAIN trades : trades'[i] = trades[i]
      /\ trades'[Len(trades) + 1].id = opp.id
  BY <1>3 DEF EventTypes
<1>5. DecidedOnce'
  BY <1>1, <1>2 DEF DecidedOnce
<1>6. /\ \A i \in DOMAIN trades : /\ trades'[i].id # opp.id
                                  /\ trades'[i].id \in DOMAIN status
                                  /\ status[trades'[i].id] = "executed"
      /\ \A i \in DOMAIN trades' : i \in DOMAIN trades \/ i = Len(trades) + 1
  BY <1>1, <1>4 DEF TradedOnce
<1>7. TradedOnce'
  <2>1. \A i \in DOMAIN trades' : /\ trades'[i].id \in DOMAIN status'
                                  /\ status'[trades'[i].id] = "executed"
    BY <1>2, <1>4, <1>6
  <2>2. \A id \in DOMAIN status' :
          status'[id] = "executed" => \E i \in DOMAIN trades' : trades'[i].id = id
    BY <1>2, <1>4 DEF TradedOnce
  <2>3. \A i, j \in DOMAIN trades' : trades'[i].id = trades'[j].id => i = j
    BY <1>4, <1>6 DEF TradedOnce
  <2> QED  BY <2>1, <2>2, <2>3 DEF TradedOnce
<1> QED  BY <1>5, <1>7

LEMMA OnceStep ==
    ASSUME ThisTypes, EventTypes, DecidedOnce, TradedOnce, [Next]_vars
    PROVE  DecidedOnce' /\ TradedOnce'
<1>1. CASE Execute
  BY <1>1, ExecuteOnce
<1>2. CASE Evaluate /\ EvaluateRefuses
  BY <1>2, SavedWithoutTrade DEF Evaluate, EvaluateRefuses, engine
<1>3. CASE ExecuteFails
  BY <1>3, SavedWithoutTrade DEF ExecuteFails, BackToSelect, engine
<1>4. ASSUME NEW kind \in Kinds, ProcessUpdate(kind) PROVE DecidedOnce' /\ TradedOnce'
  BY <1>4 DEF ProcessUpdate, store, EventTypes, DecidedOnce, TradedOnce
<1>5. CASE TickFindsNothing
  BY <1>5 DEF TickFindsNothing, Queue!FindNothing, store, DecidedOnce, TradedOnce
<1>6. CASE DequeueTop
  <2>1. PICK best \in pending : Queue!HandOut(best)
    BY <1>6 DEF DequeueTop, Queue!Fresh
  <2>2. opp' = best /\ best \notin pending' /\ pending' \subseteq pending
    BY <2>1 DEF Queue!HandOut
  <2>3. pc' = "evaluate" /\ detected' = detected /\ status' = status /\ trades' = trades
    BY <1>6 DEF DequeueTop, store
  <2> QED  BY <2>2, <2>3 DEF DecidedOnce, TradedOnce
<1>7. ASSUME UNCHANGED <<engine, store>>,
             pc' \in {"evaluate", "execute"} => pc' = pc \/ pc = "evaluate",
             pc' = "select" \/ (pc # "select" /\ opp' = opp)
                            \/ (pc' = pc /\ opp' = opp)
      PROVE  DecidedOnce' /\ TradedOnce'
  BY <1>7 DEF engine, store, DecidedOnce, TradedOnce
<1>8. CASE Evaluate /\ EvaluateApproves
  BY <1>7, <1>8 DEF Evaluate, EvaluateApproves, engine, store
<1>9. CASE ApplyInterval \/ AskWhetherPaused \/ PublishCircuitBreaker
              \/ RecordTradeResult \/ Publish
  <2>1. CASE ApplyInterval  BY <1>7, <2>1 DEF ApplyInterval
  <2>2. CASE AskWhetherPaused  BY <1>7, <2>2 DEF AskWhetherPaused, BackToSelect
  <2>3. CASE PublishCircuitBreaker  BY <1>7, <2>3 DEF PublishCircuitBreaker, BackToSelect
  <2>4. CASE RecordTradeResult  BY <1>7, <2>4 DEF RecordTradeResult
  <2>5. CASE Publish  BY <1>7, <2>5 DEF Publish, BackToSelect
  <2> QED  BY <1>9, <2>1, <2>2, <2>3, <2>4, <2>5
<1>10. CASE UNCHANGED <<engine, store, pc, opp>>
  BY <1>7, <1>10
<1>11. CASE ApplyPatchField \/ GetStatus \/ Clock \/ \E body \in Patches : BeginPatch(body)
  BY <1>10, <1>11 DEF ApplyPatchField, GetStatus, Clock, BeginPatch
<1> QED
  BY <1>1, <1>2, <1>3, <1>4, <1>5, <1>6, <1>8, <1>9, <1>10, <1>11
     DEF Next, Loop, Evaluate, vars

\* What DecidedOnce and TradedOnce say of identifiers, in numbers of trades.
LEMMA OnceCounted == TradedOnce => OneTradePerExecuted
<1> SUFFICES ASSUME TradedOnce, NEW id \in DOMAIN status
             PROVE  Cardinality({i \in DOMAIN trades : trades[i].id = id})
                      = IF status[id] = "executed" THEN 1 ELSE 0
  BY DEF OneTradePerExecuted
<1> DEFINE of == {i \in DOMAIN trades : trades[i].id = id}
<1>1. CASE status[id] = "executed"
  <2>1. PICK i \in DOMAIN trades : trades[i].id = id
    BY <1>1 DEF TradedOnce
  <2>2. of = {i}
    BY <2>1 DEF TradedOnce
  <2> QED  BY <1>1, <2>2, FS_Singleton
<1>2. CASE status[id] # "executed"
  <2>1. of = {}
    BY <1>2 DEF TradedOnce
  <2> QED  BY <1>2, <2>1, FS_EmptySet
<1> QED  BY <1>1, <1>2

\* An opportunity is executed once, with one trade, or not at all: for any
\* opportunities, and whatever is patched, refused or fails on the way
\* (main.go:585-626).
THEOREM OneTradePerExecutedHolds == Spec => []OneTradePerExecuted
<1>1. Init => EventTypes /\ DecidedOnce /\ TradedOnce
  BY DEF Init, EventTypes, DecidedOnce, TradedOnce
<1>2. ThisTypes /\ EventTypes /\ DecidedOnce /\ TradedOnce /\ [Next]_vars
        => DecidedOnce' /\ TradedOnce'
  BY OnceStep
<1> QED  BY <1>1, <1>2, EventTypesStep, OnceCounted, TypesHold, PTL DEF Spec

-----------------------------------------------------------------------------
(* A breaker that cannot trip. *)

\* An opportunity on its way to the breaker met some minimum.
Untripped ==
    /\ BreakerNeverTrips
    /\ pc \in {"execute", "record"} => \E m \in Mins : opp.kind.netPct >= m

LEMMA UntrippedStep ==
    ASSUME \A t \in Thresholds, m \in Mins : t <= m,
           ThisTypes, Untripped, [Next]_vars
    PROVE  Untripped'
<1> USE DEF Untripped, BreakerNeverTrips
<1>1. Risk!CheckedState = "active" /\ Risk!CheckedLossCount = 0
  BY DEF Risk!CheckedState, Risk!CheckedLossCount, Risk!PauseExpired
<1>2. ASSUME UNCHANGED <<state, lossCount, opp>>,
             pc' = pc \/ pc' \notin {"execute", "record"}
      PROVE  Untripped'
  BY <1>2
<1>3. CASE UNCHANGED vars
  BY <1>3 DEF vars, risk
<1>4. CASE Evaluate
  <2>1. Risk!Evaluate(opp.kind.netPct, opp.kind.position)
    BY <1>4 DEF Evaluate
  <2>2. state' = "active" /\ lossCount' = 0
    BY <1>1, <2>1 DEF Risk!Evaluate, Risk!CheckPauseExpiry
  <2>3. pc' \in {"execute", "record"} => opp.kind.netPct >= minNetProfitPct
    BY <1>4 DEF Evaluate, EvaluateApproves, EvaluateRefuses, Risk!Approves
  <2>4. opp' = opp /\ minNetProfitPct \in Mins
    BY <1>4 DEF Evaluate, ThisTypes
  <2>5. QED BY <2>2, <2>3, <2>4
<1>5. CASE Execute
  BY <1>5 DEF Execute, risk
<1>6. CASE RecordTradeResult
  <2> DEFINE p == opp.kind.netPct
  <2>1. PICK m \in Mins : p >= m
    BY <1>6 DEF RecordTradeResult
  <2>2. p \in Int /\ m \in Int /\ lossThreshold \in Int /\ lossThreshold <= m
    BY <1>6, LoopConstants DEF RecordTradeResult, ThisTypes, Kind
  <2>3. p >= lossThreshold
    <3> HIDE DEF p
    <3>1. QED BY <2>1, <2>2
  <2>4. Risk!RecordGain(p)
    BY <1>1, <1>6, <2>2, <2>3 DEF RecordTradeResult, Risk!RecordTradeResult,
       Risk!RecordWhilePaused, Risk!RecordLoss
  <2>5. state' = "active" /\ lossCount' = 0
    BY <2>4 DEF Risk!RecordGain
  <2>6. QED BY <1>6, <2>5 DEF RecordTradeResult
<1>7. CASE AskWhetherPaused \/ PublishCircuitBreaker
  BY <1>1, <1>7 DEF AskWhetherPaused, PublishCircuitBreaker, BackToSelect,
     Risk!State, Risk!CheckPauseExpiry
<1>8. CASE GetStatus
  BY <1>1, <1>8 DEF GetStatus, Risk!State, Risk!CheckPauseExpiry
<1>9. CASE Clock
  BY <1>9 DEF Clock, Risk!Tick, Risk!breaker
<1>10. CASE ApplyPatchField
  <2>1. UNCHANGED <<state, lossCount, opp, pc>>
    BY <1>10 DEF ApplyPatchField, RouteField, Risk!SetMinNetProfitPct,
       Risk!SetConsecutiveLossN, Risk!SetLossThreshold, Risk!breaker, risk
  <2>2. QED BY <2>1
<1>11. ASSUME NEW body \in Patches, BeginPatch(body)
       PROVE  Untripped'
  BY <1>11 DEF BeginPatch, risk
<1>12. CASE ApplyInterval \/ \E kind \in Kinds : ProcessUpdate(kind)
  BY <1>12 DEF ApplyInterval, ProcessUpdate, risk
<1>13. CASE TickFindsNothing \/ DequeueTop
  BY <1>13 DEF TickFindsNothing, DequeueTop, risk
<1>14. CASE ExecuteFails \/ Publish
  BY <1>14 DEF ExecuteFails, Publish, BackToSelect, risk
<1>15. QED
  BY <1>3, <1>4, <1>5, <1>6, <1>7, <1>8, <1>9, <1>10, <1>11, <1>12, <1>13, <1>14
     DEF Next, Loop

\* With every loss threshold at or below every minimum profit, no run of
\* trades trips the breaker, however they end: what the loop records is the
\* estimate Evaluate has just compared with the minimum (main.go:592-619).
THEOREM BreakerCannotTrip ==
    ASSUME \A t \in Thresholds, m \in Mins : t <= m
    PROVE  Spec => []BreakerNeverTrips
<1>1. Init => Untripped
  BY DEF Init, Risk!Init, Untripped, BreakerNeverTrips
<1>2. ThisTypes /\ Untripped /\ [Next]_vars => Untripped'
  BY UntrippedStep
<1>3. Untripped => BreakerNeverTrips
  BY DEF Untripped
<1>4. QED BY <1>1, <1>2, <1>3, TypesHold, PTL DEF Spec

=============================================================================
