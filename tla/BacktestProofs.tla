---------------------------- MODULE BacktestProofs ----------------------------
(***************************************************************************)
(* For any number of requests, frames, trades and restarts: the runner's   *)
(* lock admits one replay, and its status is the truth about it; the       *)
(* ledger continues; a stored result is of its whole window, and its       *)
(* metrics are the textbook ones of the trades the replay booked.          *)
(***************************************************************************)
EXTENDS Backtest, TLAPS, FiniteSetTheorems, FunctionTheorems, WellFoundedInduction

\* What StatusTellsTruth needs to be inductive: which functions there are, whom
\* a status that is not idle may name, and that a run starts from nothing.
Ahead == {"new", "building", "starting", "frames", "rates"}

StatusInv ==
    /\ stage \in [Requests -> Stages]
    /\ DOMAIN replay = Requests
    /\ mu \in Requests \cup {Nothing}
    /\ status.state # "idle" => status.run \in Requests
    /\ \A r \in Requests : stage[r] \in Ahead => replay[r].done = 0
    /\ StatusTellsTruth

LEMMA InitStatus == Init => StatusInv
  BY BacktestConstants
  DEF Init, StatusInv, StatusTellsTruth, Stages, Ahead, Working, Locked, Idle, Empty

\* A request that is not running comes closer to it, or gives up.
LEMMA StageOnly ==
  ASSUME StatusInv, NEW r \in Requests,
         NEW s \in {"building", "starting", "refused"},
         stage[r] \in {"new", "building", "starting"},
         GoTo(r, s), UNCHANGED <<replay, mu, status>>
  PROVE  StatusInv'
  BY BacktestConstants
  DEF StatusInv, StatusTellsTruth, GoTo, Stages, Ahead, Working, Locked

LEMMA StartStatus ==
  ASSUME StatusInv, NEW r \in Requests, Start(r)
  PROVE  StatusInv'
<1>1. CASE mu = Nothing /\ mu' = r /\ status' = Running(r, 0) /\ GoTo(r, "frames")
  <2>1. replay' = replay /\ stage[r] = "starting"  BY DEF Start
  <2> QED  BY <1>1, <2>1, BacktestConstants
           DEF StatusInv, StatusTellsTruth, Running, GoTo, Stages, Ahead, Working, Locked
<1>2. CASE GoTo(r, "refused") /\ UNCHANGED <<mu, status>>
  BY <1>2, StageOnly DEF Start
<1> QED  BY <1>1, <1>2 DEF Start, StartAsync

LEMMA AnswerStatus ==
  ASSUME StatusInv, NEW r \in Requests, Answer(r)
  PROVE  StatusInv'
<1> USE DEF Answer
<1>1. CASE stage[r] = "building" /\ GoTo(r, "starting") /\ UNCHANGED replay
  BY <1>1, StageOnly
<1>2. CASE /\ stage[r] = "frames" /\ GoTo(r, "rates")
           /\ \E s \in QueryFrames(spec[r].from, spec[r].to) :
                replay' = [replay EXCEPT ![r].frames = s]
  <2>1. /\ DOMAIN replay' = Requests
        /\ \A x \in Requests : replay'[x].done = replay[x].done
    BY <1>2 DEF StatusInv
  <2> QED  BY <1>2, <2>1, BacktestConstants
           DEF StatusInv, StatusTellsTruth, Running, GoTo, Stages, Ahead, Working, Locked
<1>3. CASE stage[r] = "rates" /\ GoTo(r, "replay") /\ UNCHANGED replay
  BY <1>3, BacktestConstants
  DEF StatusInv, StatusTellsTruth, Running, GoTo, Stages, Ahead, Working, Locked
<1>4. CASE stage[r] \in {"frames", "rates"} /\ GoTo(r, "failed") /\ UNCHANGED replay
  BY <1>4, BacktestConstants
  DEF StatusInv, StatusTellsTruth, Running, GoTo, Stages, Ahead, Working, Locked
<1> QED  BY <1>1, <1>2, <1>3, <1>4 DEF Querying

\* The rest of the goroutine.
LEMMA ReplayFrameStatus ==
  ASSUME StatusInv, NEW r \in Requests, ReplayFrame(r)
  PROVE  StatusInv'
<1>1. PICK found : replay' = [replay EXCEPT ![r] =
                      [frames |-> replay[r].frames, done |-> replay[r].done + 1,
                       trades |-> replay[r].trades \o found]]
  BY DEF ReplayFrame
<1>2. /\ DOMAIN replay' = Requests
      /\ replay'[r].done = replay[r].done + 1
      /\ \A x \in Requests \ {r} : replay'[x] = replay[x]
  BY <1>1 DEF StatusInv
<1>3. /\ status' = Running(r, replay[r].done + 1)
      /\ stage[r] = "replay" /\ stage' = stage /\ mu' = mu
  BY DEF ReplayFrame
<1> QED  BY <1>2, <1>3, BacktestConstants
         DEF StatusInv, StatusTellsTruth, Running, Stages, Ahead, Working, Locked

LEMMA EndStatus ==
  ASSUME StatusInv, NEW r \in Requests,
         Finish(r) \/ SendResult(r) \/ GoIdle(r) \/ Unlock(r)
  PROVE  StatusInv'
<1> USE BacktestConstants
    DEF StatusInv, StatusTellsTruth, GoTo, Stages, Ahead, Working, Locked
<1>1. CASE Finish(r)  BY <1>1 DEF Finish
<1>2. CASE SendResult(r)  BY <1>2 DEF SendResult
<1>3. CASE GoIdle(r)  BY <1>3 DEF GoIdle, Idle
<1>4. CASE Unlock(r)  BY <1>4 DEF Unlock
<1> QED  BY <1>1, <1>2, <1>3, <1>4

\* A restart forgets the lock together with who held it.
LEMMA RestartStatus ==
  ASSUME StatusInv, Restart
  PROVE  StatusInv'
<1>1. /\ mu' = Nothing /\ status' = Idle /\ replay' = replay
      /\ stage' = [r \in Requests |-> IF stage[r] = "new" THEN "new" ELSE "killed"]
  BY DEF Restart
<1> QED  BY <1>1, BacktestConstants
         DEF StatusInv, StatusTellsTruth, Idle, Stages, Ahead, Working, Locked

LEMMA NextStatus == StatusInv /\ [Next]_vars => StatusInv'
<1> SUFFICES ASSUME StatusInv, [Next]_vars PROVE StatusInv'
  OBVIOUS
<1>1. CASE UNCHANGED <<stage, replay, mu, status>>
  BY <1>1 DEF StatusInv, StatusTellsTruth
<1>2. ASSUME NEW r \in Requests, Submit(r) PROVE StatusInv'
  BY <1>2, StageOnly DEF Submit
<1>3. ASSUME NEW r \in Requests, Start(r) PROVE StatusInv'
  BY <1>3, StartStatus
<1>4. ASSUME NEW r \in Requests, Query(r) \/ Persister(r) PROVE StatusInv'
  BY <1>1, <1>4 DEF Query, Persister, SpawnPersister, Persist, btVars, runner
<1>5. ASSUME NEW r \in Requests, Goroutine(r) PROVE StatusInv'
  BY <1>5, AnswerStatus, ReplayFrameStatus, EndStatus DEF Goroutine
<1>6. CASE Live \/ Ledger
  BY <1>1, <1>6 DEF Live, Ledger, btVars, runner
<1>7. CASE Restart
  BY <1>7, RestartStatus
<1>8. CASE UNCHANGED vars
  BY <1>1, <1>8 DEF vars, btVars, runner
<1> QED  BY <1>2, <1>3, <1>4, <1>5, <1>6, <1>7, <1>8 DEF Next

\* The status the API serves is that of the one run that holds the lock, for
\* any number of requests (runner.go:79-97).
THEOREM StatusHolds == Spec => []StatusTellsTruth
<1>1. StatusInv => StatusTellsTruth  BY DEF StatusInv
<1> QED  BY <1>1, InitStatus, NextStatus, PTL DEF Spec
-----------------------------------------------------------------------------
(* Numbers and sequences. *)

LEMMA LeastNumber ==
  ASSUME NEW S \in SUBSET Nat, S # {}
  PROVE  \E x \in S : \A y \in S : x <= y
<1>1. PICK R : IsWellFoundedOn(R, Nat) /\ \A x, y \in Nat : <<y, x>> \in R <=> y < x
  <2>1. \A x, y \in Nat : <<y, x>> \in OpToRel(<, Nat) <=> y < x
    BY DEF OpToRel
  <2> QED  BY <2>1, NatLessThanWellFounded
<1>2. PICK x \in S : \A y \in S : ~(<<y, x>> \in R)
  BY <1>1, WFMin
<1>3. ASSUME NEW y \in S PROVE x <= y
  <2>1. x \in Nat /\ y \in Nat /\ ~(<<y, x>> \in R)
    BY <1>2
  <2>2. ~(y < x)
    BY <1>1, <2>1
  <2> QED  BY <2>1, <2>2
<1> QED  BY <1>3

LEMMA MaxOfNumbers ==
  ASSUME NEW S \in SUBSET Nat, S # {}, NEW b \in Nat, \A x \in S : x <= b
  PROVE  Max(S) \in S /\ \A y \in S : y <= Max(S)
<1> DEFINE U == {n \in Nat : \A x \in S : x <= n}
<1>1. PICK m \in U : \A y \in U : m <= y
  <2>1. b \in U /\ U \in SUBSET Nat
    OBVIOUS
  <2> HIDE DEF U
  <2> QED  BY <2>1, LeastNumber
<1>2. m \in S
  <2> SUFFICES ASSUME m \notin S PROVE FALSE
    OBVIOUS
  <2>1. PICK z \in S : TRUE
    OBVIOUS
  <2>2. \A x \in S : x < m /\ x \in Nat /\ m \in Nat
    BY <1>1
  <2>3. m - 1 \in U
    BY <2>1, <2>2
  <2> QED  BY <1>1, <2>3
<1>3. \A y \in S : m >= y
  BY <1>1
<1>4. Max(S) \in S /\ \A y \in S : Max(S) >= y
  BY <1>2, <1>3 DEF Max
<1> QED  BY <1>4

\* The sequences of a set's elements, each once, have them all.
LEMMA Enumerates ==
  ASSUME NEW S, IsFiniteSet(S), NEW s \in SetToSeqs(S)
  PROVE  /\ s \in Seq(S) /\ Len(s) = Cardinality(S)
         /\ ToSet(s) = S /\ IsInjective(s)
<1> DEFINE D == 1 .. Cardinality(S)
<1>1. Cardinality(S) \in Nat
  BY FS_CardinalityType
<1>2. s \in [D -> S] /\ \A i, j \in D : i # j => s[i] # s[j]
  BY Zenon DEF SetToSeqs
<1>3. IsFiniteSet(D) /\ Cardinality(D) = Cardinality(S)
  BY <1>1, FS_Interval
<1>4. s \in Injection(D, S)
  BY <1>2 DEF Injection, IsInjective
<1>5. s \in Surjection(D, S)
  <2> HIDE DEF D
  <2> QED  BY <1>3, <1>4, FS_Injection
<1>6. ToSet(s) = S
  <2>1. \A x \in S : \E i \in D : s[i] = x
    BY <1>5 DEF Surjection
  <2> QED  BY <1>2, <2>1 DEF ToSet
<1>7. s \in Seq(S) /\ Len(s) = Cardinality(S)
  BY <1>1, <1>2
<1> QED  BY <1>4, <1>6, <1>7 DEF Injection

-----------------------------------------------------------------------------
(* The ledger. *)

LedgerInv ==
    /\ second \in 1 .. MaxSeconds
    /\ trades \in Seq(1 .. MaxTrades) /\ IsInjective(trades)
    /\ Saved \subseteq 1 .. MaxTrades /\ \A t \in Saved : table[t] \in 1 .. second
    /\ unsaved \subseteq 1 .. MaxTrades
    /\ open \in BOOLEAN /\ loaded \in BOOLEAN
    /\ LedgerAfterRestart

LEMMA InitLedger == Init => LedgerInv
<1> SUFFICES ASSUME Init PROVE LedgerInv
  OBVIOUS
<1>1. /\ second = 1 /\ trades = <<>> /\ table = <<>> /\ unsaved = {}
      /\ open \in BOOLEAN /\ loaded = open
  BY DEF Init, StoreInit
<1>2. Saved = {} /\ ToSet(trades) = {} /\ DOMAIN trades = {}
  BY <1>1 DEF Saved, ToSet
<1>3. 1 \in 1 .. MaxSeconds /\ trades \in Seq(1 .. MaxTrades)
  BY <1>1, StoreConstants
<1> QED  BY <1>1, <1>2, <1>3 DEF LedgerInv, LedgerAfterRestart, IsInjective

LEMMA LedgerTypes ==
  ASSUME LedgerInv
  PROVE  /\ second \in 1 .. MaxSeconds /\ MaxSeconds \in Nat
         /\ Saved \subseteq 1 .. MaxTrades /\ MaxTrades \in Nat
         /\ unsaved \subseteq 1 .. MaxTrades /\ ToSet(trades) \subseteq 1 .. MaxTrades
         /\ \A t \in Saved : table[t] \in 1 .. second
         /\ second \in Nat /\ \A t \in Saved : table[t] \in Nat /\ table[t] <= second
<1>1. /\ second \in 1 .. MaxSeconds /\ Saved \subseteq 1 .. MaxTrades
      /\ unsaved \subseteq 1 .. MaxTrades /\ trades \in Seq(1 .. MaxTrades)
      /\ \A t \in Saved : table[t] \in 1 .. second
  BY Zenon DEF LedgerInv
<1>2. ToSet(trades) \subseteq 1 .. MaxTrades
  <2>1. \A i \in DOMAIN trades : trades[i] \in 1 .. MaxTrades
    BY <1>1, StoreConstants
  <2> QED  BY <2>1, Zenon DEF ToSet
<1> QED  BY <1>1, <1>2, StoreConstants

\* A trade gets a number above all those before it.
LEMMA FreshTrade ==
  ASSUME LedgerInv
  PROVE  LastTrade \in Nat /\ LastTrade + 1 \notin Saved \cup ToSet(trades)
<1> DEFINE S == Saved \cup ToSet(trades) \cup {0}
<1>1. MaxTrades \in Nat /\ Saved \subseteq 1 .. MaxTrades /\ ToSet(trades) \subseteq 1 .. MaxTrades
  BY LedgerTypes
<1>2. S \in SUBSET Nat /\ S # {} /\ \A x \in S : x <= MaxTrades
  <2>1. \A x \in S : x = 0 \/ x \in 1 .. MaxTrades
    BY <1>1, Zenon
  <2>2. 0 \in S
    OBVIOUS
  <2> HIDE DEF S
  <2>3. \A x \in S : x \in Nat /\ x <= MaxTrades
    BY <1>1, <2>1
  <2> QED  BY <2>2, <2>3
<1>3. Max(S) \in S /\ \A y \in S : y <= Max(S)
  <2> HIDE DEF S
  <2> QED  BY <1>1, <1>2, MaxOfNumbers, Zenon
<1>4. LastTrade = Max(S)
  BY DEF LastTrade
<1>5. PICK m : m = Max(S)
  OBVIOUS
<1>6. m \in S /\ \A y \in S : y <= m
  BY <1>3, <1>5, Zenon
<1>7. m \in Nat /\ m + 1 \notin S
  BY <1>2, <1>6
<1> QED  BY <1>4, <1>5, <1>7

LEMMA SaveTradeLedger ==
  ASSUME LedgerInv, SaveTrade
  PROVE  LedgerInv'
<1> DEFINE id == LastTrade + 1
<1>1. id \in 1 .. MaxTrades /\ id \notin Saved /\ id \notin ToSet(trades)
  BY FreshTrade, StoreConstants DEF SaveTrade
<1> HIDE DEF id
<1>2. /\ trades' = Append(trades, id)
      /\ UNCHANGED <<second, open, loaded>>
      /\ \/ /\ table' = [t \in Saved \cup {id} |-> IF t = id THEN second ELSE table[t]]
            /\ unsaved' = unsaved
         \/ table' = table /\ unsaved' = unsaved \cup {id}
  BY DEF SaveTrade, id
<1>3. /\ Len(trades) \in Nat /\ Len(trades') = Len(trades) + 1
      /\ trades' \in Seq(1 .. MaxTrades)
      /\ \A i \in 1 .. Len(trades) : trades'[i] = trades[i] /\ trades[i] # id
      /\ trades'[Len(trades) + 1] = id
      /\ DOMAIN trades = 1 .. Len(trades) /\ DOMAIN trades' = 1 .. Len(trades) + 1
  BY <1>1, <1>2 DEF LedgerInv, ToSet
<1>4. ToSet(trades') = ToSet(trades) \cup {id}
  BY <1>3 DEF ToSet
<1>5. IsInjective(trades')
  BY <1>3 DEF LedgerInv, IsInjective
<1>6. /\ Saved' = Saved /\ unsaved' = unsaved \cup {id} /\ table' = table
      \/ /\ Saved' = Saved \cup {id} /\ unsaved' = unsaved
         /\ table'[id] = second /\ \A t \in Saved : table'[t] = table[t]
  <2>1. CASE table' = table /\ unsaved' = unsaved \cup {id}
    BY <2>1 DEF Saved
  <2>2. CASE /\ table' = [t \in Saved \cup {id} |-> IF t = id THEN second ELSE table[t]]
             /\ unsaved' = unsaved
    BY <1>1, <2>2 DEF Saved
  <2> QED  BY <1>2, <2>1, <2>2
<1>7. /\ Saved' \subseteq 1 .. MaxTrades /\ unsaved' \subseteq 1 .. MaxTrades
      /\ \A t \in Saved' : table'[t] \in 1 .. second
  BY <1>1, <1>6, LedgerTypes
<1>8. LedgerAfterRestart'
  <2>1. /\ unsaved \subseteq ToSet(trades) /\ ToSet(trades) \subseteq Saved \cup unsaved
        /\ loaded => Saved \subseteq ToSet(trades)
    BY DEF LedgerInv, LedgerAfterRestart
  <2>2. ASSUME NEW i \in DOMAIN trades', NEW j \in DOMAIN trades', i < j,
               {trades'[i], trades'[j]} \subseteq Saved'
        PROVE  table'[trades'[i]] <= table'[trades'[j]]
    <3>1. i \in DOMAIN trades /\ trades'[i] = trades[i] /\ trades[i] # id
      BY <1>3, <2>2
    <3>2. trades[i] \in Saved /\ table'[trades[i]] = table[trades[i]]
      BY <1>6, <2>2, <3>1
    <3>3. CASE j \in DOMAIN trades
      <4>1. trades'[j] = trades[j] /\ trades[j] # id
        BY <1>3, <3>3
      <4>2. trades[j] \in Saved /\ table'[trades[j]] = table[trades[j]]
        BY <1>6, <2>2, <4>1
      <4> QED  BY <2>2, <3>1, <3>2, <3>3, <4>1, <4>2 DEF LedgerInv, LedgerAfterRestart
    <3>4. CASE j = Len(trades) + 1
      <4>1. trades'[j] = id /\ id \in Saved'
        BY <1>3, <2>2, <3>4
      <4>2. table'[id] = second
        BY <1>1, <1>6, <4>1
      <4>3. table[trades[i]] <= second
        BY <3>2, LedgerTypes
      <4> QED  BY <3>1, <3>2, <4>1, <4>2, <4>3
    <3> QED  BY <1>3, <3>3, <3>4
  <2>3. /\ unsaved' \subseteq ToSet(trades') /\ ToSet(trades') \subseteq Saved' \cup unsaved'
        /\ loaded' => Saved' \subseteq ToSet(trades')
    BY <1>2, <1>4, <1>6, <2>1
  <2> QED  BY <1>5, <2>2, <2>3 DEF LedgerAfterRestart
<1> QED  BY <1>2, <1>3, <1>5, <1>7, <1>8 DEF LedgerInv

\* What is read back is the table, or what can be read of it, by the seconds of
\* the inserts.
LEMMA NewStoreLedger ==
  ASSUME LedgerInv, NewStore
  PROVE  LedgerInv'
<1>1. UNCHANGED <<second, table>> /\ unsaved' = {} /\ open' \in BOOLEAN /\ Saved' = Saved
  BY DEF NewStore, Saved
<1>2. ASSUME NEW rows \in SUBSET Saved, trades' \in Loaded(rows), loaded' = (rows = Saved)
      PROVE  LedgerInv'
  <2>1. IsFiniteSet(rows)
    <3>1. IsFiniteSet(1 .. MaxTrades) /\ rows \subseteq 1 .. MaxTrades
      BY LedgerTypes, FS_Interval
    <3> QED  BY <3>1, FS_Subset
  <2>2. /\ trades' \in SetToSeqs(rows)
        /\ \A i, j \in DOMAIN trades' : i < j => table[trades'[i]] <= table[trades'[j]]
    BY <1>2 DEF Loaded
  <2>3. trades' \in Seq(rows) /\ ToSet(trades') = rows /\ IsInjective(trades')
    BY <2>1, <2>2, Enumerates
  <2>4. trades' \in Seq(1 .. MaxTrades)
    BY <2>3, LedgerTypes
  <2>5. /\ unsaved' \subseteq ToSet(trades') /\ ToSet(trades') \subseteq Saved' \cup unsaved'
        /\ loaded' => Saved' \subseteq ToSet(trades')
        /\ loaded' \in BOOLEAN
    BY <1>1, <1>2, <2>3
  <2>6. LedgerAfterRestart'
    BY <1>1, <2>2, <2>3, <2>5 DEF LedgerAfterRestart
  <2> QED  BY <1>1, <2>3, <2>4, <2>5, <2>6, LedgerTypes DEF LedgerInv
<1>3. CASE loaded' = FALSE /\ trades' = <<>>
  <2>1. trades' \in Seq(1 .. MaxTrades) /\ IsInjective(trades')
    BY <1>3 DEF IsInjective
  <2>2. LedgerAfterRestart'
    <3>1. ToSet(trades') = {} /\ DOMAIN trades' = {}
      BY <1>3 DEF ToSet
    <3> QED  BY <1>1, <1>3, <2>1, <3>1 DEF LedgerAfterRestart
  <2> QED  BY <1>1, <1>3, <2>1, <2>2 DEF LedgerInv
<1> QED  BY <1>2, <1>3 DEF NewStore

LEMMA NextLedger == LedgerInv /\ [Next]_vars => LedgerInv'
<1> SUFFICES ASSUME LedgerInv, [Next]_vars PROVE LedgerInv'
  OBVIOUS
<1> DEFINE Ledgers == <<second, trades, table, open, loaded, unsaved>>
<1>1. CASE UNCHANGED Ledgers
  BY <1>1 DEF LedgerInv, LedgerAfterRestart, Saved
<1>2. ASSUME NEW r \in Requests,
             Submit(r) \/ Start(r) \/ Query(r) \/ Goroutine(r) \/ Persister(r)
      PROVE  UNCHANGED Ledgers
  BY <1>2 DEF Submit, Start, Query, Goroutine, Answer, ReplayFrame, Finish, SendResult, GoIdle,
              Unlock, Persister, SpawnPersister, Persist, storeVars
<1>3. CASE Live \/ UNCHANGED vars
  BY <1>1, <1>3 DEF Live, vars, storeVars
<1>4. CASE Ledger
  <2>1. CASE Tick
    <3>1. UNCHANGED <<trades, table, open, loaded, unsaved>> /\ Saved' = Saved
      BY <2>1 DEF Tick, Saved
    <3>2. second' \in 1 .. MaxSeconds /\ \A t \in Saved : table[t] \in 1 .. second'
      BY <2>1, StoreConstants DEF Tick, LedgerInv
    <3> QED  BY <3>1, <3>2 DEF LedgerInv, LedgerAfterRestart
  <2>2. CASE Close
    BY <2>2 DEF Close, LedgerInv, LedgerAfterRestart, Saved
  <2> QED  BY <1>4, <2>1, <2>2, SaveTradeLedger DEF Ledger
<1>5. CASE Restart
  BY <1>5, NewStoreLedger DEF Restart
<1> QED  BY <1>1, <1>2, <1>3, <1>4, <1>5 DEF Next

\* A ledger has each trade once, in the order of the seconds of their inserts,
\* and every saved trade unless some rows could not be read back: after any
\* number of lives of the process (store.go:112-177).
THEOREM LedgerContinues == Spec => []LedgerAfterRestart
<1>1. LedgerInv => LedgerAfterRestart  BY DEF LedgerInv
<1> QED  BY <1>1, InitLedger, NextLedger, PTL DEF Spec
-----------------------------------------------------------------------------
(* What a run replays. *)

Booked == [strategy : Strategies, profit : TradeProfits, at : Times]
Replay == [frames : Seq(Frame), done : Nat, trades : Seq(Booked)]
Window == [from : 0 .. MaxTs, to : 0 .. MaxTs]

Stored == {rec.id : rec \in runs}
Asked(r) == {f \in recorded[r] : f.ts >= spec[r].from /\ f.ts <= spec[r].to}
ByTime(s) == \A i, j \in DOMAIN s : i < j => s[i].ts <= s[j].ts

\* The table of frames.
RowsInv ==
    /\ frames \subseteq Frame /\ IsFiniteSet(frames) /\ Cardinality(frames) <= MaxFrames
    /\ arriving \in [ts : Times, exchange : Exchanges] \cup {Nothing}
    /\ arriving # Nothing => Cardinality(frames) < MaxFrames
    /\ inserting \in BOOLEAN /\ (inserting => arriving # Nothing)
    /\ conn \in Requests \cup {Nothing} /\ recording \in BOOLEAN

\* A request has nothing before its query; from then on it has the frames of
\* its window, whatever becomes of it; and its result exists only once it has
\* done them all, after which nothing changes any more.
RunInv(r) ==
    /\ recorded[r] \subseteq frames
    /\ ToSet(replay[r].frames) = Asked(r) /\ IsInjective(replay[r].frames)
    /\ ByTime(replay[r].frames) /\ Len(replay[r].frames) <= MaxFrames
    /\ replay[r].done \in 0 .. Len(replay[r].frames)
    /\ \A i, j \in DOMAIN replay[r].trades :
         i < j => replay[r].trades[i].at <= replay[r].trades[j].at
    /\ \A i \in DOMAIN replay[r].trades :
         /\ replay[r].done >= 1
         /\ replay[r].trades[i].at <= replay[r].frames[replay[r].done].ts
    /\ stage[r] \in {"new", "building", "starting", "frames"}
         => replay[r] = Empty /\ recorded[r] = {}
    /\ stage[r] = "finished" => replay[r].done = Len(replay[r].frames)
    /\ (resultCh[r] # Nothing /\ resultCh[r].id = r) \/ r \in Stored
         => /\ stage[r] \in {"unlocking", "over", "killed"}
            /\ replay[r].done = Len(replay[r].frames)
    /\ resultCh[r] = Nothing \/ resultCh[r].id \in {r, EmptyID}

RunsInv ==
    /\ stage \in [Requests -> Stages]
    /\ replay \in [Requests -> Replay]
    /\ spec \in [Requests -> Window]
    /\ DOMAIN recorded = Requests /\ DOMAIN resultCh = Requests
    /\ \A r \in Requests : RunInv(r)
    /\ Stored \subseteq Requests \cup {EmptyID}

LEMMA InitRuns == Init => RowsInv /\ RunsInv
<1> SUFFICES ASSUME Init PROVE RowsInv /\ RunsInv
  OBVIOUS
<1>1. RowsInv
  BY BacktestConstants DEF Init, RecorderInit, RowsInv
<1>2. /\ stage = [r \in Requests |-> "new"] /\ replay = [r \in Requests |-> Empty]
      /\ spec = [r \in Requests |-> [from |-> 0, to |-> 0]] /\ runs = {}
      /\ recorded = [r \in Requests |-> {}] /\ resultCh = [r \in Requests |-> Nothing]
  BY DEF Init, StoreInit
<1>3. Stored = {}
  BY <1>2 DEF Stored
<1>4. /\ Empty \in Replay /\ Empty.frames = <<>> /\ Empty.trades = <<>> /\ Empty.done = 0
      /\ [from |-> 0, to |-> 0] \in Window
  BY RecorderConstants DEF Empty, Replay, Window
<1>5. ASSUME NEW r \in Requests PROVE RunInv(r)
  <2>1. replay[r] = Empty /\ recorded[r] = {} /\ stage[r] = "new" /\ resultCh[r] = Nothing
    BY <1>2
  <2>2. ToSet(replay[r].frames) = {} /\ Asked(r) = {}
    BY <1>4, <2>1 DEF ToSet, Asked
  <2>3. IsInjective(replay[r].frames) /\ ByTime(replay[r].frames)
    BY <1>4, <2>1 DEF IsInjective, ByTime
  <2> QED  BY <1>3, <1>4, <2>1, <2>2, <2>3, RecorderConstants DEF RunInv
<1> QED  BY <1>1, <1>2, <1>3, <1>4, <1>5 DEF RunsInv, Stages

\* Nothing but its own steps changes what a request has.
LEMMA KeptRun ==
  ASSUME NEW x \in Requests, RunInv(x),
         replay'[x] = replay[x], recorded'[x] = recorded[x], spec'[x] = spec[x],
         stage'[x] = stage[x], resultCh'[x] = resultCh[x],
         frames \subseteq frames', x \in Stored' => x \in Stored
  PROVE  RunInv(x)'
  BY DEF RunInv, Asked

\* The table of frames only grows, by frames of new numbers.
LEMMA NextRows == RowsInv /\ [Next]_vars => RowsInv' /\ frames \subseteq frames'
<1> SUFFICES ASSUME RowsInv, [Next]_vars PROVE RowsInv' /\ frames \subseteq frames'
  OBVIOUS
<1>1. CASE UNCHANGED recorderVars
  BY <1>1 DEF recorderVars, RowsInv
<1>2. ASSUME NEW r \in Requests, Query(r) \/ Answer(r) PROVE RowsInv' /\ frames \subseteq frames'
  BY <1>2 DEF Query, Connect, Answer, Release, RowsInv
<1>3. ASSUME NEW r \in Requests,
             Submit(r) \/ Start(r) \/ ReplayFrame(r) \/ Finish(r) \/ SendResult(r)
               \/ GoIdle(r) \/ Unlock(r) \/ Persister(r)
      PROVE  UNCHANGED recorderVars
  BY <1>3 DEF Submit, Start, ReplayFrame, Finish, SendResult, GoIdle, Unlock, Persister,
              SpawnPersister, Persist
<1>4. CASE Live
  <2>1. CASE TakeUpdate
    BY <2>1 DEF TakeUpdate, RowsInv
  <2>2. CASE RecordFrame
    <3> DEFINE f == [id |-> Cardinality(frames) + 1, ts |-> arriving.ts,
                     exchange |-> arriving.exchange]
    <3>1. /\ arriving # Nothing /\ arriving' = Nothing /\ inserting' = FALSE
          /\ UNCHANGED <<conn, recording>>
          /\ frames' = frames \/ frames' = frames \cup {f}
      BY <2>2 DEF RecordFrame, RowsInv
    <3>2. /\ Cardinality(frames) \in Nat /\ Cardinality(frames) < MaxFrames
          /\ IsFiniteSet(frames \cup {f})
          /\ Cardinality(frames \cup {f}) <= Cardinality(frames) + 1
      <4>1. IsFiniteSet(frames) /\ Cardinality(frames) < MaxFrames
        BY <3>1 DEF RowsInv
      <4>2. Cardinality(frames) \in Nat
        BY <4>1, FS_CardinalityType
      <4> HIDE DEF f
      <4> QED  BY <4>1, <4>2, FS_AddElement
    <3>3. f \in Frame
      BY <3>1, <3>2, RecorderConstants DEF RowsInv, Frame
    <3>4. Cardinality(frames \cup {f}) \in Nat /\ Cardinality(frames \cup {f}) <= MaxFrames
      BY <3>2, FS_CardinalityType, RecorderConstants
    <3> HIDE DEF f
    <3> QED  BY <3>1, <3>2, <3>3, <3>4 DEF RowsInv
  <2>3. ASSUME NEW enabled \in BOOLEAN, SetRecording(enabled) PROVE RowsInv' /\ frames \subseteq frames'
    BY <2>3 DEF SetRecording, RowsInv
  <2>4. CASE CheckRecording
    <3>1. UNCHANGED <<frames, conn, recording>>
      BY <2>4 DEF CheckRecording
    <3>2. CASE inserting' = TRUE /\ arriving' = arriving /\ arriving # Nothing
      BY <3>1, <3>2 DEF RowsInv
    <3>3. CASE inserting' = inserting /\ ~inserting /\ arriving' = Nothing
      BY <3>1, <3>3 DEF RowsInv
    <3> QED  BY <2>4, <3>2, <3>3 DEF CheckRecording
  <2> QED  BY <1>4, <2>1, <2>2, <2>3, <2>4 DEF Live
<1>5. CASE Ledger \/ UNCHANGED vars
  BY <1>1, <1>5 DEF Ledger, vars
<1>6. CASE Restart
  BY <1>6 DEF Restart, RecorderRestart, RowsInv
<1> QED  BY <1>1, <1>2, <1>3, <1>4, <1>5, <1>6 DEF Next, Goroutine

LEMMA RunFacts ==
  ASSUME RunsInv, NEW r \in Requests
  PROVE  /\ RunInv(r) /\ replay[r] \in Replay /\ spec[r] \in Window
         /\ replay[r].frames \in Seq(Frame) /\ replay[r].done \in Nat
         /\ replay[r].trades \in Seq(Booked)
         /\ replay[r].done <= Len(replay[r].frames) /\ Len(replay[r].frames) \in Nat
         /\ \A i \in 1 .. Len(replay[r].frames) :
              replay[r].frames[i] \in Frame /\ replay[r].frames[i].ts \in Times
<1>1. RunInv(r) /\ replay[r] \in Replay /\ spec[r] \in Window
  BY DEF RunsInv
<1>2. replay[r].frames \in Seq(Frame) /\ replay[r].done \in Nat /\ replay[r].trades \in Seq(Booked)
  BY <1>1 DEF Replay
<1>3. \A i \in 1 .. Len(replay[r].frames) : replay[r].frames[i] \in Frame
  BY <1>2
<1>4. \A f \in Frame : f.ts \in Times
  BY DEF Frame
<1> QED  BY <1>1, <1>2, <1>3, <1>4 DEF RunInv

\* The frames of a window as a query finds them.
LEMMA QueriedFrames ==
  ASSUME RowsInv, NEW from, NEW to, NEW s \in QueryFrames(from, to)
  PROVE  /\ s \in Seq(Frame) /\ Len(s) \in Nat /\ Len(s) <= MaxFrames
         /\ ToSet(s) = {f \in frames : f.ts >= from /\ f.ts <= to}
         /\ IsInjective(s) /\ ByTime(s)
<1> DEFINE S == {f \in frames : f.ts >= from /\ f.ts <= to}
<1>1. s \in SetToSeqs(S) /\ ByTime(s)
  BY DEF QueryFrames, ByTime
<1>2. S \subseteq frames /\ IsFiniteSet(frames) /\ S \subseteq Frame
  BY DEF RowsInv
<1> HIDE DEF S
<1>3. IsFiniteSet(S) /\ Cardinality(S) \in Nat /\ Cardinality(S) <= Cardinality(frames)
  BY <1>2, FS_Subset, FS_CardinalityType
<1>4. s \in Seq(S) /\ Len(s) = Cardinality(S) /\ ToSet(s) = S /\ IsInjective(s)
  BY <1>1, <1>3, Enumerates
<1>5. s \in Seq(Frame)
  BY <1>2, <1>4
<1>6. Cardinality(frames) \in Nat /\ Cardinality(frames) <= MaxFrames
  BY <1>2, FS_CardinalityType DEF RowsInv
<1> QED  BY <1>1, <1>3, <1>4, <1>5, <1>6, RecorderConstants DEF S

LEMMA AnswerRun ==
  ASSUME RowsInv, RunsInv, NEW r \in Requests, Answer(r)
  PROVE  RunInv(r)' /\ replay' \in [Requests -> Replay]
<1>1. RunInv(r) /\ replay \in [Requests -> Replay] /\ replay[r] \in Replay
  BY RunFacts DEF RunsInv
<1>2. UNCHANGED <<frames, resultCh, runs, spec>> /\ Stored' = Stored
  BY DEF Answer, Release, storeVars, Stored
<1>3. CASE /\ stage[r] = "frames" /\ GoTo(r, "rates")
           /\ recorded' = [recorded EXCEPT ![r] = frames]
           /\ \E s \in QueryFrames(spec[r].from, spec[r].to) :
                replay' = [replay EXCEPT ![r].frames = s]
  <2>1. PICK s \in QueryFrames(spec[r].from, spec[r].to) : replay' = [replay EXCEPT ![r].frames = s]
    BY <1>3
  <2>2. /\ s \in Seq(Frame) /\ Len(s) \in Nat /\ Len(s) <= MaxFrames
        /\ ToSet(s) = {f \in frames : f.ts >= spec[r].from /\ f.ts <= spec[r].to}
        /\ IsInjective(s) /\ ByTime(s)
    BY QueriedFrames
  <2>3. replay[r] = Empty
    BY <1>1, <1>3 DEF RunInv
  <2>4. /\ replay' \in [Requests -> Replay] /\ replay'[r].frames = s
        /\ replay'[r].done = 0 /\ replay'[r].trades = <<>>
    <3> DEFINE new == [frames |-> s, done |-> 0, trades |-> <<>>]
    <3>1. new \in Replay
      BY <2>2 DEF Replay
    <3>2. replay' = [replay EXCEPT ![r] = [Empty EXCEPT !.frames = s]]
      BY <2>1, <2>3, Zenon
    <3>3. [Empty EXCEPT !.frames = s] = new
      BY DEF Empty
    <3>4. replay' = [replay EXCEPT ![r] = new]
      BY <3>2, <3>3, Zenon
    <3>5. replay'[r] = new /\ replay' \in [Requests -> Replay]
      <4> HIDE DEF new
      <4> QED  BY <1>1, <3>1, <3>4
    <3> QED  BY <3>5
  <2>5. recorded'[r] = frames /\ stage'[r] = "rates"
    BY <1>3 DEF RunsInv, GoTo
  <2>6. ToSet(s) = Asked(r)'
    BY <1>2, <2>2, <2>5 DEF Asked
  <2>7. resultCh'[r] = resultCh[r] /\ ~((resultCh[r] # Nothing /\ resultCh[r].id = r) \/ r \in Stored)
    BY <1>1, <1>2, <1>3 DEF RunInv
  <2>8. resultCh'[r] = Nothing \/ resultCh'[r].id \in {r, EmptyID}
    BY <1>1, <2>7 DEF RunInv
  <2> QED  BY <1>2, <2>2, <2>4, <2>5, <2>6, <2>7, <2>8 DEF RunInv
<1>4. CASE /\ UNCHANGED <<replay, recorded>>
           /\ \/ stage[r] = "building" /\ GoTo(r, "starting")
              \/ stage[r] \in {"frames", "rates"} /\ (GoTo(r, "failed") \/ GoTo(r, "replay"))
  <2>1. /\ stage[r] \in {"building", "frames", "rates"}
        /\ stage'[r] \in {"starting", "failed", "replay"}
        /\ stage'[r] = "starting" => stage[r] = "building"
    BY <1>4 DEF GoTo, RunsInv
  <2>2. Asked(r)' = Asked(r)
    BY <1>2, <1>4 DEF Asked
  <2> QED  BY <1>1, <1>2, <1>4, <2>1, <2>2 DEF RunInv
<1> QED  BY <1>3, <1>4 DEF Answer, Querying

LEMMA Joined ==
  ASSUME NEW S, NEW s \in Seq(S), NEW t \in Seq(S)
  PROVE  /\ s \o t \in Seq(S) /\ Len(s) \in Nat /\ Len(s \o t) = Len(s) + Len(t)
         /\ \A i \in 1 .. Len(s) : (s \o t)[i] = s[i]
         /\ \A i \in Len(s) + 1 .. Len(s \o t) :
              i - Len(s) \in 1 .. Len(t) /\ (s \o t)[i] = t[i - Len(s)]
  OBVIOUS

\* The trades of one more frame are booked at its time, after all the others.
LEMMA ReplayFrameRun ==
  ASSUME RunsInv, NEW r \in Requests, ReplayFrame(r)
  PROVE  RunInv(r)' /\ replay' \in [Requests -> Replay]
<1> DEFINE fs == replay[r].frames
           ts == replay[r].trades
           n == replay[r].done + 1
           time == fs[n].ts
<1>1. /\ fs \in Seq(Frame) /\ Len(fs) \in Nat /\ ts \in Seq(Booked)
      /\ n \in 1 .. Len(fs) /\ replay[r].done = n - 1 /\ replay[r].done \in Nat
      /\ \A i \in 1 .. Len(fs) : fs[i].ts \in Times
  BY RunFacts DEF ReplayFrame
<1>2. PICK found \in TradesAt(time) :
        replay' = [replay EXCEPT ![r] =
                     [frames |-> fs, done |-> n, trades |-> ts \o found]]
  BY DEF ReplayFrame
<1> DEFINE more == ts \o found
<1> DEFINE new == [frames |-> fs, done |-> n, trades |-> more]
<1>3. /\ found \in Seq(Booked) /\ Len(found) \in Nat
      /\ \A i \in 1 .. Len(found) : found[i].at = time
  <2>1. CASE found = <<>>
    BY <2>1
  <2>2. CASE \E b \in Strategies, p \in TradeProfits :
               found = <<[strategy |-> b, profit |-> p, at |-> time]>>
    <3>1. PICK t \in Booked : t.at = time /\ found = <<t>>
      <4>1. time \in Times
        BY <1>1
      <4> HIDE DEF time
      <4> QED  BY <2>2, <4>1 DEF Booked
    <3> HIDE DEF time
    <3> QED  BY <3>1
  <2> QED  BY <1>2, <2>1, <2>2 DEF TradesAt
<1>4. /\ more \in Seq(Booked) /\ Len(ts) \in Nat /\ Len(more) = Len(ts) + Len(found)
      /\ \A i \in 1 .. Len(ts) : more[i] = ts[i]
      /\ \A i \in Len(ts) + 1 .. Len(more) :
           i - Len(ts) \in 1 .. Len(found) /\ more[i] = found[i - Len(ts)]
  <2> HIDE DEF ts
  <2> QED  BY <1>1, <1>3, Joined
<1> HIDE DEF more
<1>5. replay' = [replay EXCEPT ![r] = new] /\ new \in Replay
  <2>1. new \in Replay
    BY <1>1, <1>4 DEF Replay
  <2> QED  BY <1>2, <2>1 DEF more
<1>6. replay' \in [Requests -> Replay] /\ replay'[r] = new
  <2> HIDE DEF new
  <2> QED  BY <1>5 DEF RunsInv
<1>7. /\ replay'[r].frames = fs /\ replay'[r].done = n /\ replay'[r].trades = more
  BY <1>6
<1>8. /\ UNCHANGED <<frames, resultCh, stage, recorded, spec, runs>> /\ stage[r] = "replay"
      /\ Stored' = Stored /\ Asked(r)' = Asked(r)
  BY DEF ReplayFrame, recorderVars, storeVars, Stored, Asked
<1>9. /\ time \in Nat /\ \A i \in DOMAIN ts : ts[i].at \in Nat /\ ts[i].at <= time
  <2>1. /\ RunInv(r) /\ time \in Nat
        /\ \A i \in DOMAIN ts : ts[i] \in Booked
    BY <1>1, RunFacts DEF Times
  <2>2. \A i \in DOMAIN ts : ts[i].at \in Nat
    BY <2>1 DEF Booked, Times
  <2>3. ASSUME NEW i \in DOMAIN ts PROVE ts[i].at <= time
    <3>1. replay[r].done >= 1 /\ ts[i].at <= fs[n - 1].ts
      BY <1>1, <2>1 DEF RunInv
    <3>2. n - 1 \in DOMAIN fs /\ n \in DOMAIN fs /\ n - 1 < n
      BY <1>1, <3>1
    <3>3. fs[n - 1].ts <= fs[n].ts
      BY <2>1, <3>2, Zenon DEF RunInv, ByTime
    <3>4. fs[n - 1].ts \in Nat /\ ts[i].at \in Nat
      <4>1. n - 1 \in 1 .. Len(fs)
        BY <1>1, <3>2
      <4>2. fs[n - 1].ts \in Times
        BY <1>1, <4>1
      <4> QED  BY <2>2, <4>2 DEF Times
    <3> HIDE DEF fs, ts, n
    <3> QED  BY <2>1, <3>1, <3>3, <3>4
  <2> QED  BY <2>1, <2>2, <2>3
<1>10. /\ DOMAIN more = 1 .. Len(more) /\ DOMAIN ts = 1 .. Len(ts)
       /\ \A i \in DOMAIN more : \/ i \in DOMAIN ts /\ more[i] = ts[i]
                                 \/ i > Len(ts) /\ more[i].at = time
  <2>1. DOMAIN more = 1 .. Len(more) /\ DOMAIN ts = 1 .. Len(ts)
    BY <1>1, <1>4
  <2>2. ASSUME NEW i \in DOMAIN more
        PROVE  \/ i \in DOMAIN ts /\ more[i] = ts[i]
               \/ i > Len(ts) /\ more[i].at = time
    <3>1. i \in 1 .. Len(ts) \/ i \in Len(ts) + 1 .. Len(more)
      BY <1>4, <2>1
    <3> HIDE DEF ts, time
    <3> QED  BY <1>3, <1>4, <2>1, <3>1
  <2> QED  BY <2>1, <2>2
<1>11. \A i \in DOMAIN more : more[i].at <= time /\ more[i].at \in Nat
  BY <1>9, <1>10
<1>12. ASSUME NEW i \in DOMAIN more, NEW j \in DOMAIN more, i < j
       PROVE  more[i].at <= more[j].at
  <2>1. CASE more[j].at = time
    BY <1>11, <2>1
  <2>2. CASE j \in DOMAIN ts /\ more[j] = ts[j]
    <3>1. i \in DOMAIN ts /\ more[i] = ts[i]
      BY <1>4, <1>10, <1>12, <2>2
    <3>2. RunInv(r)
      BY RunFacts
    <3> QED  BY <1>12, <2>2, <3>1, <3>2 DEF RunInv
  <2> QED  BY <1>10, <2>1, <2>2
<1>13. RunInv(r)
  BY RunFacts
<1> HIDE DEF n
<1> QED  BY <1>1, <1>6, <1>7, <1>8, <1>11, <1>12, <1>13 DEF RunInv

LEMMA SubmitRun ==
  ASSUME RunsInv, NEW r \in Requests, Submit(r)
  PROVE  RunInv(r)' /\ spec' \in [Requests -> Window]
<1>1. PICK w \in Window : spec' = [spec EXCEPT ![r] = w]
  <2>1. PICK from \in Times, to \in Times : spec' = [spec EXCEPT ![r] = [from |-> from, to |-> to]]
    BY DEF Submit
  <2>2. [from |-> from, to |-> to] \in Window
    BY RecorderConstants DEF Times, Window
  <2> QED  BY <2>1, <2>2
<1>2. /\ stage[r] = "new" /\ stage'[r] \in {"building", "starting"}
      /\ UNCHANGED <<replay, resultCh, recorded, frames, runs>> /\ Stored' = Stored
  BY DEF Submit, GoTo, RunsInv, recorderVars, storeVars, Stored
<1>3. RunInv(r)
  BY DEF RunsInv
<1>4. recorded[r] = {} /\ replay[r] = Empty
  BY <1>2, <1>3 DEF RunInv
<1>5. Asked(r)' = Asked(r)
  BY <1>2, <1>4 DEF Asked
<1>6. spec' \in [Requests -> Window]
  BY <1>1 DEF RunsInv
<1> QED  BY <1>2, <1>3, <1>4, <1>5, <1>6 DEF RunInv

\* The other steps of a request's goroutine leave what it replays alone.
LEMMA StageRun ==
  ASSUME RunsInv, NEW r \in Requests, Start(r) \/ Finish(r) \/ GoIdle(r) \/ Unlock(r)
  PROVE  RunInv(r)'
<1>1. /\ UNCHANGED <<replay, resultCh, recorded, spec, frames, runs>>
      /\ Stored' = Stored /\ Asked(r)' = Asked(r)
  BY DEF Start, Finish, GoIdle, Unlock, recorderVars, storeVars, Stored, Asked
<1>2. \/ stage[r] = "starting" /\ stage'[r] \in {"frames", "refused"}
      \/ stage[r] = "replay" /\ stage'[r] = "finished" /\ replay[r].done = Len(replay[r].frames)
      \/ stage[r] = "clearing" /\ stage'[r] = "unlocking"
      \/ stage[r] = "unlocking" /\ stage'[r] = "over"
  BY DEF Start, StartAsync, Finish, GoIdle, Unlock, GoTo, RunsInv
<1>3. RunInv(r)
  BY DEF RunsInv
<1> QED  BY <1>1, <1>2, <1>3 DEF RunInv

\* Only a replay that came to its end has a result of its own.
LEMMA SendResultRun ==
  ASSUME RunsInv, NEW r \in Requests, SendResult(r)
  PROVE  RunInv(r)'
<1>1. /\ UNCHANGED <<replay, recorded, spec, frames, runs>>
      /\ Stored' = Stored /\ Asked(r)' = Asked(r)
  BY DEF SendResult, recorderVars, storeVars, Stored, Asked
<1>2. /\ stage[r] \in {"finished", "failed"}
      /\ stage'[r] = IF stage[r] = "failed" THEN "clearing" ELSE "unlocking"
      /\ resultCh'[r] = IF resultCh[r] = Nothing THEN Result(r) ELSE resultCh[r]
  BY DEF SendResult, Sent, GoTo, RunsInv
<1>3. RunInv(r)
  BY DEF RunsInv
<1>4. Result(r).id = IF stage[r] = "failed" THEN EmptyID ELSE r
  BY DEF Result, ZeroResult
<1>5. EmptyID # r
  BY BacktestConstants
<1>6. r \notin Stored /\ ~(resultCh[r] # Nothing /\ resultCh[r].id = r)
  BY <1>2, <1>3 DEF RunInv
<1>7. resultCh'[r].id = r => stage[r] = "finished" \/ resultCh'[r] = Nothing
  BY <1>2, <1>4, <1>5, <1>6
<1>8. resultCh'[r] = Nothing \/ resultCh'[r].id \in {r, EmptyID}
  BY <1>2, <1>3, <1>4 DEF RunInv
<1> QED  BY <1>1, <1>2, <1>3, <1>6, <1>7, <1>8 DEF RunInv

\* The row that is stored is the request's, or that of a run that failed.
LEMMA PersistRun ==
  ASSUME RunsInv, NEW r \in Requests, Persist(r)
  PROVE  /\ RunInv(r)' /\ Stored' \subseteq Requests \cup {EmptyID}
         /\ \A x \in Requests \ {r} : x \in Stored' => x \in Stored
<1>1. /\ UNCHANGED <<replay, recorded, spec, frames, stage>> /\ Asked(r)' = Asked(r)
      /\ resultCh[r] # Nothing /\ resultCh' = [resultCh EXCEPT ![r] = Nothing]
  BY DEF Persist, runner, recorderVars, Asked
<1>2. RunInv(r) /\ Stored \subseteq Requests \cup {EmptyID} /\ resultCh'[r] = Nothing
  BY <1>1 DEF RunsInv
<1>3. resultCh[r].id \in {r, EmptyID}
  BY <1>1, <1>2 DEF RunInv
<1>4. Stored' \subseteq Stored \cup {resultCh[r].id}
  <2> DEFINE row == [id |-> resultCh[r].id, spec |-> spec[r],
                     metrics |-> resultCh[r].metrics, status |-> "done"]
  <2>1. runs' = runs \/ runs' = runs \cup {row}
    BY DEF Persist, SaveBacktestRun
  <2>2. row.id = resultCh[r].id
    OBVIOUS
  <2> HIDE DEF row
  <2> QED  BY <2>1, <2>2 DEF Stored
<1>5. EmptyID \notin Requests
  BY BacktestConstants
<1>6. r \in Stored' => (resultCh[r] # Nothing /\ resultCh[r].id = r) \/ r \in Stored
  BY <1>1, <1>4
<1>7. RunInv(r)'
  BY <1>1, <1>2, <1>6 DEF RunInv
<1> QED  BY <1>2, <1>3, <1>4, <1>5, <1>7

LEMMA RestartRun ==
  ASSUME RunsInv, Restart, NEW r \in Requests
  PROVE  RunInv(r)'
<1>1. /\ UNCHANGED <<replay, recorded, spec, frames, runs>>
      /\ Stored' = Stored /\ Asked(r)' = Asked(r)
      /\ stage'[r] = (IF stage[r] = "new" THEN "new" ELSE "killed")
      /\ resultCh'[r] = Nothing
  BY DEF Restart, NewStore, RecorderRestart, Stored, Asked
<1>2. RunInv(r)
  BY DEF RunsInv
<1> QED  BY <1>1, <1>2 DEF RunInv

\* One request's step keeps the others' runs.
LEMMA RequestRuns ==
  ASSUME RowsInv, RunsInv, [Next]_vars, NEW r \in Requests,
         Submit(r) \/ Start(r) \/ Query(r) \/ Goroutine(r) \/ Persister(r)
  PROVE  RunsInv'
<1>1. frames \subseteq frames'
  BY NextRows
<1>2. /\ \A x \in Requests \ {r} :
           /\ replay'[x] = replay[x] /\ recorded'[x] = recorded[x] /\ spec'[x] = spec[x]
           /\ stage'[x] = stage[x] /\ resultCh'[x] = resultCh[x]
      /\ DOMAIN recorded' = Requests /\ DOMAIN resultCh' = Requests
  BY DEF Submit, Start, StartAsync, Query, Goroutine, Answer, ReplayFrame, Finish, SendResult,
         GoIdle, Unlock, Persister, SpawnPersister, Persist, btVars, runner, GoTo, RunsInv
<1>3. stage' \in [Requests -> Stages]
  BY DEF Submit, Start, StartAsync, Query, Goroutine, Answer, ReplayFrame, Finish, SendResult,
         GoIdle, Unlock, Persister, SpawnPersister, Persist, btVars, runner, GoTo, RunsInv, Stages
<1>4. CASE Query(r) \/ SpawnPersister(r)
  <2>1. UNCHANGED <<stage, replay, spec, recorded, resultCh, runs>> /\ Stored' = Stored
    BY <1>4 DEF Query, SpawnPersister, btVars, runner, storeVars, Stored
  <2>2. \A x \in Requests : RunInv(x)'
    BY <1>1, <2>1, KeptRun DEF RunsInv
  <2> QED  BY <2>1, <2>2 DEF RunsInv
<1>5. CASE Persist(r)
  <2>1. \A x \in Requests : RunInv(x)'
    BY <1>1, <1>2, <1>5, PersistRun, KeptRun DEF RunsInv
  <2>2. UNCHANGED <<replay, spec>>
    BY <1>5 DEF Persist, runner
  <2> QED  BY <1>2, <1>3, <1>5, <2>1, <2>2, PersistRun DEF RunsInv
<1>6. CASE Submit(r) \/ Start(r) \/ Goroutine(r)
  <2>1. Stored' = Stored
    BY <1>6 DEF Submit, Start, Goroutine, Answer, ReplayFrame, Finish, SendResult, GoIdle, Unlock,
                storeVars, Stored
  <2>2. RunInv(r)'
    BY <1>6, SubmitRun, StageRun, AnswerRun, ReplayFrameRun, SendResultRun DEF Goroutine
  <2>3. \A x \in Requests : RunInv(x)'
    BY <1>1, <1>2, <2>1, <2>2, KeptRun DEF RunsInv
  <2>4. replay' \in [Requests -> Replay]
    BY <1>6, AnswerRun, ReplayFrameRun
    DEF Submit, Start, Goroutine, Finish, SendResult, GoIdle, Unlock, RunsInv
  <2>5. spec' \in [Requests -> Window]
    BY <1>6, SubmitRun
    DEF Start, Goroutine, Answer, ReplayFrame, Finish, SendResult, GoIdle, Unlock, RunsInv
  <2> QED  BY <1>2, <1>3, <2>1, <2>3, <2>4, <2>5 DEF RunsInv
<1> QED  BY <1>4, <1>5, <1>6 DEF Persister

LEMMA NextRuns == RowsInv /\ RunsInv /\ [Next]_vars => RunsInv'
<1> SUFFICES ASSUME RowsInv, RunsInv, [Next]_vars PROVE RunsInv'
  OBVIOUS
<1>1. CASE Live \/ Ledger \/ UNCHANGED vars
  <2>1. UNCHANGED <<stage, replay, spec, recorded, resultCh, runs>> /\ Stored' = Stored
    BY <1>1 DEF Live, Ledger, Tick, SaveTrade, Close, btVars, runner, storeVars, vars, Stored
  <2>2. \A x \in Requests : RunInv(x)'
    BY <2>1, KeptRun, NextRows DEF RunsInv
  <2> QED  BY <2>1, <2>2 DEF RunsInv
<1>2. CASE Restart
  <2>1. /\ UNCHANGED <<replay, spec, recorded, runs>> /\ Stored' = Stored
        /\ stage' \in [Requests -> Stages] /\ DOMAIN resultCh' = Requests
    BY <1>2 DEF Restart, NewStore, Stored, Stages
  <2>2. \A x \in Requests : RunInv(x)'
    BY <1>2, RestartRun
  <2> QED  BY <2>1, <2>2 DEF RunsInv
<1> QED  BY <1>1, <1>2, RequestRuns DEF Next

\* A stored result is that of a replay, to its end and in the order of their
\* times, of all the frames of its window that were recorded when it began
\* (recorder.go:128-136, runner.go:171-228): for any number of frames and
\* requests, whatever the loop records meanwhile.
THEOREM WindowReplayedHolds == Spec => []WindowReplayed
<1>1. RunsInv => WindowReplayed
  <2> SUFFICES ASSUME RunsInv, NEW r \in Stored \ {EmptyID}
      PROVE  /\ ToSet(replay[r].frames) =
                  {f \in recorded[r] : f.ts \in spec[r].from .. spec[r].to}
             /\ replay[r].done = Len(replay[r].frames) /\ IsInjective(replay[r].frames)
             /\ \A i, j \in 1 .. replay[r].done :
                  i < j => replay[r].frames[i].ts <= replay[r].frames[j].ts
             /\ \A i, j \in DOMAIN replay[r].trades :
                  i < j => replay[r].trades[i].at <= replay[r].trades[j].at
    BY DEF WindowReplayed, Stored
  <2>1. r \in Requests
    BY DEF RunsInv
  <2>2. RunInv(r)
    BY <2>1 DEF RunsInv
  <2>3. replay[r].done = Len(replay[r].frames) /\ DOMAIN replay[r].frames = 1 .. replay[r].done
    BY <2>1, <2>2, RunFacts DEF RunInv
  <2>4. Asked(r) = {f \in recorded[r] : f.ts \in spec[r].from .. spec[r].to}
    <3>1. \A f \in Asked(r) : f.ts \in Times
      <4>1. \A i \in DOMAIN replay[r].frames : replay[r].frames[i].ts \in Times
        BY <2>1, <2>3, RunFacts
      <4> QED  BY <2>2, <4>1 DEF RunInv, ToSet
    <3>2. spec[r].from \in Int /\ spec[r].to \in Int
      BY <2>1, RunFacts DEF Window
    <3>3. \A f \in recorded[r] : f.ts \in spec[r].from .. spec[r].to => f.ts >= spec[r].from /\ f.ts <= spec[r].to
      BY <3>2
    <3>4. \A f \in Asked(r) : f \in recorded[r] /\ f.ts \in spec[r].from .. spec[r].to
      BY <3>1, <3>2 DEF Asked, Times
    <3> QED  BY <3>3, <3>4, Zenon DEF Asked
  <2> QED  BY <2>2, <2>3, <2>4 DEF RunInv, ByTime
<1>2. RowsInv /\ [Next]_vars => RowsInv'
  BY NextRows
<1> QED  BY <1>1, <1>2, InitRuns, NextRuns, PTL DEF Spec
-----------------------------------------------------------------------------
(* Sums, as DepthWalkProofs shows them for any finite set, and recursion.  *)

Walk == INSTANCE DepthWalkProofs
    WITH MinPrice <- 0, MaxPrice <- 0, Quotes <- {}, N <- 1, Step <- 0, MinQty <- 0,
         MaxQty <- 0, RealBooks <- [s \in {"ask", "bid"} |-> {}], Targets <- {},
         side <- "ask", levels <- <<>>, target <- 0, next <- 1, filled <- 0,
         costSum <- 0, pc <- "loop"

LEMMA WalkConstantsHold == Walk!WalkConstants
  BY DEF Walk!WalkConstants, Walk!Sides, Walk!Level, Walk!Prices

LEMMA SameSums ==
  ASSUME NEW a, NEW S
  PROVE  /\ Walk!SumFunctionOnSet(a, S) = SumFunctionOnSet(a, S)
         /\ Walk!IsFiniteSet(S) <=> IsFiniteSet(S)
<1>1. Walk!SumFunctionOnSet(a, S) = SumFunctionOnSet(a, S)
  BY DEF Walk!SumFunctionOnSet, Walk!FoldFunctionOnSet, Walk!MapThenFoldSet,
         SumFunctionOnSet, FoldFunctionOnSet, MapThenFoldSet
<1>2. Walk!IsFiniteSet(S) <=> IsFiniteSet(S)
  BY DEF Walk!IsFiniteSet, IsFiniteSet
<1> QED BY <1>1, <1>2

LEMMA SumOfNone == ASSUME NEW a PROVE SumFunctionOnSet(a, {}) = 0
  BY SameSums, WalkConstantsHold, Walk!SumOfNone

LEMMA SumSplit ==
  ASSUME NEW a, NEW S, IsFiniteSet(S), \A i \in S : a[i] \in Int
  PROVE  /\ SumFunctionOnSet(a, S) \in Int
         /\ \A x \in S : SumFunctionOnSet(a, S) = a[x] + SumFunctionOnSet(a, S \ {x})
  BY SameSums, WalkConstantsHold, Walk!SumSplit

LEMMA SumSame ==
  ASSUME NEW a, NEW b, NEW S, IsFiniteSet(S), \A i \in S : a[i] \in Int /\ a[i] = b[i]
  PROVE  SumFunctionOnSet(a, S) = SumFunctionOnSet(b, S)
  BY SameSums, WalkConstantsHold, Walk!SumSame

\* One term more.
Grows(a, T, b, U, k) ==
  /\ IsFiniteSet(U) /\ k \in U /\ T = U \ {k}
  /\ \A i \in T : a[i] \in Int /\ b[i] = a[i]
  /\ b[k] \in Int

LEMMA SumGrows ==
  ASSUME NEW a, NEW b, NEW T, NEW U, NEW k, Grows(a, T, b, U, k)
  PROVE  /\ SumFunctionOnSet(a, T) \in Int
         /\ SumFunctionOnSet(b, U) = SumFunctionOnSet(a, T) + b[k]
<1> USE DEF Grows
<1>1. IsFiniteSet(T)
  BY FS_RemoveElement
<1>2. \A i \in U : b[i] \in Int
  OBVIOUS
<1>3. SumFunctionOnSet(b, U) = b[k] + SumFunctionOnSet(b, T)
  BY <1>2, SumSplit
<1>4. SumFunctionOnSet(a, T) \in Int
  BY <1>1, SumSplit
<1>5. SumFunctionOnSet(a, T) = SumFunctionOnSet(b, T)
  BY <1>1, SumSame
<1> QED  BY <1>3, <1>4, <1>5

\* A property of finite sets that fails has a smallest set that lacks it.
LEMMA NoSmallest ==
  ASSUME NEW S, IsFiniteSet(S), NEW bad \in SUBSET SUBSET S,
         \A s \in bad : \E x \in s : s \ {x} \in bad
  PROVE  bad = {}
<1> SUFFICES ASSUME NEW any \in bad PROVE FALSE
  OBVIOUS
<1>1. \A s \in bad : IsFiniteSet(s)
  BY FS_Subset
<1>2. \A s \in bad : Walk!IsFiniteSet(s)
  BY <1>1, SameSums
<1>3. \E s \in bad : \A x \in s : s \ {x} \notin bad
  BY <1>2, WalkConstantsHold, Walk!SmallestSet
<1> QED  BY <1>3

\* Induction, on a set of numbers.
LEMMA AllNumbers ==
  ASSUME NEW G \in SUBSET Nat, 0 \in G, \A n \in G : n + 1 \in G
  PROVE  G = Nat
<1> DEFINE bad == Nat \ G
<1> SUFFICES ASSUME bad # {} PROVE FALSE
  OBVIOUS
<1>1. PICK x \in bad : \A y \in bad : x <= y
  BY LeastNumber
<1>2. x - 1 \in G
  BY <1>1
<1>3. (x - 1) + 1 = x
  BY <1>1
<1> QED  BY <1>2, <1>3

\* A pass over a sequence, one step per element.
Steps(f, n, base, step) ==
  f = [i \in 0 .. n |-> IF i = 0 THEN base ELSE step[i][f[i - 1]]]

LEMMA StepsExist ==
  ASSUME NEW n \in Nat, NEW base, NEW step
  PROVE  \E f : Steps(f, n, base, step)
<1> USE DEF Steps
<1> DEFINE G == {m \in Nat : \E g : Steps(g, m, base, step)}
<1>1. 0 \in G
  <2>1. PICK g : g = [k \in 0 .. 0 |-> base]
    OBVIOUS
  <2>2. Steps(g, 0, base, step)
    BY <2>1
  <2> QED  BY <2>2
<1>2. ASSUME NEW m \in G PROVE m + 1 \in G
  <2>1. PICK g : Steps(g, m, base, step)
    OBVIOUS
  <2>2. PICK h : h = [k \in 0 .. m + 1 |-> IF k = m + 1 THEN step[m + 1][g[m]] ELSE g[k]]
    OBVIOUS
  <2>3. \A k \in 0 .. m : h[k] = g[k]
    BY <2>2
  <2>4. \A k \in 0 .. m : g[k] = IF k = 0 THEN base ELSE step[k][g[k - 1]]
    BY <2>1
  <2>5. ASSUME NEW k \in 0 .. m + 1
        PROVE  h[k] = IF k = 0 THEN base ELSE step[k][h[k - 1]]
    <3>1. CASE k = m + 1
      <4>1. k # 0 /\ k - 1 = m /\ m \in 0 .. m
        BY <3>1
      <4>2. h[k] = step[k][g[m]]
        BY <2>2, <3>1
      <4> QED  BY <2>3, <4>1, <4>2
    <3>2. CASE k # m + 1
      <4>1. k \in 0 .. m /\ (k # 0 => k - 1 \in 0 .. m)
        BY <3>2
      <4> QED  BY <2>3, <2>4, <4>1
    <3> QED  BY <3>1, <3>2
  <2>6. Steps(h, m + 1, base, step)
    BY <2>2, <2>5
  <2> QED  BY <2>6
<1>3. n \in G
  <2> HIDE DEF G
  <2> QED  BY <1>1, <1>2, AllNumbers DEF G
<1> QED  BY <1>3

\* What holds at first and is kept by every step holds all along.
LEMMA StepsKeep ==
  ASSUME NEW n \in Nat, NEW H, 0 \in H, \A k \in 1 .. n : k - 1 \in H => k \in H
  PROVE  \A k \in 0 .. n : k \in H
<1> DEFINE G == {m \in Nat : m <= n => m \in H}
<1>1. 0 \in G
  OBVIOUS
<1>2. ASSUME NEW m \in G PROVE m + 1 \in G
  <2> SUFFICES ASSUME m + 1 <= n PROVE m + 1 \in H
    OBVIOUS
  <2>1. m \in H /\ m + 1 \in 1 .. n /\ (m + 1) - 1 = m
    OBVIOUS
  <2> QED  BY <2>1
<1>3. G = Nat
  <2> HIDE DEF G
  <2> QED  BY <1>1, <1>2, AllNumbers DEF G
<1> QED  BY <1>3

-----------------------------------------------------------------------------
(* The one pass over a strategy's profits, and the one that collects them. *)

Curves == [eq : Int, peak : Int, dd : Int]
Passed(after, ps) ==
  after = [i \in 0 .. Len(ps) |-> IF i = 0 THEN AtStart ELSE AfterTrade(after[i - 1], ps[i])]

LEMMA AfterTradeType ==
  ASSUME NEW c \in Curves, NEW p \in Int
  PROVE  AfterTrade(c, p) \in Curves
<1>1. c.eq \in Int /\ c.peak \in Int /\ c.dd \in Int
  BY DEF Curves
<1>2. \A x, y \in Int : Larger(x, y) \in Int
  BY DEF Larger
<1>3. PICK e, k, d : /\ e = c.eq + p /\ k = Larger(e, c.peak) /\ d = Larger(k - e, c.dd)
  OBVIOUS
<1>4. e \in Int
  <2>1. \A x, y \in Int : x + y \in Int
    OBVIOUS
  <2> QED  BY <1>1, <1>3, <2>1
<1>5. k \in Int
  BY <1>1, <1>2, <1>3, <1>4
<1>6. d \in Int
  <2>1. \A x, y \in Int : x - y \in Int
    OBVIOUS
  <2> QED  BY <1>1, <1>2, <1>3, <1>4, <1>5, <2>1
<1>7. AfterTrade(c, p) = [eq |-> e, peak |-> k, dd |-> d]
  BY <1>3 DEF AfterTrade
<1> QED  BY <1>4, <1>7, <1>5, <1>6 DEF Curves

\* What a pass is, place by place.
LEMMA PassedAt ==
  ASSUME NEW after, NEW ps, NEW n \in Nat, n = Len(ps), Passed(after, ps)
  PROVE  /\ after[0] = AtStart
         /\ \A i \in 0 .. n : i # 0 => after[i] = AfterTrade(after[i - 1], ps[i])
<1> DEFINE Body(f, i) == AfterTrade(f[i - 1], ps[i])
<1>1. after = [i \in 0 .. n |-> IF i = 0 THEN AtStart ELSE Body(after, i)]
  BY DEF Passed
<1> HIDE DEF Body
<1>2. after[0] = AtStart
  <2>1. 0 \in 0 .. n
    OBVIOUS
  <2> QED  BY <1>1, <2>1
<1>3. \A i \in 0 .. n : i # 0 => after[i] = Body(after, i)
  BY <1>1
<1> QED  BY <1>2, <1>3 DEF Body

\* The pass exists, is the one Curve chooses, and all its states are triples
\* of numbers.
LEMMA CurvePassed ==
  ASSUME NEW ps \in Seq(Int)
  PROVE  \E after : /\ Passed(after, ps) /\ Curve(ps) = after[Len(ps)]
                    /\ \A i \in 0 .. Len(ps) : after[i] \in Curves
<1>1. PICK n : n = Len(ps)
  OBVIOUS
<1>2. n \in Nat /\ \A i \in 1 .. n : ps[i] \in Int
  BY <1>1
<1>3. PICK step : step = [i \in 1 .. n |-> [c \in Curves |-> AfterTrade(c, ps[i])]]
  OBVIOUS
<1>4. \A f : Passed(f, ps) /\ (\A i \in 0 .. n : f[i] \in Curves) => Steps(f, n, AtStart, step)
  <2> SUFFICES ASSUME NEW f, Passed(f, ps), \A i \in 0 .. n : f[i] \in Curves
               PROVE  Steps(f, n, AtStart, step)
    OBVIOUS
  <2>1. \A i \in 0 .. n : i # 0 => i \in 1 .. n /\ i - 1 \in 0 .. n
    BY <1>2
  <2>2. \A i \in 0 .. n : i # 0 => step[i][f[i - 1]] = AfterTrade(f[i - 1], ps[i])
    BY <1>3, <2>1
  <2> QED  BY <1>1, <2>2 DEF Passed, Steps
<1>5. PICK f : Steps(f, n, AtStart, step)
  BY <1>2, StepsExist
<1>6. /\ DOMAIN f = 0 .. n /\ f[0] = AtStart /\ 0 \in 0 .. n
      /\ \A i \in 0 .. n : i # 0 => f[i] = step[i][f[i - 1]]
  BY <1>2, <1>5 DEF Steps
<1>7. \A i \in 0 .. n : f[i] \in Curves
  <2> DEFINE H == {i \in 0 .. n : f[i] \in Curves}
  <2>1. 0 \in H
    BY <1>6 DEF AtStart, Curves
  <2>2. ASSUME NEW k \in 1 .. n, k - 1 \in H PROVE k \in H
    <3>1. f[k] = step[k][f[k - 1]] /\ k \in 0 .. n /\ ps[k] \in Int
      BY <1>2, <1>6
    <3>2. f[k] = AfterTrade(f[k - 1], ps[k])
      BY <1>3, <2>2, <3>1
    <3> QED  BY <2>2, <3>1, <3>2, AfterTradeType
  <2> HIDE DEF H
  <2>3. \A k \in 0 .. n : k \in H
    BY <1>2, <2>1, <2>2, StepsKeep
  <2> QED  BY <2>3 DEF H
<1>8. Passed(f, ps)
  <2>1. \A i \in 0 .. n : i # 0 => f[i] = AfterTrade(f[i - 1], ps[i])
    <3> SUFFICES ASSUME NEW i \in 0 .. n, i # 0 PROVE f[i] = AfterTrade(f[i - 1], ps[i])
      OBVIOUS
    <3>1. i \in 1 .. n /\ i - 1 \in 0 .. n
      BY <1>2
    <3> QED  BY <1>3, <1>6, <1>7, <3>1
  <2> QED  BY <1>1, <1>5, <1>6, <2>1 DEF Passed, Steps
<1>9. PICK g : g = CHOOSE after : Passed(after, ps)
  OBVIOUS
<1>10. Passed(g, ps) /\ Curve(ps) = g[Len(ps)]
  <2>1. Curve(ps) = (CHOOSE after : Passed(after, ps))[Len(ps)]
    BY DEF Curve, Passed
  <2> QED  BY <1>8, <1>9, <2>1
<1>11. \A i \in 0 .. n : g[i] \in Curves
  <2>1. /\ g[0] = AtStart
        /\ \A i \in 0 .. n : i # 0 => g[i] = AfterTrade(g[i - 1], ps[i])
    BY <1>1, <1>2, <1>10, PassedAt
  <2> DEFINE H == {i \in 0 .. n : g[i] \in Curves}
  <2>2. 0 \in H
    BY <1>2, <2>1 DEF AtStart, Curves
  <2>3. ASSUME NEW k \in 1 .. n, k - 1 \in H PROVE k \in H
    <3>1. k \in 0 .. n /\ ps[k] \in Int /\ g[k] = AfterTrade(g[k - 1], ps[k])
      BY <1>2, <2>1
    <3> QED  BY <2>3, <3>1, AfterTradeType
  <2> HIDE DEF H
  <2>4. \A k \in 0 .. n : k \in H
    BY <1>2, <2>2, <2>3, StepsKeep
  <2> QED  BY <2>4 DEF H
<1> QED  BY <1>1, <1>10, <1>11

\* One more profit, one more step: the passes agree before it.
LEMMA CurveNext ==
  ASSUME NEW ps \in Seq(Int), NEW p \in Int, NEW qs, qs = Append(ps, p)
  PROVE  Curve(ps) \in Curves /\ Curve(qs) = AfterTrade(Curve(ps), p)
<1>1. PICK n : n = Len(ps)
  OBVIOUS
<1>2. /\ n \in Nat /\ qs \in Seq(Int) /\ Len(qs) = n + 1 /\ qs[n + 1] = p
      /\ \A i \in 1 .. n : qs[i] = ps[i]
  BY <1>1
<1>3. PICK f : /\ Passed(f, ps) /\ Curve(ps) = f[n] /\ \A i \in 0 .. n : f[i] \in Curves
  BY <1>1, CurvePassed
<1>4. PICK g : Passed(g, qs) /\ Curve(qs) = g[n + 1]
  BY <1>2, CurvePassed
<1>5. /\ f[0] = AtStart
      /\ \A i \in 0 .. n : i # 0 => f[i] = AfterTrade(f[i - 1], ps[i])
  <2>1. n \in Nat /\ n = Len(ps) /\ Passed(f, ps)
    BY <1>1, <1>2, <1>3
  <2> QED  BY <2>1, PassedAt
<1>6. /\ g[0] = AtStart
      /\ \A i \in 0 .. n + 1 : i # 0 => g[i] = AfterTrade(g[i - 1], qs[i])
  <2>1. n + 1 \in Nat /\ n + 1 = Len(qs)
    BY <1>2
  <2> QED  BY <1>4, <2>1, PassedAt
<1>7. \A i \in 0 .. n : g[i] = f[i]
  <2> DEFINE H == {i \in 0 .. n : g[i] = f[i]}
  <2>1. 0 \in H
    BY <1>2, <1>5, <1>6
  <2>2. ASSUME NEW k \in 1 .. n, k - 1 \in H PROVE k \in H
    <3>1. k \in 0 .. n /\ k \in 0 .. n + 1 /\ k # 0 /\ qs[k] = ps[k]
      BY <1>2
    <3> QED  BY <1>5, <1>6, <2>2, <3>1
  <2> HIDE DEF H
  <2>3. \A k \in 0 .. n : k \in H
    BY <1>2, <2>1, <2>2, StepsKeep
  <2> QED  BY <2>3 DEF H
<1>8. g[n + 1] = AfterTrade(g[n], qs[n + 1]) /\ n \in 0 .. n
  <2>1. n + 1 \in 0 .. n + 1 /\ n + 1 # 0 /\ (n + 1) - 1 = n /\ n \in 0 .. n
    BY <1>2
  <2> QED  BY <1>6, <2>1
<1> QED  BY <1>2, <1>3, <1>4, <1>7, <1>8

\* Nothing traded, nothing lost.
LEMMA CurveAtStart == Curve(<<>>) = AtStart
<1>1. <<>> \in Seq(Int) /\ Len(<<>>) = 0
  OBVIOUS
<1>2. PICK f : Passed(f, <<>>) /\ Curve(<<>>) = f[0]
  BY <1>1, CurvePassed
<1> QED  BY <1>1, <1>2 DEF Passed

\* What a pass over the trades has collected for a strategy.
Collected(upto, ts, s) ==
  upto = [i \in 0 .. Len(ts) |->
            IF i = 0 THEN <<>>
            ELSE IF ts[i].strategy = s THEN Append(upto[i - 1], ts[i].profit)
            ELSE upto[i - 1]]

\* The pass that Profits chooses exists.
LEMMA ProfitsCollected ==
  ASSUME NEW ts, Len(ts) \in Nat, NEW s
  PROVE  \E upto : Collected(upto, ts, s) /\ Profits(ts, s) = upto[Len(ts)]
<1> DEFINE Body(g, i) == IF i = 0 THEN <<>>
                         ELSE IF ts[i].strategy = s THEN Append(g[i - 1], ts[i].profit)
                         ELSE g[i - 1]
           G == {m \in Nat : \E g : g = [i \in 0 .. m |-> Body(g, i)]}
<1>1. 0 \in G
  <2>1. PICK g : g = [i \in 0 .. 0 |-> <<>>]
    OBVIOUS
  <2>2. g = [i \in 0 .. 0 |-> Body(g, i)]
    BY <2>1
  <2> QED  BY <2>2
<1>2. ASSUME NEW m \in G PROVE m + 1 \in G
  <2>1. PICK g : g = [i \in 0 .. m |-> Body(g, i)]
    OBVIOUS
  <2>2. PICK h : h = [i \in 0 .. m + 1 |-> Body(g, i)]
    OBVIOUS
  <2>3. \A i \in 0 .. m : h[i] = g[i]
    <3> HIDE DEF Body
    <3>1. \A i \in 0 .. m : i \in 0 .. m + 1
      OBVIOUS
    <3>2. \A i \in 0 .. m : g[i] = Body(g, i)
      BY <2>1
    <3> QED  BY <2>2, <3>1, <3>2
  <2>4. \A i \in 0 .. m + 1 : Body(g, i) = Body(h, i)
    <3>1. \A i \in 0 .. m + 1 : i # 0 => i - 1 \in 0 .. m
      OBVIOUS
    <3> QED  BY <2>3, <3>1
  <2>5. h = [i \in 0 .. m + 1 |-> Body(h, i)]
    <3>1. PICK b : b = [i \in 0 .. m + 1 |-> Body(h, i)]
      OBVIOUS
    <3> HIDE DEF Body
    <3>2. \A i \in 0 .. m + 1 : h[i] = b[i]
      BY <2>2, <2>4, <3>1
    <3>3. DOMAIN h = 0 .. m + 1 /\ DOMAIN b = 0 .. m + 1
      BY <2>2, <3>1
    <3>4. h = [i \in 0 .. m + 1 |-> h[i]] /\ b = [i \in 0 .. m + 1 |-> b[i]]
      BY <2>2, <3>1
    <3> QED  BY <3>1, <3>2, <3>4
  <2>6. m + 1 \in Nat /\ \E k : k = [i \in 0 .. m + 1 |-> Body(k, i)]
    <3> HIDE DEF Body
    <3> QED  BY <2>5
  <2> QED  BY <2>6
<1>3. Len(ts) \in G
  <2>1. G = Nat
    <3> HIDE DEF G
    <3> QED  BY <1>1, <1>2, AllNumbers DEF G
  <2> QED  BY <2>1
<1>4. \E upto : Collected(upto, ts, s)
  BY <1>3 DEF Collected
<1>5. Profits(ts, s) = (CHOOSE upto : Collected(upto, ts, s))[Len(ts)]
  BY DEF Profits, Collected
<1>6. PICK g : g = CHOOSE upto : Collected(upto, ts, s)
  OBVIOUS
<1> QED  BY <1>4, <1>5, <1>6

-----------------------------------------------------------------------------
(* Sums of functions. *)

Extended(a, b, k) ==
  /\ IsFiniteSet(DOMAIN a) /\ k \notin DOMAIN a /\ DOMAIN b = DOMAIN a \cup {k}
  /\ \A i \in DOMAIN a : a[i] \in Int /\ b[i] = a[i]
  /\ b[k] \in Int

\* A sum with one value more.
LEMMA SumExtended ==
  ASSUME NEW a, NEW b, NEW k, Extended(a, b, k)
  PROVE  SumFunction(a) \in Int /\ SumFunction(b) = SumFunction(a) + b[k]
<1>1. IsFiniteSet(DOMAIN b)
  BY FS_AddElement DEF Extended
<1>2. Grows(a, DOMAIN a, b, DOMAIN b, k)
  BY <1>1 DEF Extended, Grows
<1> QED  BY <1>2, SumGrows DEF SumFunction

LEMMA SumEmpty == ASSUME NEW a, DOMAIN a = {} PROVE SumFunction(a) = 0
  BY SumOfNone DEF SumFunction

LEMMA SumInt ==
  ASSUME NEW a, IsFiniteSet(DOMAIN a), \A i \in DOMAIN a : a[i] \in Int
  PROVE  SumFunction(a) \in Int
  BY SumSplit DEF SumFunction

Squares(a) == [i \in DOMAIN a |-> a[i] * a[i]]

LEMMA SquaresInt ==
  ASSUME NEW a, IsFiniteSet(DOMAIN a), \A i \in DOMAIN a : a[i] \in Int
  PROVE  /\ DOMAIN Squares(a) = DOMAIN a
         /\ \A i \in DOMAIN a : Squares(a)[i] = a[i] * a[i] /\ Squares(a)[i] \in Int
         /\ SumFunction(Squares(a)) \in Int
<1>1. \A x \in Int : x * x \in Int
  OBVIOUS
<1>2. PICK b : b = Squares(a)
  OBVIOUS
<1>3. DOMAIN b = DOMAIN a /\ \A i \in DOMAIN a : b[i] = a[i] * a[i]
  BY <1>2 DEF Squares
<1>4. \A i \in DOMAIN a : b[i] \in Int
  BY <1>1, <1>3
<1>5. SumFunction(b) \in Int
  BY <1>3, <1>4, SumInt
<1> QED  BY <1>2, <1>3, <1>4, <1>5

\* The squares of c times a value less b, summed.
SquaredFrom(a, T, w, c, b) ==
  /\ IsFiniteSet(T) /\ c \in Int /\ b \in Int
  /\ \A i \in T : a[i] \in Int /\ w[i] = (c * a[i] - b) * (c * a[i] - b)

MultipliedOut(c, b, n, sum, squares) == c * c * squares - 2 * c * b * sum + n * b * b

\* (c x - b)^2 over a set, by the sums of its values and of their squares.
LEMMA SquareSums ==
  ASSUME NEW a, NEW T, NEW w, NEW c, NEW b, SquaredFrom(a, T, w, c, b), T = DOMAIN a
  PROVE  SumFunctionOnSet(w, T)
           = MultipliedOut(c, b, Cardinality(T), SumFunction(a), SumFunction(Squares(a)))
<1>1. PICK sq : sq = Squares(a)
  OBVIOUS
<1>2. /\ \A i \in T : sq[i] = a[i] * a[i]
      /\ SumFunction(Squares(a)) = SumFunctionOnSet(sq, T)
      /\ SumFunction(a) = SumFunctionOnSet(a, T)
  BY <1>1 DEF Squares, SumFunction
<1> DEFINE Holds(s) == SumFunctionOnSet(w, s) = c * c * SumFunctionOnSet(sq, s)
                                                - 2 * c * b * SumFunctionOnSet(a, s)
                                                + Cardinality(s) * b * b
           bad == {s \in SUBSET T : ~Holds(s)}
<1>3. c \in Int /\ b \in Int
  BY DEF SquaredFrom
<1>4. Holds({})
  <2>1. c * c * 0 - 2 * c * b * 0 + 0 * b * b = 0
    BY <1>3
  <2> QED  BY <2>1, SumOfNone, FS_EmptySet
<1>5. ASSUME NEW s \in bad PROVE \E x \in s : s \ {x} \in bad
  <2>1. PICK x \in s : TRUE
    BY <1>4
  <2>2. PICK t : t = s \ {x}
    OBVIOUS
  <2>3. IsFiniteSet(s) /\ IsFiniteSet(t) /\ t \in SUBSET T /\ x \in T
    BY <2>2, FS_Subset DEF SquaredFrom
  <2>4. \A i \in T : w[i] \in Int /\ sq[i] \in Int /\ a[i] \in Int
    <3> SUFFICES ASSUME NEW i \in T PROVE w[i] \in Int /\ sq[i] \in Int /\ a[i] \in Int
      OBVIOUS
    <3>1. PICK y : y = a[i]
      OBVIOUS
    <3>2. y \in Int /\ w[i] = (c * y - b) * (c * y - b) /\ sq[i] = y * y
      BY <1>2, <3>1 DEF SquaredFrom
    <3>3. (c * y - b) * (c * y - b) \in Int /\ y * y \in Int
      BY <1>3, <3>2
    <3> QED  BY <3>1, <3>2, <3>3
  <2>5. /\ SumFunctionOnSet(w, s) = w[x] + SumFunctionOnSet(w, t)
        /\ SumFunctionOnSet(sq, s) = sq[x] + SumFunctionOnSet(sq, t)
        /\ SumFunctionOnSet(a, s) = a[x] + SumFunctionOnSet(a, t)
    <3>1. /\ \A i \in s : w[i] \in Int
          /\ \A i \in s : sq[i] \in Int
          /\ \A i \in s : a[i] \in Int
      BY <2>4
    <3> HIDE DEF bad, Holds
    <3>2. \A f : (\A i \in s : f[i] \in Int)
                => SumFunctionOnSet(f, s) = f[x] + SumFunctionOnSet(f, t)
      BY <2>2, <2>3, SumSplit
    <3> QED  BY <3>1, <3>2
  <2>6. /\ SumFunctionOnSet(w, t) \in Int /\ SumFunctionOnSet(sq, t) \in Int
        /\ SumFunctionOnSet(a, t) \in Int
    BY <2>3, <2>4, SumSplit
  <2>7. Cardinality(t) \in Nat /\ Cardinality(s) = Cardinality(t) + 1
    <3>1. s = t \cup {x} /\ x \notin t
      BY <2>2
    <3> QED  BY <2>3, <3>1, FS_AddElement, FS_CardinalityType
  <2>8. PICK W, Q, A, n, y : /\ W = SumFunctionOnSet(w, t) /\ Q = SumFunctionOnSet(sq, t)
                             /\ A = SumFunctionOnSet(a, t) /\ n = Cardinality(t) /\ y = a[x]
    OBVIOUS
  <2>9. W \in Int /\ Q \in Int /\ A \in Int /\ n \in Int /\ y \in Int
    BY <2>3, <2>4, <2>6, <2>7, <2>8
  <2>10. w[x] = (c * y - b) * (c * y - b) /\ sq[x] = y * y
    BY <1>2, <2>3, <2>8 DEF SquaredFrom
  <2>11. ASSUME Holds(t) PROVE Holds(s)
    <3>1. W = c * c * Q - 2 * c * b * A + n * b * b
      BY <2>8, <2>11
    <3>2. (c * y - b) * (c * y - b) + (c * c * Q - 2 * c * b * A + n * b * b)
            = c * c * (y * y + Q) - 2 * c * b * (y + A) + (n + 1) * b * b
      BY <1>3, <2>9
    <3>3. SumFunctionOnSet(w, s) = (c * y - b) * (c * y - b) + W
      BY <2>5, <2>8, <2>10
    <3>4. /\ SumFunctionOnSet(sq, s) = y * y + Q /\ SumFunctionOnSet(a, s) = y + A
          /\ Cardinality(s) = n + 1
      BY <2>5, <2>7, <2>8, <2>10
    <3> QED  BY <3>1, <3>2, <3>3, <3>4
  <2> HIDE DEF Holds
  <2>12. t \in bad
    BY <2>3, <2>11
  <2> QED  BY <2>2, <2>12
<1>6. bad = {}
  <2> HIDE DEF Holds
  <2>1. IsFiniteSet(T) /\ bad \in SUBSET SUBSET T
    BY DEF SquaredFrom
  <2> HIDE DEF bad
  <2> QED  BY <1>5, <2>1, NoSmallest
<1>7. Holds(T)
  <2> HIDE DEF Holds
  <2> QED  BY <1>6
<1> QED  BY <1>2, <1>7 DEF MultipliedOut

-----------------------------------------------------------------------------
(* What one more trade does to the definitions over the places of trades.  *)

\* q has a place more than p, after all of them.
Later(p, q, k) ==
  /\ Extended(p, q, k)
  /\ DOMAIN p \subseteq Nat \ {0} /\ k \in Nat \ {0}
  /\ \A i \in DOMAIN p : i < k

Gaps(p) == [e \in Pairs(DOMAIN p) |-> (p[e[1]] - p[e[2]]) * (p[e[1]] - p[e[2]])]

LEMMA GapsInt ==
  ASSUME NEW p, IsFiniteSet(DOMAIN p), \A i \in DOMAIN p : p[i] \in Int
  PROVE  /\ DOMAIN Gaps(p) = Pairs(DOMAIN p) /\ IsFiniteSet(Pairs(DOMAIN p))
         /\ \A e \in Pairs(DOMAIN p) : Gaps(p)[e] \in Int
<1>1. \A T : IsFiniteSet(T) => IsFiniteSet(Pairs(T))
  <2> SUFFICES ASSUME NEW T, IsFiniteSet(T) PROVE IsFiniteSet(Pairs(T))
    OBVIOUS
  <2>1. PICK C : C = T \X T
    OBVIOUS
  <2>2. IsFiniteSet(C)
    BY <2>1, FS_Product
  <2>3. Pairs(T) \in SUBSET C
    BY <2>1 DEF Pairs
  <2> QED  BY <2>2, <2>3, FS_Subset
<1>2. \A T : \A e \in Pairs(T) : e[1] \in T /\ e[2] \in T
  BY DEF Pairs
<1>3. IsFiniteSet(Pairs(DOMAIN p))
  BY <1>1
<1>4. ASSUME NEW e \in Pairs(DOMAIN p) PROVE Gaps(p)[e] \in Int
  <2>1. PICK x, y : x = p[e[1]] /\ y = p[e[2]]
    OBVIOUS
  <2>2. x \in Int /\ y \in Int
    BY <1>2, <2>1
  <2>3. (x - y) * (x - y) \in Int
    BY <2>2
  <2>4. Gaps(p)[e] = (p[e[1]] - p[e[2]]) * (p[e[1]] - p[e[2]])
    BY DEF Gaps
  <2> QED  BY <2>1, <2>3, <2>4
<1> QED  BY <1>3, <1>4 DEF Gaps

\* The new place pairs with all those before it.
LEMMA PairsLater ==
  ASSUME NEW T, NEW k \in Nat, T \subseteq Nat, \A i \in T : i < k
  PROVE  Pairs(T \cup {k}) = Pairs(T) \cup {<<i, k>> : i \in T}
<1>1. \A e \in Pairs(T \cup {k}) : e \in Pairs(T) \cup {<<i, k>> : i \in T}
  <2> SUFFICES ASSUME NEW e \in Pairs(T \cup {k})
               PROVE  e \in Pairs(T) \cup {<<i, k>> : i \in T}
    OBVIOUS
  <2>1. PICK a \in T \cup {k}, b \in T \cup {k} : e = <<a, b>> /\ a < b
    <3>1. e \in (T \cup {k}) \X (T \cup {k}) /\ e[1] < e[2]
      BY DEF Pairs
    <3>2. e = <<e[1], e[2]>> /\ e[1] \in T \cup {k} /\ e[2] \in T \cup {k}
      BY <3>1
    <3> QED  BY <3>1, <3>2
  <2>2. a \in T
    BY <2>1
  <2>3. CASE b = k
    BY <2>1, <2>2, <2>3
  <2>4. CASE b \in T
    BY <2>1, <2>2, <2>4 DEF Pairs
  <2> QED  BY <2>1, <2>3, <2>4
<1>2. \A i \in T : <<i, k>> \in Pairs(T \cup {k})
  BY DEF Pairs
<1>3. Pairs(T) \subseteq Pairs(T \cup {k})
  BY DEF Pairs
<1> QED  BY <1>1, <1>2, <1>3

\* So the new differences are those of the new profit to every earlier one.
LEMMA SpreadLater ==
  ASSUME NEW p, NEW q, NEW k, Later(p, q, k), NEW w,
         \A i \in DOMAIN p : w[i] = (p[i] - q[k]) * (p[i] - q[k])
  PROVE  Spread(p) \in Int /\ Spread(q) = Spread(p) + SumFunctionOnSet(w, DOMAIN p)
<1>1. PICK T, P, D, G : /\ T = DOMAIN p /\ P = Pairs(T) /\ D = Gaps(q) /\ G = Gaps(p)
  OBVIOUS
<1>2. /\ IsFiniteSet(T) /\ k \notin T /\ k \in Nat /\ T \subseteq Nat
      /\ DOMAIN q = T \cup {k} /\ IsFiniteSet(DOMAIN q)
  BY <1>1, FS_AddElement DEF Later, Extended
<1>3. /\ \A i \in T : p[i] \in Int /\ q[i] = p[i] /\ i < k
      /\ q[k] \in Int
  BY <1>1 DEF Later, Extended
<1>4. \A i \in DOMAIN q : q[i] \in Int
  BY <1>2, <1>3
<1>5. /\ IsFiniteSet(P) /\ \A e \in P : G[e] \in Int
      /\ DOMAIN D = Pairs(DOMAIN q) /\ IsFiniteSet(DOMAIN D) /\ \A e \in DOMAIN D : D[e] \in Int
  BY <1>1, <1>2, <1>3, <1>4, GapsInt
<1>6. DOMAIN D = P \cup {<<i, k>> : i \in T}
  BY <1>1, <1>2, <1>3, <1>5, PairsLater
<1>7. \A e \in P : D[e] = G[e]
  <2> SUFFICES ASSUME NEW e \in P PROVE D[e] = G[e]
    OBVIOUS
  <2>1. e[1] \in T /\ e[2] \in T
    BY <1>1 DEF Pairs
  <2>2. q[e[1]] = p[e[1]] /\ q[e[2]] = p[e[2]]
    BY <1>3, <2>1
  <2>3. D[e] = (q[e[1]] - q[e[2]]) * (q[e[1]] - q[e[2]])
    BY <1>1, <1>5, <1>6 DEF Gaps
  <2>4. G[e] = (p[e[1]] - p[e[2]]) * (p[e[1]] - p[e[2]])
    BY <1>1 DEF Gaps
  <2> QED  BY <2>2, <2>3, <2>4
<1>8. \A i \in T : w[i] \in Int /\ D[<<i, k>>] = w[i]
  <2> SUFFICES ASSUME NEW i \in T PROVE w[i] \in Int /\ D[<<i, k>>] = w[i]
    OBVIOUS
  <2>1. <<i, k>> \in Pairs(DOMAIN q)
    BY <1>5, <1>6
  <2>2. D[<<i, k>>] = (q[i] - q[k]) * (q[i] - q[k])
    BY <1>1, <2>1 DEF Gaps
  <2>3. w[i] = (p[i] - q[k]) * (p[i] - q[k])
    BY <1>1
  <2>4. D[<<i, k>>] \in Int
    BY <1>5, <2>1
  <2> QED  BY <1>3, <2>2, <2>3, <2>4
<1> DEFINE N(s) == {<<i, k>> : i \in s}
           Holds(s) == SumFunctionOnSet(D, P \cup N(s))
                         = SumFunctionOnSet(G, P) + SumFunctionOnSet(w, s)
           bad == {s \in SUBSET T : ~Holds(s)}
<1>9. SumFunctionOnSet(G, P) \in Int
  BY <1>5, SumSplit
<1>10. Holds({})
  <2>1. P \cup N({}) = P
    OBVIOUS
  <2>2. SumFunctionOnSet(G, P) = SumFunctionOnSet(D, P)
    BY <1>5, <1>7, SumSame
  <2>3. SumFunctionOnSet(w, {}) = 0
    BY SumOfNone
  <2>4. PICK X, Y : X = SumFunctionOnSet(D, P) /\ Y = SumFunctionOnSet(w, {})
    OBVIOUS
  <2>5. SumFunctionOnSet(D, P \cup N({})) = X
    BY <2>1, <2>4
  <2>6. X \in Int /\ Y = 0 /\ SumFunctionOnSet(G, P) = X /\ X = X + Y
    BY <1>9, <2>2, <2>3, <2>4
  <2> QED  BY <2>4, <2>5, <2>6
<1>11. ASSUME NEW s \in bad PROVE \E x \in s : s \ {x} \in bad
  <2>1. PICK x \in s : TRUE
    BY <1>10
  <2>2. PICK t : t = s \ {x}
    OBVIOUS
  <2>3. IsFiniteSet(s) /\ IsFiniteSet(t) /\ s \in SUBSET T /\ t \in SUBSET T /\ x \in T
    BY <1>2, <2>2, FS_Subset
  <2>4. PICK U, V : U = P \cup N(s) /\ V = P \cup N(t)
    OBVIOUS
  <2>5. /\ <<x, k>> \in U /\ V = U \ {<<x, k>>}
    <3>1. <<x, k>> \notin P
      BY <1>1, <1>2 DEF Pairs
    <3>2. N(t) = N(s) \ {<<x, k>>}
      BY <2>2
    <3> QED  BY <2>4, <3>1, <3>2
  <2>6. U \in SUBSET DOMAIN D
    BY <1>6, <2>3, <2>4
  <2> HIDE DEF N, bad, Holds
  <2>7. IsFiniteSet(U) /\ \A e \in U : D[e] \in Int
    BY <1>5, <2>6, FS_Subset
  <2>8. SumFunctionOnSet(D, U) = D[<<x, k>>] + SumFunctionOnSet(D, V)
    BY <2>5, <2>7, SumSplit
  <2>9. \A i \in s : w[i] \in Int
    BY <1>8, <2>3
  <2>10. \A i \in t : w[i] \in Int
    BY <1>8, <2>3
  <2>11. SumFunctionOnSet(w, s) = w[x] + SumFunctionOnSet(w, t)
    BY <2>2, <2>3, <2>9, SumSplit
  <2>12. SumFunctionOnSet(w, t) \in Int
    BY <2>3, <2>10, SumSplit
  <2>13. ASSUME Holds(t) PROVE Holds(s)
    <3>1. SumFunctionOnSet(D, V) = SumFunctionOnSet(G, P) + SumFunctionOnSet(w, t)
      BY <2>4, <2>13 DEF Holds
    <3>2. w[x] \in Int /\ D[<<x, k>>] = w[x]
      BY <1>8, <2>3
    <3>3. SumFunctionOnSet(D, U) = SumFunctionOnSet(G, P) + SumFunctionOnSet(w, s)
      BY <1>9, <2>8, <2>11, <2>12, <3>1, <3>2
    <3> QED  BY <2>4, <3>3 DEF Holds
  <2>14. t \in bad
    BY <2>3, <2>13 DEF bad
  <2> QED  BY <2>2, <2>14
<1> HIDE DEF Holds
<1>12. bad = {}
  <2>1. bad \in SUBSET SUBSET T
    OBVIOUS
  <2> HIDE DEF bad
  <2> QED  BY <1>2, <1>11, <2>1, NoSmallest
<1>13. Holds(T)
  BY <1>12
<1>14. SumFunctionOnSet(D, DOMAIN D) = SumFunctionOnSet(G, P) + SumFunctionOnSet(w, T)
  BY <1>6, <1>13 DEF Holds
<1>15. Spread(p) = SumFunction(G) /\ Spread(q) = SumFunction(D)
  BY <1>1 DEF Spread, Gaps
<1>16. DOMAIN G = P
  BY <1>1 DEF Gaps
<1> QED  BY <1>1, <1>9, <1>14, <1>15, <1>16 DEF SumFunction

\* The curve is what it was up to the new place, where it ends in the total.
LEMMA EquityLater ==
  ASSUME NEW p, NEW q, NEW k, Later(p, q, k)
  PROVE  /\ \A i \in {0} \cup DOMAIN p : Equity(p, i) \in Int /\ Equity(q, i) = Equity(p, i)
         /\ Equity(q, k) = SumFunction(p) + q[k] /\ SumFunction(p) \in Int
<1>1. PICK T : T = DOMAIN p
  OBVIOUS
<1>2. /\ IsFiniteSet(T) /\ DOMAIN q = T \cup {k} /\ T \subseteq Nat /\ k \in Nat \ {0}
      /\ \A i \in T : p[i] \in Int /\ q[i] = p[i] /\ i < k
  BY <1>1 DEF Later, Extended
<1>3. ASSUME NEW i \in {0} \cup T
      PROVE  Equity(p, i) \in Int /\ Equity(q, i) = Equity(p, i)
  <2>1. PICK S : S = {j \in T : j <= i}
    OBVIOUS
  <2>2. {j \in DOMAIN q : j <= i} = S
    <3>1. i \in Nat /\ i < k
      BY <1>2
    <3>2. ~(k <= i)
      <4>1. k \in Nat
        BY <1>2
      <4> QED  BY <3>1, <4>1
    <3> QED  BY <1>2, <2>1, <3>2
  <2>3. IsFiniteSet(S) /\ \A j \in S : p[j] \in Int /\ p[j] = q[j]
    BY <1>2, <2>1, FS_Subset
  <2>4. SumFunctionOnSet(p, S) \in Int /\ SumFunctionOnSet(p, S) = SumFunctionOnSet(q, S)
    BY <2>3, SumSplit, SumSame
  <2> QED  BY <1>1, <2>1, <2>2, <2>4 DEF Equity
<1>4. Equity(q, k) = SumFunction(p) + q[k] /\ SumFunction(p) \in Int
  <2>1. {j \in DOMAIN q : j <= k} = DOMAIN q
    <3>1. \A j \in T : j \in Nat /\ j < k
      BY <1>2
    <3>2. k \in Nat /\ DOMAIN q = T \cup {k}
      BY <1>2
    <3>3. \A j \in DOMAIN q : j <= k
      BY <3>1, <3>2
    <3> QED  BY <3>3
  <2>2. Equity(q, k) = SumFunction(q)
    BY <2>1 DEF Equity, SumFunction
  <2> QED  BY <2>2, SumExtended DEF Later
<1> QED  BY <1>1, <1>3, <1>4

FallsTo(e, p) == {Equity(p, i) - e : i \in {0} \cup DOMAIN p}

LEMMA FallsLater ==
  ASSUME NEW p, NEW q, NEW k, Later(p, q, k)
  PROVE  Falls(q) = Falls(p) \cup FallsTo(Equity(q, k), p)
<1>1. PICK U, e : U = {0} \cup DOMAIN p /\ e = Equity(q, k)
  OBVIOUS
<1>2. /\ {0} \cup DOMAIN q = U \cup {k} /\ U \subseteq Nat /\ k \in Nat
      /\ \A i \in U : i < k
  BY <1>1 DEF Later, Extended
<1>3. Pairs({0} \cup DOMAIN q) = Pairs(U) \cup {<<i, k>> : i \in U}
  BY <1>2, PairsLater
<1>4. \A i \in U : Equity(q, i) = Equity(p, i)
  BY <1>1, EquityLater
<1>5. \A x \in Pairs(U) : x[1] \in U /\ x[2] \in U
  BY DEF Pairs
<1>6. \A x \in Pairs(U) : Equity(q, x[1]) - Equity(q, x[2]) = Equity(p, x[1]) - Equity(p, x[2])
  BY <1>4, <1>5
<1>7. Falls(q) = {Equity(q, x[1]) - Equity(q, x[2]) : x \in Pairs(U)}
                 \cup {Equity(q, i) - e : i \in U}
  <2> DEFINE fall(x) == Equity(q, x[1]) - Equity(q, x[2])
  <2>1. Falls(q) = {fall(x) : x \in Pairs({0} \cup DOMAIN q)}
    BY DEF Falls
  <2>2. \A i \in U : fall(<<i, k>>) = Equity(q, i) - e
    BY <1>1
  <2> HIDE DEF fall
  <2>3. Falls(q) = {fall(x) : x \in Pairs(U)} \cup {fall(<<i, k>>) : i \in U}
    BY <1>3, <2>1
  <2>4. {fall(<<i, k>>) : i \in U} = {Equity(q, i) - e : i \in U}
    BY <2>2
  <2> QED  BY <2>3, <2>4 DEF fall
<1>8. Falls(p) = {Equity(p, x[1]) - Equity(p, x[2]) : x \in Pairs(U)}
  BY <1>1 DEF Falls
<1>9. {Equity(q, x[1]) - Equity(q, x[2]) : x \in Pairs(U)} = Falls(p)
  BY <1>6, <1>8
<1>10. {Equity(q, i) - e : i \in U} = {Equity(p, i) - e : i \in U}
  BY <1>4
<1>11. FallsTo(e, p) = {Equity(p, i) - e : i \in U}
  BY <1>1 DEF FallsTo
<1> QED  BY <1>1, <1>7, <1>9, <1>10, <1>11

\* What one pass knows of the curve: its end, its highest point and its deepest
\* fall.
Highest(x, p) ==
  /\ \E i \in {0} \cup DOMAIN p : x = Equity(p, i)
  /\ \A i \in {0} \cup DOMAIN p : Equity(p, i) <= x
Deepest(x, p) == x \in {0} \cup Falls(p) /\ \A f \in {0} \cup Falls(p) : f <= x

OnCurve(c, p) ==
  c \in Curves /\ c.eq = SumFunction(p) /\ Highest(c.peak, p) /\ Deepest(c.dd, p)

\* One step of the pass keeps it: a fall to the new point starts no higher than
\* the highest point so far.
LEMMA OnCurveLater ==
  ASSUME NEW p, NEW q, NEW k, Later(p, q, k), NEW c, OnCurve(c, p)
  PROVE  OnCurve(AfterTrade(c, q[k]), q)
<1>1. PICK h, d, e, U : /\ h = c.peak /\ d = c.dd /\ e = SumFunction(p) + q[k]
                        /\ U = {0} \cup DOMAIN p
  OBVIOUS
<1>2. /\ c \in Curves /\ c.eq = SumFunction(p) /\ Highest(h, p) /\ Deepest(d, p)
  BY <1>1 DEF OnCurve
<1>3. h \in Int /\ d \in Int /\ e \in Int /\ q[k] \in Int /\ e = Equity(q, k)
  <2>1. SumFunction(p) \in Int /\ Equity(q, k) = SumFunction(p) + q[k] /\ q[k] \in Int
    BY EquityLater DEF Later, Extended
  <2> QED  BY <1>1, <1>2, <2>1 DEF Curves
<1>4. {0} \cup DOMAIN q = U \cup {k}
  BY <1>1 DEF Later, Extended
<1>5. \A i \in U : Equity(p, i) \in Int /\ Equity(q, i) = Equity(p, i)
  BY <1>1, EquityLater
<1>6. PICK g, b : g = Larger(e, h) /\ b = Larger(g - e, d)
  OBVIOUS
<1>7. AfterTrade(c, q[k]) = [eq |-> e, peak |-> g, dd |-> b]
  BY <1>1, <1>2, <1>6 DEF AfterTrade
<1>8. g \in Int /\ b \in Int /\ g \in {e, h} /\ e <= g /\ h <= g
      /\ b \in {g - e, d} /\ g - e <= b /\ d <= b
  <2>1. g \in Int /\ g \in {e, h} /\ e <= g /\ h <= g
    BY <1>3, <1>6 DEF Larger
  <2>2. g - e \in Int
    BY <1>3, <2>1
  <2> QED  BY <1>3, <1>6, <2>1, <2>2 DEF Larger
<1>9. (\E i \in U : h = Equity(p, i)) /\ \A i \in U : Equity(p, i) <= h
  BY <1>1, <1>2 DEF Highest
<1>10. Highest(g, q)
  <2>1. \E i \in U \cup {k} : g = Equity(q, i)
    BY <1>3, <1>5, <1>8, <1>9
  <2>2. \A i \in U \cup {k} : Equity(q, i) <= g
    BY <1>3, <1>5, <1>8, <1>9
  <2> QED  BY <1>4, <2>1, <2>2 DEF Highest
<1>11. Falls(q) = Falls(p) \cup {Equity(p, i) - e : i \in U}
  <2>1. Falls(q) = Falls(p) \cup FallsTo(e, p)
    BY <1>3, FallsLater
  <2>2. FallsTo(e, p) = {Equity(p, i) - e : i \in U}
    BY <1>1 DEF FallsTo
  <2> QED  BY <2>1, <2>2
<1>12. d \in {0} \cup Falls(p) /\ \A f \in {0} \cup Falls(p) : f <= d
  BY <1>2 DEF Deepest
<1>13. Deepest(b, q)
  <2>1. b \in {0} \cup Falls(q)
    <3>1. CASE b = d
      BY <1>11, <1>12, <3>1
    <3>2. CASE b = g - e /\ g = e
      BY <1>3, <3>2
    <3>3. CASE b = g - e /\ g = h
      BY <1>9, <1>11, <3>3
    <3> QED  BY <1>8, <3>1, <3>2, <3>3
  <2>2. ASSUME NEW f \in {0} \cup Falls(p) PROVE f <= b
    <3>1. \A r \in {0} \cup Falls(p) : r \in Int
      <4>1. \A x \in Pairs(U) : x[1] \in U /\ x[2] \in U
        BY DEF Pairs
      <4>2. \A x, y \in Int : x - y \in Int
        OBVIOUS
      <4>3. \A x \in Pairs(U) : Equity(p, x[1]) - Equity(p, x[2]) \in Int
        BY <1>5, <4>1, <4>2
      <4> QED  BY <1>1, <4>3 DEF Falls
    <3>2. f \in Int /\ f <= d
      BY <1>12, <3>1
    <3> QED  BY <1>3, <1>8, <3>2
  <2>3. ASSUME NEW i \in U PROVE Equity(p, i) - e <= b
    <3>1. PICK x : x = Equity(p, i)
      OBVIOUS
    <3>2. x \in Int /\ x <= h
      BY <1>5, <1>9, <3>1
    <3>3. x - e <= b
      BY <1>3, <1>8, <3>2
    <3> QED  BY <3>1, <3>3
  <2>4. \A f \in {0} \cup Falls(q) : f <= b
    BY <1>11, <2>2, <2>3
  <2> QED  BY <2>1, <2>4 DEF Deepest
<1>14. e = SumFunction(q)
  BY <1>1, SumExtended DEF Later
<1>15. [eq |-> e, peak |-> g, dd |-> b] \in Curves
  BY <1>3, <1>8 DEF Curves
<1> QED  BY <1>7, <1>10, <1>13, <1>14, <1>15 DEF OnCurve

LEMMA OnCurveAtStart ==
  ASSUME NEW p, DOMAIN p = {}
  PROVE  OnCurve(AtStart, p)
<1>1. Equity(p, 0) = 0 /\ SumFunction(p) = 0
  <2>1. {j \in DOMAIN p : j <= 0} = {}
    OBVIOUS
  <2> QED  BY <2>1, SumOfNone, SumEmpty DEF Equity
<1>2. Falls(p) = {}
  <2>1. {0} \cup DOMAIN p = {0}
    OBVIOUS
  <2>2. Pairs({0}) = {}
    BY DEF Pairs
  <2> QED  BY <2>1, <2>2 DEF Falls
<1>3. AtStart \in Curves /\ AtStart.eq = 0 /\ AtStart.peak = 0 /\ AtStart.dd = 0
  BY DEF AtStart, Curves
<1> QED  BY <1>1, <1>2, <1>3 DEF OnCurve, Highest, Deepest

-----------------------------------------------------------------------------
(* What the passes compute, one trade after the other.  *)

\* What one more profit adds to each of the totals, of a sequence or of places.
LEMMA AppendExtends ==
  ASSUME NEW ps \in Seq(Int), NEW x \in Int, NEW qs, qs = Append(ps, x), NEW n, n = Len(ps)
  PROVE  /\ qs \in Seq(Int) /\ n \in Nat /\ Len(qs) = n + 1
         /\ Extended(ps, qs, n + 1) /\ qs[n + 1] = x
<1>1. /\ n \in Nat /\ qs \in Seq(Int) /\ Len(qs) = n + 1 /\ qs[n + 1] = x
      /\ DOMAIN ps = 1 .. n /\ DOMAIN qs = 1 .. n + 1
  OBVIOUS
<1>2. \A i \in 1 .. n : ps[i] \in Int /\ qs[i] = ps[i]
  OBVIOUS
<1>3. IsFiniteSet(1 .. n)
  BY <1>1, FS_Interval
<1>4. n + 1 \notin 1 .. n /\ 1 .. n + 1 = (1 .. n) \cup {n + 1}
  BY <1>1
<1> QED  BY <1>1, <1>2, <1>3, <1>4 DEF Extended

LEMMA SquaresExtended ==
  ASSUME NEW a, NEW b, NEW k, Extended(a, b, k)
  PROVE  /\ SumFunction(Squares(a)) \in Int
         /\ SumFunction(Squares(b)) = SumFunction(Squares(a)) + b[k] * b[k]
<1>1. PICK f, g : f = Squares(a) /\ g = Squares(b)
  OBVIOUS
<1>2. \A x \in Int : x * x \in Int
  OBVIOUS
<1>3. DOMAIN f = DOMAIN a /\ DOMAIN g = DOMAIN b
  BY <1>1 DEF Squares
<1>4. \A i \in DOMAIN a : f[i] = a[i] * a[i]
  BY <1>1 DEF Squares
<1>5. \A i \in DOMAIN b : g[i] = b[i] * b[i]
  BY <1>1 DEF Squares
<1>6. \A i \in DOMAIN a : f[i] \in Int /\ g[i] = f[i]
  BY <1>2, <1>4, <1>5 DEF Extended
<1>7. g[k] = b[k] * b[k] /\ g[k] \in Int
  BY <1>2, <1>5 DEF Extended
<1>8. Extended(f, g, k)
  BY <1>3, <1>6, <1>7 DEF Extended
<1> QED  BY <1>1, <1>7, <1>8, SumExtended

One(x) == IF x > 0 THEN 1 ELSE 0
Gain(x) == IF x > 0 THEN x ELSE 0
Loss(x) == IF x < 0 THEN x ELSE 0

LEMMA WinsExtended ==
  ASSUME NEW a, NEW b, NEW k, Extended(a, b, k)
  PROVE  Wins(a) \in Int /\ Wins(b) = Wins(a) + One(b[k])
<1>1. PICK f, g : f = [i \in DOMAIN a |-> One(a[i])] /\ g = [i \in DOMAIN b |-> One(b[i])]
  OBVIOUS
<1>2. \A x \in Int : One(x) \in Int
  BY DEF One
<1>3. Extended(f, g, k) /\ g[k] = One(b[k])
  BY <1>1, <1>2 DEF Extended
<1>4. Wins(a) = SumFunction(f) /\ Wins(b) = SumFunction(g)
  BY <1>1 DEF Wins, One
<1> QED  BY <1>3, <1>4, SumExtended

LEMMA GainsExtended ==
  ASSUME NEW a, NEW b, NEW k, Extended(a, b, k)
  PROVE  Gains(a) \in Int /\ Gains(b) = Gains(a) + Gain(b[k])
<1>1. PICK f, g : f = [i \in DOMAIN a |-> Gain(a[i])] /\ g = [i \in DOMAIN b |-> Gain(b[i])]
  OBVIOUS
<1>2. \A x \in Int : Gain(x) \in Int
  BY DEF Gain
<1>3. Extended(f, g, k) /\ g[k] = Gain(b[k])
  BY <1>1, <1>2 DEF Extended
<1>4. Gains(a) = SumFunction(f) /\ Gains(b) = SumFunction(g)
  BY <1>1 DEF Gains, Gain
<1> QED  BY <1>3, <1>4, SumExtended

LEMMA LossesExtended ==
  ASSUME NEW a, NEW b, NEW k, Extended(a, b, k)
  PROVE  Losses(a) \in Int /\ Losses(b) = Losses(a) + Loss(b[k])
<1>1. PICK f, g : f = [i \in DOMAIN a |-> Loss(a[i])] /\ g = [i \in DOMAIN b |-> Loss(b[i])]
  OBVIOUS
<1>2. \A x \in Int : Loss(x) \in Int
  BY DEF Loss
<1>3. Extended(f, g, k) /\ g[k] = Loss(b[k])
  BY <1>1, <1>2 DEF Extended
<1>4. Losses(a) = SumFunction(f) /\ Losses(b) = SumFunction(g)
  BY <1>1 DEF Losses, Loss
<1> QED  BY <1>3, <1>4, SumExtended

Winners(p) == {i \in DOMAIN p : p[i] > 0}

LEMMA WinnersExtended ==
  ASSUME NEW a, NEW b, NEW k, Extended(a, b, k)
  PROVE  /\ Cardinality(Winners(a)) \in Nat /\ SumFunctionOnSet(a, Winners(a)) \in Int
         /\ Cardinality(Winners(b)) = Cardinality(Winners(a)) + One(b[k])
         /\ SumFunctionOnSet(b, Winners(b)) = SumFunctionOnSet(a, Winners(a)) + Gain(b[k])
<1>1. PICK S, U : S = Winners(a) /\ U = Winners(b)
  OBVIOUS
<1>2. /\ IsFiniteSet(S) /\ k \notin S
      /\ \A i \in S : a[i] \in Int /\ b[i] = a[i]
      /\ U = IF b[k] > 0 THEN S \cup {k} ELSE S
  <2>1. S \in SUBSET DOMAIN a
    BY <1>1 DEF Winners
  <2>2. IsFiniteSet(S)
    BY <2>1, FS_Subset DEF Extended
  <2> QED  BY <1>1, <2>1, <2>2 DEF Winners, Extended
<1>3. b[k] \in Int
  BY DEF Extended
<1>4. Cardinality(S) \in Nat /\ SumFunctionOnSet(a, S) \in Int
  BY <1>2, FS_CardinalityType, SumSplit
<1>5. CASE b[k] > 0
  <2>1. U = S \cup {k} /\ IsFiniteSet(U) /\ Cardinality(U) = Cardinality(S) + 1
    BY <1>2, <1>5, FS_AddElement
  <2>2. Grows(a, S, b, U, k)
    BY <1>2, <1>3, <2>1 DEF Grows
  <2>3. SumFunctionOnSet(b, U) = SumFunctionOnSet(a, S) + b[k]
    BY <2>2, SumGrows
  <2> QED  BY <1>1, <1>4, <1>5, <2>1, <2>3 DEF One, Gain
<1>6. CASE ~(b[k] > 0)
  <2>1. SumFunctionOnSet(a, S) = SumFunctionOnSet(b, S)
    BY <1>2, SumSame
  <2> QED  BY <1>1, <1>2, <1>4, <1>6, <2>1 DEF One, Gain
<1> QED  BY <1>5, <1>6

\* What a sequence of profits tells of the places they stand at.
Tells(ps, p) ==
  /\ ps \in Seq(Int) /\ Len(ps) = Cardinality(DOMAIN p)
  /\ SumFunction(ps) = SumFunction(p) /\ SumFunction(p) \in Int
  /\ SumFunction(Squares(ps)) = SumFunction(Squares(p)) /\ SumFunction(Squares(p)) \in Int
  /\ Wins(ps) = Cardinality(Winners(p))
  /\ Gains(ps) = SumFunctionOnSet(p, Winners(p)) /\ Gains(ps) \in Int
  /\ Losses(ps) = SumFunction(p) - Gains(ps)
  /\ Spread(p) = Len(ps) * SumFunction(Squares(p)) - SumFunction(p) * SumFunction(p)
  /\ OnCurve(Curve(ps), p)

\* The pairwise differences stay the size times the squares less the square of
\* the total.
LEMMA SpreadGrows ==
  ASSUME NEW p, NEW q, NEW k, Later(p, q, k), NEW n, n = Cardinality(DOMAIN p),
         NEW S, S = SumFunction(p), NEW Q, Q = SumFunction(Squares(p)), NEW x, x = q[k],
         Spread(p) = n * Q - S * S
  PROVE  Spread(q) = (n + 1) * (Q + x * x) - (S + x) * (S + x)
<1>1. PICK T : T = DOMAIN p
  OBVIOUS
<1>2. /\ IsFiniteSet(T) /\ \A i \in T : p[i] \in Int
      /\ x \in Int
  BY <1>1 DEF Later, Extended
<1>3. n \in Nat /\ S \in Int /\ Q \in Int
  BY <1>1, <1>2, FS_CardinalityType, SumInt, SquaresInt
<1>4. PICK w : w = [i \in T |-> (p[i] - x) * (p[i] - x)]
  OBVIOUS
<1>5. \A i \in DOMAIN p : w[i] = (p[i] - q[k]) * (p[i] - q[k])
  BY <1>1, <1>4
<1>6. Spread(p) \in Int /\ Spread(q) = Spread(p) + SumFunctionOnSet(w, T)
  BY <1>1, <1>5, SpreadLater
<1>7. PICK c : c = 1 /\ SquaredFrom(p, T, w, c, x)
  <2>1. \A y \in Int : 1 * y = y
    OBVIOUS
  <2>2. \A i \in T : w[i] = (1 * p[i] - x) * (1 * p[i] - x)
    BY <1>2, <1>4, <2>1
  <2> QED  BY <1>2, <2>2 DEF SquaredFrom
<1>8. SumFunctionOnSet(w, T) = MultipliedOut(c, x, n, S, Q)
  BY <1>1, <1>7, SquareSums
<1>9. MultipliedOut(c, x, n, S, Q) = Q - 2 * x * S + n * x * x
  <2>1. c * c * Q - 2 * c * x * S + n * x * x = Q - 2 * x * S + n * x * x
    <3>1. c * c * Q = Q /\ 2 * c * x = 2 * x
      BY <1>2, <1>3, <1>7
    <3> QED  BY <3>1
  <2> QED  BY <2>1 DEF MultipliedOut
<1>10. (n * Q - S * S) + (Q - 2 * x * S + n * x * x)
          = (n + 1) * (Q + x * x) - (S + x) * (S + x)
  <2>1. n \in Int /\ S \in Int /\ Q \in Int /\ x \in Int
    BY <1>2, <1>3
  <2>2. (n + 1) * (Q + x * x) = n * Q + Q + n * x * x + x * x
    <3>1. PICK f : f = x * x
      OBVIOUS
    <3>2. f \in Int
      BY <2>1, <3>1
    <3>3. (n + 1) * (Q + f) = n * Q + Q + n * f + f
      BY <2>1, <3>2
    <3>4. n * (x * x) = n * x * x
      BY <2>1
    <3> QED  BY <3>1, <3>3, <3>4
  <2>3. (S + x) * (S + x) = S * S + 2 * x * S + x * x
    BY <2>1
  <2>4. PICK a, b, d, e, f : /\ a = n * Q /\ b = S * S /\ d = 2 * x * S /\ e = n * x * x
                             /\ f = x * x
    OBVIOUS
  <2>5. a \in Int /\ b \in Int /\ d \in Int /\ e \in Int /\ f \in Int
    BY <2>1, <2>4
  <2>6. (a - b) + (Q - d + e) = (a + Q + e + f) - (b + d + f)
    BY <2>1, <2>5
  <2> QED  BY <2>2, <2>3, <2>4, <2>6
<1> QED  BY <1>1, <1>6, <1>8, <1>9, <1>10

\* One more trade of the strategy, one more profit: the step of the induction.
LEMMA TellsLater ==
  ASSUME NEW ps, NEW p, Tells(ps, p), NEW q, NEW k, Later(p, q, k), NEW qs, qs = Append(ps, q[k])
  PROVE  Tells(qs, q)
<1>1. PICK n, S, Q, x : /\ n = Len(ps) /\ S = SumFunction(p) /\ Q = SumFunction(Squares(p))
                        /\ x = q[k]
  OBVIOUS
<1>2. x \in Int /\ Extended(p, q, k) /\ ps \in Seq(Int) /\ n = Cardinality(DOMAIN p)
  BY <1>1 DEF Tells, Later, Extended
<1>3. /\ qs \in Seq(Int) /\ n \in Nat /\ Len(qs) = n + 1
      /\ Extended(ps, qs, n + 1) /\ qs[n + 1] = x
  BY <1>1, <1>2, AppendExtends
<1>4. Cardinality(DOMAIN q) = n + 1
  BY <1>2, FS_AddElement DEF Extended
<1>5. S \in Int /\ SumFunction(q) = S + x /\ SumFunction(qs) = S + x
  <2>1. SumFunction(ps) = S
    BY <1>1 DEF Tells
  <2>2. SumFunction(q) = SumFunction(p) + q[k] /\ SumFunction(p) \in Int
    BY <1>2, SumExtended
  <2>3. SumFunction(qs) = SumFunction(ps) + qs[n + 1]
    BY <1>3, SumExtended
  <2> QED  BY <1>1, <1>3, <2>1, <2>2, <2>3
<1>6. /\ Q \in Int /\ SumFunction(Squares(q)) = Q + x * x
      /\ SumFunction(Squares(qs)) = Q + x * x
  <2>1. SumFunction(Squares(ps)) = Q
    BY <1>1 DEF Tells
  <2>2. /\ SumFunction(Squares(q)) = SumFunction(Squares(p)) + q[k] * q[k]
        /\ SumFunction(Squares(p)) \in Int
    BY <1>2, SquaresExtended
  <2>3. SumFunction(Squares(qs)) = SumFunction(Squares(ps)) + qs[n + 1] * qs[n + 1]
    BY <1>3, SquaresExtended
  <2> QED  BY <1>1, <1>3, <2>1, <2>2, <2>3
<1>7. Wins(qs) = Cardinality(Winners(q))
  <2>1. Wins(ps) = Cardinality(Winners(p))
    BY DEF Tells
  <2>2. Wins(qs) = Wins(ps) + One(x)
    BY <1>3, WinsExtended
  <2>3. Cardinality(Winners(q)) = Cardinality(Winners(p)) + One(x)
    BY <1>1, <1>2, WinnersExtended
  <2> QED  BY <2>1, <2>2, <2>3
<1>8. Gains(ps) \in Int /\ Gains(qs) = Gains(ps) + Gain(x)
  BY <1>3, GainsExtended
<1>9. Gains(qs) = SumFunctionOnSet(q, Winners(q))
  <2>1. Gains(ps) = SumFunctionOnSet(p, Winners(p))
    BY DEF Tells
  <2> QED  BY <1>1, <1>2, <1>8, <2>1, WinnersExtended
<1>10. Losses(qs) = (S + x) - Gains(qs) /\ Gains(qs) \in Int
  <2>1. Losses(ps) = S - Gains(ps)
    BY <1>1 DEF Tells
  <2>2. Losses(qs) = Losses(ps) + Loss(x)
    BY <1>3, LossesExtended
  <2>3. Gain(x) \in Int /\ Loss(x) \in Int /\ Gain(x) + Loss(x) = x
    BY <1>2 DEF Gain, Loss
  <2> QED  BY <1>2, <1>5, <1>8, <2>1, <2>2, <2>3
<1>11. Spread(q) = (n + 1) * (Q + x * x) - (S + x) * (S + x)
  <2>1. Spread(p) = n * Q - S * S
    BY <1>1 DEF Tells
  <2> QED  BY <1>1, <1>2, <2>1, SpreadGrows
<1>12. OnCurve(Curve(qs), q)
  <2>1. OnCurve(Curve(ps), p)
    BY DEF Tells
  <2>2. Curve(qs) = AfterTrade(Curve(ps), q[k])
    BY <1>1, <1>2, CurveNext
  <2> QED  BY <2>1, <2>2, OnCurveLater
<1>13. S + x \in Int /\ Q + x * x \in Int
  BY <1>2, <1>5, <1>6
<1> QED  BY <1>3, <1>4, <1>5, <1>6, <1>7, <1>9, <1>10, <1>11, <1>12, <1>13 DEF Tells

\* Its base: before the first trade there is nothing to tell.
LEMMA TellsNone ==
  ASSUME NEW p, DOMAIN p = {}
  PROVE  Tells(<<>>, p)
<1>1. <<>> \in Seq(Int) /\ Len(<<>>) = 0 /\ DOMAIN <<>> = {}
  OBVIOUS
<1>2. Cardinality(DOMAIN p) = 0 /\ Cardinality(Winners(p)) = 0 /\ Winners(p) = {}
  BY FS_EmptySet DEF Winners
<1>3. SumFunction(p) = 0 /\ SumFunction(<<>>) = 0
  BY <1>1, SumEmpty
<1>4. SumFunction(Squares(p)) = 0 /\ SumFunction(Squares(<<>>)) = 0
  BY <1>1, SumEmpty DEF Squares
<1>5. Wins(<<>>) = 0
  <2>1. PICK f : f = [i \in DOMAIN <<>> |-> IF <<>>[i] > 0 THEN 1 ELSE 0]
    OBVIOUS
  <2>2. DOMAIN f = {} /\ Wins(<<>>) = SumFunction(f)
    BY <1>1, <2>1 DEF Wins
  <2> QED  BY <2>2, SumEmpty
<1>6. Gains(<<>>) = 0
  <2>1. PICK f : f = [i \in DOMAIN <<>> |-> IF <<>>[i] > 0 THEN <<>>[i] ELSE 0]
    OBVIOUS
  <2>2. DOMAIN f = {} /\ Gains(<<>>) = SumFunction(f)
    BY <1>1, <2>1 DEF Gains
  <2> QED  BY <2>2, SumEmpty
<1>7. Losses(<<>>) = 0
  <2>1. PICK f : f = [i \in DOMAIN <<>> |-> IF <<>>[i] < 0 THEN <<>>[i] ELSE 0]
    OBVIOUS
  <2>2. DOMAIN f = {} /\ Losses(<<>>) = SumFunction(f)
    BY <1>1, <2>1 DEF Losses
  <2> QED  BY <2>2, SumEmpty
<1>8. SumFunctionOnSet(p, Winners(p)) = 0
  BY <1>2, SumOfNone
<1>9. Spread(p) = 0
  <2>1. DOMAIN Gaps(p) = {}
    BY DEF Gaps, Pairs
  <2>2. Spread(p) = SumFunction(Gaps(p))
    BY DEF Spread, Gaps
  <2> QED  BY <2>1, <2>2, SumEmpty
<1>10. OnCurve(Curve(<<>>), p)
  BY OnCurveAtStart, CurveAtStart
<1> QED  BY <1>1, <1>2, <1>3, <1>4, <1>5, <1>6, <1>7, <1>8, <1>9, <1>10 DEF Tells

\* The places, up to one of them, where a strategy traded, and what it made.
Mine(ts, s, i) == {j \in 1 .. i : ts[j].strategy = s}
Made(ts, s, i) == [j \in Mine(ts, s, i) |-> ts[j].profit]

LEMMA CollectedAt ==
  ASSUME NEW upto, NEW ts, NEW s, NEW n \in Nat, n = Len(ts), Collected(upto, ts, s)
  PROVE  /\ upto[0] = <<>>
         /\ \A i \in 1 .. n : upto[i] = IF ts[i].strategy = s THEN Append(upto[i - 1], ts[i].profit)
                                        ELSE upto[i - 1]
<1> DEFINE Body(f, i) == IF ts[i].strategy = s THEN Append(f[i - 1], ts[i].profit)
                         ELSE f[i - 1]
<1>1. upto = [i \in 0 .. n |-> IF i = 0 THEN <<>> ELSE Body(upto, i)]
  BY DEF Collected
<1> HIDE DEF Body
<1>2. upto[0] = <<>>
  <2>1. 0 \in 0 .. n
    OBVIOUS
  <2> QED  BY <1>1, <2>1
<1>3. \A i \in 1 .. n : upto[i] = Body(upto, i)
  <2>1. \A i \in 1 .. n : i \in 0 .. n /\ i # 0
    OBVIOUS
  <2> QED  BY <1>1, <2>1
<1> QED  BY <1>2, <1>3 DEF Body

\* So the profits collected tell of all the places where the strategy traded.
LEMMA TellsAll ==
  ASSUME NEW ts, NEW n \in Nat, n = Len(ts), \A i \in 1 .. n : ts[i].profit \in Int, NEW s
  PROVE  Tells(Profits(ts, s), Made(ts, s, n))
<1>1. PICK upto : Collected(upto, ts, s) /\ Profits(ts, s) = upto[n]
  BY ProfitsCollected
<1>2. /\ upto[0] = <<>>
      /\ \A i \in 1 .. n : upto[i] = IF ts[i].strategy = s THEN Append(upto[i - 1], ts[i].profit)
                                     ELSE upto[i - 1]
  BY <1>1, CollectedAt
<1> DEFINE H == {i \in 0 .. n : Tells(upto[i], Made(ts, s, i))}
<1>3. 0 \in H
  <2>1. DOMAIN Made(ts, s, 0) = {}
    BY DEF Made, Mine
  <2>2. Tells(<<>>, Made(ts, s, 0))
    BY <2>1, TellsNone
  <2> QED  BY <1>2, <2>2
<1>4. ASSUME NEW k \in 1 .. n, k - 1 \in H PROVE k \in H
  <2>1. k \in 0 .. n /\ k \in Nat \ {0} /\ k - 1 \in Nat
    OBVIOUS
  <2>2. PICK p, q : p = Made(ts, s, k - 1) /\ q = Made(ts, s, k)
    OBVIOUS
  <2>3. Tells(upto[k - 1], p)
    BY <1>4, <2>2
  <2>4. CASE ts[k].strategy = s
    <3>1. Mine(ts, s, k) = Mine(ts, s, k - 1) \cup {k} /\ k \notin Mine(ts, s, k - 1)
      BY <2>1, <2>4 DEF Mine
    <3>2. /\ DOMAIN p = Mine(ts, s, k - 1) /\ DOMAIN q = DOMAIN p \cup {k}
          /\ \A i \in DOMAIN p : p[i] = ts[i].profit /\ q[i] = ts[i].profit
          /\ q[k] = ts[k].profit
      BY <2>2, <3>1 DEF Made
    <3>3. IsFiniteSet(DOMAIN p)
      <4>1. IsFiniteSet(1 .. k - 1)
        BY <2>1, FS_Interval
      <4>2. DOMAIN p \in SUBSET (1 .. k - 1)
        BY <3>2 DEF Mine
      <4> QED  BY <4>1, <4>2, FS_Subset
    <3>4. \A i \in DOMAIN p : i \in Nat \ {0} /\ i < k /\ ts[i].profit \in Int
      BY <2>1, <3>2 DEF Mine
    <3>5. Later(p, q, k)
      BY <2>1, <3>1, <3>2, <3>3, <3>4 DEF Later, Extended
    <3>6. upto[k] = Append(upto[k - 1], q[k])
      BY <1>2, <2>4, <3>2
    <3>7. Tells(upto[k], q)
      BY <2>3, <3>5, <3>6, TellsLater
    <3> QED  BY <2>1, <2>2, <3>7
  <2>5. CASE ts[k].strategy # s
    <3>1. Mine(ts, s, k) = Mine(ts, s, k - 1)
      BY <2>1, <2>5 DEF Mine
    <3>2. q = p
      BY <2>2, <3>1 DEF Made
    <3>3. upto[k] = upto[k - 1]
      BY <1>2, <2>5
    <3> QED  BY <2>1, <2>2, <2>3, <3>2, <3>3
  <2> QED  BY <2>4, <2>5
<1>5. \A k \in 0 .. n : k \in H
  <2> HIDE DEF H
  <2> QED  BY <1>3, <1>4, StepsKeep
<1> QED  BY <1>1, <1>5

-----------------------------------------------------------------------------
(* The metrics a run reports, and those a row has. *)

\* The deviations from the mean, as the code sums them, by the pairwise differences.
LEMMA DeviationsOf ==
  ASSUME NEW ps, NEW p, Tells(ps, p)
  PROVE  Spread(p) \in Int /\ Deviations(ps) = Len(ps) * Spread(p)
<1>1. PICK n, S, Q : n = Len(ps) /\ S = SumFunction(p) /\ Q = SumFunction(Squares(p))
  OBVIOUS
<1>2. /\ n \in Nat /\ S \in Int /\ Q \in Int /\ ps \in Seq(Int)
      /\ SumFunction(ps) = S /\ SumFunction(Squares(ps)) = Q
      /\ Spread(p) = n * Q - S * S
  BY <1>1 DEF Tells
<1>3. PICK w : w = [i \in DOMAIN ps |-> (n * ps[i] - S) * (n * ps[i] - S)]
  OBVIOUS
<1>4. Deviations(ps) = SumFunctionOnSet(w, DOMAIN ps)
  <2>1. Deviations(ps) = SumFunction(w)
    BY <1>1, <1>2, <1>3 DEF Deviations, sumNetProfit
  <2>2. DOMAIN w = DOMAIN ps
    BY <1>3
  <2> QED  BY <2>1, <2>2 DEF SumFunction
<1>5. PICK T : T = DOMAIN ps
  OBVIOUS
<1>6. IsFiniteSet(T) /\ Cardinality(T) = n /\ \A i \in T : ps[i] \in Int
  <2>1. T = 1 .. n /\ \A i \in 1 .. n : ps[i] \in Int
    BY <1>1, <1>2, <1>5
  <2>2. IsFiniteSet(1 .. n) /\ Cardinality(1 .. n) = n
    BY <1>2, FS_Interval
  <2> QED  BY <2>1, <2>2
<1>7. SquaredFrom(ps, T, w, n, S)
  <2>1. \A i \in T : w[i] = (n * ps[i] - S) * (n * ps[i] - S)
    BY <1>3, <1>5
  <2> QED  BY <1>2, <1>6, <2>1 DEF SquaredFrom
<1>8. SumFunctionOnSet(w, T) = MultipliedOut(n, S, n, S, Q)
  BY <1>2, <1>5, <1>6, <1>7, SquareSums
<1>9. MultipliedOut(n, S, n, S, Q) = n * (n * Q - S * S)
  <2>1. PICK a, b : a = n * Q /\ b = S * S
    OBVIOUS
  <2>2. a \in Int /\ b \in Int
    BY <1>2, <2>1
  <2>3. n * n * Q = n * a /\ 2 * n * S * S = 2 * n * b /\ n * S * S = n * b
    BY <1>2, <2>1
  <2>4. n * a - 2 * n * b + n * b = n * (a - b)
    BY <1>2, <2>2
  <2> QED  BY <2>1, <2>3, <2>4 DEF MultipliedOut
<1>10. Spread(p) \in Int
  BY <1>2
<1> QED  BY <1>1, <1>2, <1>4, <1>5, <1>8, <1>9, <1>10

\* One trade has no spread, which is why the code may ask for two.
LEMMA SpreadOfOne ==
  ASSUME NEW p, NEW a, DOMAIN p = {a}, a \in Nat
  PROVE  Spread(p) = 0
<1>1. DOMAIN Gaps(p) = {}
  BY DEF Gaps, Pairs
<1>2. Spread(p) = SumFunction(Gaps(p))
  BY DEF Spread, Gaps
<1> QED  BY <1>1, <1>2, SumEmpty

\* The maximum of the definition is the only member that none exceeds.
LEMMA DeepestIsMax ==
  ASSUME NEW p, IsFiniteSet(DOMAIN p), \A i \in DOMAIN p : p[i] \in Int,
         NEW x, Deepest(x, p)
  PROVE  x = Max({0} \cup Falls(p))
<1>1. \A i : Equity(p, i) \in Int
  <2> SUFFICES ASSUME NEW i PROVE Equity(p, i) \in Int
    OBVIOUS
  <2>1. PICK S : S = {j \in DOMAIN p : j <= i}
    OBVIOUS
  <2>2. IsFiniteSet(S) /\ \A j \in S : p[j] \in Int
    BY <2>1, FS_Subset
  <2> QED  BY <2>1, <2>2, SumSplit DEF Equity
<1>2. \A y, z \in Int : y - z \in Int
  OBVIOUS
<1>3. Falls(p) \subseteq Int
  BY <1>1, <1>2 DEF Falls
<1>4. PICK M : M = {0} \cup Falls(p)
  OBVIOUS
<1>5. M \subseteq Int /\ x \in M /\ \A f \in M : f <= x
  BY <1>3, <1>4 DEF Deepest
<1>6. \A f \in M : x >= f
  BY <1>5
<1>7. Max(M) \in M /\ \A f \in M : Max(M) >= f
  BY <1>5, <1>6 DEF Max
<1>8. Max(M) \in Int /\ x \in Int /\ Max(M) <= x /\ Max(M) >= x
  BY <1>5, <1>7
<1> QED  BY <1>4, <1>8

Reported(ps, seconds) ==
  [TotalPnL |-> sumNetProfit(ps), MaxDrawdown |-> maxDrawdown(ps),
   Sharpe |-> sharpeRatio(ps, seconds), HitRate |-> hitRate(ps),
   ProfitFactor |-> profitFactor(ps), TradeCount |-> Len(ps)]

\* What ComputeMetrics reports of such a sequence is what the book says of the
\* places.
LEMMA ByTheBook ==
  ASSUME NEW ps, NEW p, Tells(ps, p), DOMAIN p # {}, IsFiniteSet(DOMAIN p),
         DOMAIN p \subseteq Nat, \A i \in DOMAIN p : p[i] \in Int,
         NEW seconds \in Nat \ {0}
  PROVE  Textbook(Reported(ps, seconds), p, seconds)
<1>1. PICK n, S, G, D, m, U : /\ n = Cardinality(DOMAIN p) /\ S = SumFunction(p)
                              /\ G = SumFunctionOnSet(p, Winners(p)) /\ D = Spread(p)
                              /\ m = Reported(ps, seconds) /\ U = Winners(p)
  OBVIOUS
<1>2. /\ Len(ps) = n /\ n \in Nat /\ n # 0 /\ ps # <<>>
      /\ S \in Int /\ SumFunction(ps) = S /\ Gains(ps) = G /\ G \in Int
      /\ Losses(ps) = S - G /\ Wins(ps) = Cardinality(U)
  <2>1. n \in Nat /\ n # 0
    BY <1>1, FS_CardinalityType, FS_EmptySet
  <2>2. Len(ps) = n
    BY <1>1 DEF Tells
  <2>3. ps # <<>>
    BY <2>1, <2>2
  <2> QED  BY <1>1, <2>1, <2>2, <2>3 DEF Tells
<1>3. /\ m.TotalPnL = S /\ m.TradeCount = n /\ m.MaxDrawdown = Curve(ps).dd
      /\ m.HitRate = hitRate(ps) /\ m.ProfitFactor = profitFactor(ps)
      /\ m.Sharpe = sharpeRatio(ps, seconds)
  BY <1>1, <1>2 DEF Reported, sumNetProfit, maxDrawdown
<1>4. m.MaxDrawdown = Max({0} \cup Falls(p))
  BY <1>3, DeepestIsMax DEF Tells, OnCurve
<1>5. m.HitRate = <<Cardinality(U), n>>
  BY <1>2, <1>3 DEF hitRate
<1>6. m.ProfitFactor = IF G = S THEN NoLosses ELSE <<G, G - S>>
  <2>1. S - G = 0 <=> G = S
    BY <1>2
  <2>2. -(S - G) = G - S
    BY <1>2
  <2> QED  BY <1>2, <1>3, <2>1, <2>2 DEF profitFactor
<1>7. D \in Int /\ Deviations(ps) = n * D
  BY <1>1, <1>2, DeviationsOf
<1>8. n < 2 => D = 0
  <2> SUFFICES ASSUME n < 2 PROVE D = 0
    OBVIOUS
  <2>1. Cardinality(DOMAIN p) = 1
    BY <1>1, <1>2
  <2>2. PICK a : DOMAIN p = {a}
    BY <2>1, FS_Singleton
  <2> QED  BY <1>1, <2>2, SpreadOfOne
<1>9. n * D = 0 <=> D = 0
  BY <1>2, <1>7
<1>10. CASE D = 0
  <2>1. m.Sharpe.sign = 0
    BY <1>3, <1>7, <1>9, <1>10 DEF sharpeRatio
  <2>2. D = 0
    BY <1>10
  <2> QED  BY <1>1, <1>3, <1>4, <1>5, <1>6, <2>1, <2>2 DEF Textbook, Winners
<1>11. CASE D # 0
  <2>1. ~(n < 2 \/ seconds <= 0 \/ Deviations(ps) = 0)
    BY <1>2, <1>7, <1>8, <1>9, <1>11
  <2>2. m.Sharpe = [sign |-> IF S > 0 THEN 1 ELSE IF S < 0 THEN -1 ELSE 0,
                    square |-> <<S * S * (n - 1) * n * SecondsPerYear, n * D * seconds>>]
    BY <1>2, <1>3, <1>7, <2>1 DEF sharpeRatio, sumNetProfit
  <2>3. /\ m.Sharpe.sign > 0 <=> S > 0
        /\ m.Sharpe.sign < 0 <=> S < 0
        /\ m.Sharpe.square = <<S * S * (n - 1) * n * SecondsPerYear, n * D * seconds>>
    BY <1>2, <2>2
  <2> QED  BY <1>1, <1>3, <1>4, <1>5, <1>6, <1>11, <2>3 DEF Textbook, Winners
<1> QED  BY <1>10, <1>11

\* A list of trades with whole profits.
TradeList(ts, n) ==
  n \in Nat /\ n = Len(ts) /\ DOMAIN ts = 1 .. n /\ \A i \in 1 .. n : ts[i].profit \in Int

\* Of any trades with whole profits and any window, ComputeMetrics reports for
\* each strategy that traded, and for no other, the textbook metrics of its own
\* trades (metrics.go:23-151).
THEOREM ComputesTextbook ==
  ASSUME NEW ts, NEW n, TradeList(ts, n),
         NEW from \in Int, NEW to \in Int, from < to, NEW s,
         NEW metrics, metrics = ComputeMetrics(ts, from, to)
  PROVE  IF Mine(ts, s, n) = {} THEN s \notin DOMAIN metrics
         ELSE s \in DOMAIN metrics /\ Textbook(metrics[s], Made(ts, s, n), to - from)
<1> USE DEF TradeList
<1>1. PICK seconds, ps, p, mine : /\ seconds = to - from /\ ps = Profits(ts, s)
                                  /\ p = Made(ts, s, n) /\ mine = Mine(ts, s, n)
  OBVIOUS
<1>2. seconds \in Nat \ {0}
  BY <1>1
<1>3. /\ mine = {i \in 1 .. n : ts[i].strategy = s} /\ DOMAIN p = mine
      /\ \A i \in mine : p[i] = ts[i].profit
  BY <1>1 DEF Mine, Made
<1>4. IsFiniteSet(mine) /\ mine \subseteq Nat /\ \A i \in mine : p[i] \in Int
  <2>1. mine \in SUBSET (1 .. n) /\ IsFiniteSet(1 .. n)
    BY <1>3, FS_Interval
  <2> QED  BY <1>3, <2>1, FS_Subset
<1>5. Tells(ps, p)
  BY <1>1, TellsAll
<1>6. DOMAIN metrics = {ts[i].strategy : i \in DOMAIN ts}
      /\ (s \in DOMAIN metrics => metrics[s] = Reported(ps, seconds))
  BY <1>1 DEF ComputeMetrics, Reported
<1>7. CASE mine = {}
  BY <1>1, <1>3, <1>6, <1>7
<1>8. CASE mine # {}
  <2>1. s \in DOMAIN metrics
    BY <1>3, <1>6, <1>8
  <2>2. Textbook(metrics[s], p, seconds)
    <3>1. /\ DOMAIN p # {} /\ IsFiniteSet(DOMAIN p) /\ DOMAIN p \subseteq Nat
          /\ \A i \in DOMAIN p : p[i] \in Int
      BY <1>3, <1>4, <1>8
    <3>2. Textbook(Reported(ps, seconds), p, seconds)
      BY <1>2, <1>5, <3>1, ByTheBook
    <3> QED  BY <1>6, <2>1, <3>2
  <2> QED  BY <1>1, <1>8, <2>1, <2>2
<1> QED  BY <1>7, <1>8

-----------------------------------------------------------------------------
(* The state: what is stored. *)

MetricsOf(r) == ComputeMetrics(replay[r].trades, spec[r].from, spec[r].to)

\* A result, waiting or stored, is that of the request's own trades and window.
ResultInv(r) ==
    /\ stage[r] # "new" => spec[r].from < spec[r].to
    /\ resultCh[r] # Nothing /\ resultCh[r].id = r => resultCh[r].metrics = MetricsOf(r)
    /\ \A rec \in runs : rec.id = r => rec.spec = spec[r] /\ rec.metrics = MetricsOf(r)

ResultsInv == \A r \in Requests : ResultInv(r)

LEMMA InitResults == Init => ResultsInv
  BY DEF Init, StoreInit, ResultsInv, ResultInv

\* A run whose result exists, or that is past its replay, keeps what it is of.
LEMMA KeptResult ==
  ASSUME NEW x \in Requests, ResultInv(x),
         replay'[x] = replay[x], spec'[x] = spec[x], stage[x] = "new" => stage'[x] = "new",
         resultCh'[x] \in {resultCh[x], Nothing},
         \A rec \in runs' : rec.id = x => rec \in runs
  PROVE  ResultInv(x)'
<1>1. MetricsOf(x)' = MetricsOf(x)
  BY DEF MetricsOf
<1> QED  BY <1>1 DEF ResultInv

\* A request that still changes what it replays has no result yet.
LEMMA NoResult ==
  ASSUME NEW x \in Requests, ResultInv(x), RunInv(x),
         stage[x] \notin {"unlocking", "over", "killed"},
         stage'[x] # "new" => spec'[x].from < spec'[x].to,
         resultCh'[x] = resultCh[x], runs' = runs
  PROVE  ResultInv(x)'
<1>1. x \notin Stored /\ ~(resultCh[x] # Nothing /\ resultCh[x].id = x)
  BY DEF RunInv
<1>2. \A rec \in runs' : rec.id # x
  BY <1>1 DEF Stored
<1> QED  BY <1>1, <1>2 DEF ResultInv

\* Each step of a request, on its own result.
LEMMA RequestResult ==
  ASSUME RunsInv, ResultsInv, NEW r \in Requests,
         Submit(r) \/ Start(r) \/ Query(r) \/ Goroutine(r) \/ Persister(r)
  PROVE  ResultInv(r)'
<1>1. RunInv(r) /\ ResultInv(r)
  BY DEF RunsInv, ResultsInv
<1>2. DOMAIN stage = Requests /\ DOMAIN spec = Requests /\ DOMAIN resultCh = Requests
  BY DEF RunsInv
<1>3. CASE Submit(r)
  <2>1. PICK from \in Times, to \in Times :
          from < to /\ spec' = [spec EXCEPT ![r] = [from |-> from, to |-> to]]
    BY <1>3 DEF Submit
  <2>2. spec'[r].from < spec'[r].to
    BY <1>2, <2>1
  <2>3. stage[r] = "new" /\ UNCHANGED <<resultCh, runs>>
    BY <1>3 DEF Submit, storeVars
  <2> QED  BY <1>1, <2>2, <2>3, NoResult
<1>4. CASE Start(r) \/ Query(r) \/ Finish(r) \/ GoIdle(r) \/ Unlock(r) \/ SpawnPersister(r)
  <2>1. UNCHANGED <<replay, spec, resultCh, runs>> /\ (stage[r] = "new" => stage'[r] = "new")
    BY <1>4 DEF Start, Query, Querying, Finish, GoIdle, Unlock, SpawnPersister, btVars, runner,
                storeVars, Locked, Working
  <2> QED  BY <1>1, <2>1, KeptResult
<1>5. CASE Answer(r) \/ ReplayFrame(r)
  <2>1. /\ UNCHANGED <<spec, resultCh, runs>> /\ stage[r] # "new"
        /\ stage[r] \notin {"unlocking", "over", "killed"}
    BY <1>5 DEF Answer, Querying, ReplayFrame, storeVars
  <2>2. spec'[r].from < spec'[r].to
    BY <1>1, <2>1 DEF ResultInv
  <2> QED  BY <1>1, <2>1, <2>2, NoResult
<1>6. CASE SendResult(r)
  <2>1. UNCHANGED <<replay, spec, runs>> /\ stage[r] \in {"finished", "failed"}
    BY <1>6 DEF SendResult, storeVars
  <2>2. resultCh'[r] = IF resultCh[r] = Nothing THEN Result(r) ELSE resultCh[r]
    BY <1>2, <1>6 DEF SendResult, Sent
  <2>3. Result(r).id = r => Result(r).metrics = MetricsOf(r)
    <3>1. EmptyID # r
      BY BacktestConstants
    <3> QED  BY <3>1 DEF Result, ZeroResult, MetricsOf
  <2>4. MetricsOf(r)' = MetricsOf(r)
    BY <2>1 DEF MetricsOf
  <2> QED  BY <1>1, <2>1, <2>2, <2>3, <2>4 DEF ResultInv
<1>7. CASE Persist(r)
  <2>1. /\ UNCHANGED <<replay, spec, stage>> /\ MetricsOf(r)' = MetricsOf(r)
        /\ resultCh[r] # Nothing /\ resultCh'[r] = Nothing
    BY <1>2, <1>7 DEF Persist, runner, MetricsOf
  <2>2. PICK row : row = [id |-> resultCh[r].id, spec |-> spec[r],
                          metrics |-> resultCh[r].metrics, status |-> "done"]
    OBVIOUS
  <2>3. runs' = runs \/ runs' = runs \cup {row}
    BY <1>7, <2>2 DEF Persist, SaveBacktestRun
  <2>4. row.id = r => row.spec = spec[r] /\ row.metrics = MetricsOf(r)
    BY <1>1, <2>1, <2>2 DEF ResultInv
  <2> QED  BY <1>1, <2>1, <2>3, <2>4 DEF ResultInv
<1> QED  BY <1>3, <1>4, <1>5, <1>6, <1>7 DEF Goroutine, Persister

\* No request's step touches another's result.
LEMMA OtherResult ==
  ASSUME RunsInv, ResultsInv, NEW r \in Requests, NEW x \in Requests \ {r},
         Submit(r) \/ Start(r) \/ Query(r) \/ Goroutine(r) \/ Persister(r)
  PROVE  ResultInv(x)'
<1>1. /\ replay'[x] = replay[x] /\ spec'[x] = spec[x] /\ stage'[x] = stage[x]
      /\ resultCh'[x] = resultCh[x]
  BY DEF Submit, Start, StartAsync, Query, Goroutine, Answer, ReplayFrame, Finish, SendResult,
         GoIdle, Unlock, Persister, SpawnPersister, Persist, btVars, runner, GoTo, RunsInv
<1>2. \A rec \in runs' : rec.id = x => rec \in runs
  <2>1. CASE Persist(r)
    <3>1. PICK row : row = [id |-> resultCh[r].id, spec |-> spec[r],
                            metrics |-> resultCh[r].metrics, status |-> "done"]
      OBVIOUS
    <3>2. runs' = runs \/ runs' = runs \cup {row}
      BY <2>1, <3>1 DEF Persist, SaveBacktestRun
    <3>3. row.id \in {r, EmptyID}
      BY <2>1, <3>1 DEF Persist, RunsInv, RunInv
    <3>4. row.id # x
      BY <3>3, BacktestConstants
    <3> QED  BY <3>2, <3>4
  <2>2. CASE ~Persist(r)
    BY <2>2 DEF Submit, Start, Query, Goroutine, Answer, ReplayFrame, Finish, SendResult,
                GoIdle, Unlock, Persister, SpawnPersister, storeVars
  <2> QED  BY <2>1, <2>2
<1>3. ResultInv(x)
  BY DEF ResultsInv
<1> QED  BY <1>1, <1>2, <1>3, KeptResult

LEMMA NextResults == RunsInv /\ ResultsInv /\ [Next]_vars => ResultsInv'
<1> SUFFICES ASSUME RunsInv, ResultsInv, [Next]_vars, NEW x \in Requests PROVE ResultInv(x)'
  BY DEF ResultsInv
<1>1. CASE Live \/ Ledger \/ UNCHANGED vars
  <2>1. UNCHANGED <<stage, replay, spec, resultCh, runs>>
    BY <1>1 DEF Live, Ledger, Tick, SaveTrade, Close, btVars, runner, storeVars, vars
  <2>2. ResultInv(x)
    BY DEF ResultsInv
  <2> QED  BY <2>1, <2>2, KeptResult
<1>2. CASE Restart
  <2>1. /\ UNCHANGED <<replay, spec, runs>> /\ resultCh'[x] = Nothing
        /\ (stage[x] = "new" => stage'[x] = "new")
    BY <1>2 DEF Restart, NewStore
  <2>2. ResultInv(x)
    BY DEF ResultsInv
  <2> QED  BY <2>1, <2>2, KeptResult
<1>3. ASSUME NEW r \in Requests,
             Submit(r) \/ Start(r) \/ Query(r) \/ Goroutine(r) \/ Persister(r)
      PROVE  ResultInv(x)'
  BY <1>3, RequestResult, OtherResult
<1> QED  BY <1>1, <1>2, <1>3 DEF Next

\* What the invariant says of a stored result, by what ComputeMetrics computes.
LEMMA ResultsMatch == RunsInv /\ ResultsInv => MetricsMatch
<1> SUFFICES ASSUME RunsInv, ResultsInv, NEW rec \in runs, rec.id # EmptyID,
                    NEW s \in Strategies, NEW ts, ts = replay[rec.id].trades,
                    NEW mine, mine = {i \in DOMAIN ts : ts[i].strategy = s}
             PROVE  IF mine = {} THEN s \notin DOMAIN rec.metrics
                    ELSE /\ s \in DOMAIN rec.metrics
                         /\ Textbook(rec.metrics[s], [i \in mine |-> ts[i].profit],
                                     rec.spec.to - rec.spec.from)
  BY DEF MetricsMatch
<1>1. PICK r, n, from, to, metrics :
        /\ r = rec.id /\ n = Len(ts) /\ from = spec[r].from /\ to = spec[r].to
        /\ metrics = ComputeMetrics(ts, from, to)
  OBVIOUS
<1>2. r \in Requests /\ RunInv(r) /\ ResultInv(r) /\ r \in Stored
  BY <1>1 DEF RunsInv, ResultsInv, Stored
<1>3. rec.spec = spec[r] /\ rec.metrics = metrics /\ from < to
  <2>1. stage[r] # "new"
    BY <1>2 DEF RunInv
  <2> QED  BY <1>1, <1>2, <2>1 DEF ResultInv, MetricsOf
<1>4. n \in Nat /\ DOMAIN ts = 1 .. n /\ \A i \in 1 .. n : ts[i].profit \in Int
  <2>1. ts \in Seq(Booked)
    BY <1>1, <1>2 DEF RunsInv, Replay
  <2>2. n \in Nat /\ DOMAIN ts = 1 .. n /\ \A i \in 1 .. n : ts[i] \in Booked
    BY <1>1, <2>1
  <2> QED  BY <2>2, BacktestConstants DEF Booked
<1>5. from \in Int /\ to \in Int
  BY <1>1, <1>2, RecorderConstants DEF RunsInv, Window
<1>6. mine = Mine(ts, s, n) /\ [i \in mine |-> ts[i].profit] = Made(ts, s, n)
  BY <1>4 DEF Mine, Made
<1>7. IF Mine(ts, s, n) = {} THEN s \notin DOMAIN metrics
      ELSE s \in DOMAIN metrics /\ Textbook(metrics[s], Made(ts, s, n), to - from)
  <2>1. TradeList(ts, n)
    BY <1>1, <1>4 DEF TradeList
  <2> QED  BY <1>1, <1>3, <1>5, <2>1, ComputesTextbook
<1>8. PICK seconds : seconds = to - from
  OBVIOUS
<1>9. rec.spec.to - rec.spec.from = seconds
  BY <1>1, <1>3, <1>8
<1> QED  BY <1>3, <1>6, <1>7, <1>8, <1>9

\* Whatever trades a replay books, in any number, the stored metrics of each
\* strategy are the textbook ones of its own trades and window: the one-pass
\* drawdown is the deepest fall between any two points of the equity curve, the
\* deviations from the mean are the pairwise differences, and a fall of the
\* process, a second request or the live loop changes none of them
\* (metrics.go:23-151, runner.go:171-228).
THEOREM MetricsMatchHolds == Spec => []MetricsMatch
<1>1. RowsInv /\ [Next]_vars => RowsInv'
  BY NextRows
<1> QED  BY <1>1, InitRuns, InitResults, NextRuns, NextResults, ResultsMatch, PTL DEF Spec
-----------------------------------------------------------------------------
(* Types. *)

\* What the invariants above leave out of TypeOK.
ServerTypes ==
    /\ status.state \in {"idle", "running", "done"}
    /\ status.run \in Requests \cup {EmptyID}
    /\ status.progress \in 0 .. MaxFrames
    /\ persister \in [Requests -> {"none", "waiting", "over", "unsaved"}]
    /\ restarts \in 0 .. MaxRestarts
    /\ together \in Together

BacktestInv == StatusInv /\ LedgerInv /\ RowsInv /\ RunsInv /\ ServerTypes

LEMMA StatusTypes ==
  ASSUME NEW r \in Requests, NEW n \in 0 .. MaxFrames,
         \/ status' = Idle \/ status' = Running(r, n)
         \/ status' = [state |-> "done", run |-> r, progress |-> n]
         \/ status' = status /\ ServerTypes
  PROVE  /\ status'.state \in {"idle", "running", "done"}
         /\ status'.run \in Requests \cup {EmptyID}
         /\ status'.progress \in 0 .. MaxFrames
  BY RecorderConstants DEF Idle, Running, ServerTypes

LEMMA NextServer == ServerTypes /\ RunsInv /\ [Next]_vars => ServerTypes'
<1> SUFFICES ASSUME ServerTypes, RunsInv, [Next]_vars PROVE ServerTypes'
  OBVIOUS
<1>0. 0 \in 0 .. MaxFrames
  BY RecorderConstants
<1>1. CASE UNCHANGED <<status, persister, restarts, together>>
  BY <1>1 DEF ServerTypes
<1>2. ASSUME NEW r \in Requests,
             Submit(r) \/ Start(r) \/ Query(r) \/ Goroutine(r)
      PROVE  ServerTypes'
  <2>1. UNCHANGED <<persister, restarts, together>>
    BY <1>2 DEF Submit, Start, Query, Goroutine, Answer, ReplayFrame, Finish, SendResult, GoIdle,
                Unlock, btVars
  <2>2. Len(replay[r].frames) <= MaxFrames /\ Len(replay[r].frames) \in Nat
        /\ replay[r].done \in Nat /\ replay[r].done <= Len(replay[r].frames)
    BY RunFacts DEF RunInv
  <2>3. replay[r].done \in 0 .. MaxFrames
        /\ (replay[r].done < Len(replay[r].frames) => replay[r].done + 1 \in 0 .. MaxFrames)
    BY <2>2, RecorderConstants
  <2>4. CASE ReplayFrame(r)
    <3>1. status' = Running(r, replay[r].done + 1) /\ replay[r].done + 1 \in 0 .. MaxFrames
      BY <2>3, <2>4 DEF ReplayFrame
    <3> QED  BY <2>1, <3>1, StatusTypes DEF ServerTypes
  <2>5. CASE Finish(r)
    <3>1. status' = [state |-> "done", run |-> r, progress |-> replay[r].done]
      BY <2>5 DEF Finish
    <3> QED  BY <2>1, <2>3, <3>1, StatusTypes DEF ServerTypes
  <2>6. CASE Submit(r) \/ Start(r) \/ Query(r) \/ Answer(r) \/ SendResult(r) \/ GoIdle(r) \/ Unlock(r)
    <3>1. status' = Idle \/ status' = Running(r, 0) \/ status' = status
      BY <2>6 DEF Submit, Start, StartAsync, Query, Answer, SendResult, GoIdle, Unlock, btVars, runner
    <3> QED  BY <1>0, <2>1, <3>1, StatusTypes DEF ServerTypes
  <2> QED  BY <1>2, <2>4, <2>5, <2>6 DEF Goroutine
<1>3. ASSUME NEW r \in Requests, Persister(r) PROVE ServerTypes'
  BY <1>3 DEF Persister, SpawnPersister, Persist, runner, ServerTypes
<1>4. CASE Live \/ Ledger \/ UNCHANGED vars
  BY <1>1, <1>4 DEF Live, Ledger, vars, btVars, runner
<1>5. CASE Restart
  <2>1. status' = Idle /\ restarts' \in 0 .. MaxRestarts /\ together' = together
        /\ persister' \in [Requests -> {"none", "waiting", "over", "unsaved"}]
    BY <1>5, BacktestConstants DEF Restart, ServerTypes
  <2> QED  BY <1>0, <2>1 DEF ServerTypes, Idle
<1> QED  BY <1>2, <1>3, <1>4, <1>5 DEF Next

LEMMA InvTypes == BacktestInv => TypeOK
<1> SUFFICES ASSUME BacktestInv PROVE TypeOK
  OBVIOUS
<1>1. /\ second \in 1 .. MaxSeconds /\ trades \in Seq(1 .. MaxTrades)
      /\ Saved \subseteq 1 .. MaxTrades /\ \A t \in Saved : table[t] \in 1 .. second
      /\ open \in BOOLEAN /\ loaded \in BOOLEAN /\ unsaved \subseteq 1 .. MaxTrades
  BY Zenon DEF BacktestInv, LedgerInv
<1>2. /\ frames \subseteq Frame /\ conn \in Requests \cup {Nothing} /\ recording \in BOOLEAN
      /\ arriving \in [ts : Times, exchange : Exchanges] \cup {Nothing} /\ inserting \in BOOLEAN
  BY Zenon DEF BacktestInv, RowsInv
<1>3. mu \in Requests \cup {Nothing} /\ stage \in [Requests -> Stages]
  BY Zenon DEF BacktestInv, StatusInv
<1>4. \A rec \in runs : rec.id \in Requests \cup {EmptyID}
  BY Zenon DEF BacktestInv, RunsInv, Stored
<1>5. spec \in [Requests -> [from : 0 .. MaxTs, to : 0 .. MaxTs]]
  BY Zenon DEF BacktestInv, RunsInv, Window
<1>6. \A r \in Requests : /\ replay[r].frames \in Seq(Frame)
                          /\ replay[r].done \in 0 .. Len(replay[r].frames)
                          /\ resultCh[r] = Nothing \/ resultCh[r].id \in {r, EmptyID}
                          /\ recorded[r] \subseteq frames
  BY RunFacts DEF BacktestInv, RunInv
<1> QED  BY <1>1, <1>2, <1>3, <1>4, <1>5, <1>6 DEF BacktestInv, ServerTypes, TypeOK

\* Every variable keeps its type, and a run never goes past the frames it
\* found: for any number of requests, frames, trades and restarts.
THEOREM TypeCorrect == Spec => []TypeOK
<1>1. Init => BacktestInv
  <2>1. Init => ServerTypes
    BY BacktestConstants, RecorderConstants DEF Init, ServerTypes, Idle
  <2> QED  BY <2>1, InitStatus, InitLedger, InitRuns DEF BacktestInv
<1>2. BacktestInv /\ [Next]_vars => BacktestInv'
  BY NextStatus, NextLedger, NextRows, NextRuns, NextServer DEF BacktestInv
<1> QED  BY <1>1, <1>2, InvTypes, PTL DEF Spec
=============================================================================
