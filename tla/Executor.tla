------------------------------ MODULE Executor ------------------------------
(***************************************************************************)
(* internal/executor/executor.go: Execute, for an opportunity of the       *)
(* spatial strategy.                                                       *)
(*                                                                         *)
(* The processing loop runs one Execute at a time, but the aggregator      *)
(* replaces prices and books under it: Execute reads the price snapshot,   *)
(* then the clock, then the ask book of one exchange, and only after the   *)
(* wallet has paid for the buy leg the bid book of the other.  Each read   *)
(* of shared state starts a step.                                          *)
(*                                                                         *)
(* Volumes count lots and amounts the smallest unit of USDT.  A walk of a  *)
(* book, whatever the book holds by then, returns one of Fills: DepthWalk  *)
(* shows that of depth.Walk for every book.                                *)
(***************************************************************************)
EXTENDS MultiWallet, BookFills, Sequences, FiniteSets, Functions

CONSTANTS
    Exchanges,
    InitialWallet,       \* amounts each exchange starts with
    MinPrice, MaxPrice,  \* range of the prices feeds and books show
    MaxVolumes,          \* values of Opportunity.MaxVolume
    StalenessThreshold,
    MaxTrades,           \* bound: trades booked
    Horizon              \* bound: the clock stops there

ASSUME ExecutorConstants ==
    /\ IsFiniteSet(Exchanges)
    /\ InitialWallet \in [Currencies -> Nat]
    /\ MinPrice \in Nat \ {0} /\ MaxPrice \in Nat /\ MinPrice <= MaxPrice
    /\ MaxVolumes \subseteq Nat
    /\ StalenessThreshold \in Nat /\ Horizon \in Nat
    /\ MaxTrades \in Nat

\* The bid of a quote is only used to make up a bid book.
NoQuote == [ask |-> 0, at |-> -1]

VARIABLES
    prices,    \* the aggregator's latest quote of each exchange, or NoQuote
    now,
    wallet,
    pc,        \* the next step of Execute
    opp,       \* the opportunity: buy, sell and maxVol
    snapshot,  \* the quotes Execute decides on
    startedAt, \* "now" in Execute: the trade's ExecutedAt
    target,    \* targetVolume
    bought,    \* what the walk of the ask book gave: filled and cost
    status,    \* opp.Status as last saved
    trades     \* the trades saved

vars == <<prices, now, wallet, pc, opp, snapshot, startedAt, target,
          bought, status, trades>>

Nothing == [filled |-> 0, cost |-> 0]

Init ==
    /\ prices = [ex \in Exchanges |-> NoQuote]
    /\ now = 0
    /\ wallet = NewMultiWallet(Exchanges, InitialWallet)
    /\ pc = "idle"
    /\ opp \in [buy : Exchanges, sell : Exchanges, maxVol : MaxVolumes]
    /\ opp.buy # opp.sell
    /\ snapshot = prices
    /\ startedAt = 0
    /\ target = 0
    /\ bought = Nothing
    /\ status = "detected"
    /\ trades = <<>>

-----------------------------------------------------------------------------
(* The world around Execute. *)

ReceivePrice(ex, ask) ==
    /\ prices' = [prices EXCEPT ![ex] = [ask |-> ask, at |-> now]]
    /\ UNCHANGED <<now, wallet, pc, opp, snapshot, startedAt, target, bought, status, trades>>

Tick ==
    /\ now < Horizon
    /\ now' = now + 1
    /\ UNCHANGED <<prices, wallet, pc, opp, snapshot, startedAt, target, bought, status, trades>>

-----------------------------------------------------------------------------
(* Execute. *)

\* The loop calls Execute; its first statement takes the snapshot.
TakeSnapshot(buy, sell, maxVol) ==
    /\ pc = "idle"
    /\ Len(trades) < MaxTrades
    /\ buy # sell
    /\ opp' = [buy |-> buy, sell |-> sell, maxVol |-> maxVol]
    /\ snapshot' = prices
    /\ status' = "detected"
    /\ pc' = "check"
    /\ UNCHANGED <<prices, now, wallet, startedAt, target, bought, trades>>

\* Execute returns, and its variables are gone.
Finish(s) ==
    /\ status' = s
    /\ pc' = "idle"
    /\ snapshot' = [ex \in Exchanges |-> NoQuote]
    /\ startedAt' = 0
    /\ target' = 0
    /\ bought' = Nothing

Stale(ex) ==
    \/ snapshot[ex] = NoQuote
    \/ now - snapshot[ex].at > StalenessThreshold

EitherStaleBuyOnly == Stale(opp.buy)
EitherStale == Stale(opp.buy) \/ Stale(opp.sell)

\* min(MaxVolume, usdtBalance / ask), in whole lots.
Volume ==
    LET affordable == Balance(wallet, opp.buy, "USDT") \div snapshot[opp.buy].ask
    IN IF opp.maxVol <= affordable THEN opp.maxVol ELSE affordable

CheckFails ==
    /\ pc = "check"
    /\ \/ EitherStale /\ Finish("expired")
       \/ ~EitherStale /\ Volume <= 0 /\ Finish("skipped")
    /\ UNCHANGED <<prices, now, wallet, opp, trades>>

CheckPasses ==
    /\ pc = "check"
    /\ ~EitherStale
    /\ Volume > 0
    /\ startedAt' = now
    /\ target' = Volume
    /\ pc' = "buy"
    /\ UNCHANGED <<prices, now, wallet, opp, snapshot, bought, status, trades>>

\* What depth.Walk may return for a volume: what it filled, and at what cost.
WalkedFills(volume) == Fills(volume, MinPrice, MaxPrice)

BuyLegFails ==
    /\ pc = "buy"
    /\ \E fill \in WalkedFills(target) :
         \/ fill.filled = 0
         \/ ~DebitSucceeds(wallet, opp.buy, "USDT", fill.cost)
    /\ Finish("skipped")
    /\ UNCHANGED <<prices, now, wallet, opp, trades>>

BuyLegFills ==
    /\ pc = "buy"
    /\ \E fill \in WalkedFills(target) :
         /\ fill.filled > 0
         /\ DebitSucceeds(wallet, opp.buy, "USDT", fill.cost)
         /\ wallet' = Credit(Debited(wallet, opp.buy, "USDT", fill.cost),
                             opp.buy, "BTC", fill.filled)
         /\ bought' = fill
    /\ pc' = "sell"
    /\ UNCHANGED <<prices, now, opp, snapshot, startedAt, target, status, trades>>

\* The wallet with the buy leg undone, at the cost it was bought at.
ReversedAtQuote ==
    Credit(Debit(wallet, opp.buy, "BTC", bought.filled),
           opp.buy, "USDT", bought.filled * snapshot[opp.buy].ask)
Reversed ==
    Credit(Debit(wallet, opp.buy, "BTC", bought.filled),
           opp.buy, "USDT", bought.cost)

\* The bid book is too thin, or the sell exchange holds too little BTC.
SellLegFails ==
    /\ pc = "sell"
    /\ \E fill \in WalkedFills(bought.filled) :
         \/ fill.filled < bought.filled
         \/ ~DebitSucceeds(wallet, opp.sell, "BTC", fill.filled)
    /\ wallet' = Reversed
    /\ Finish("skipped")
    /\ UNCHANGED <<prices, now, opp, trades>>

\* NetProfit is GrossProfit, (vwapSell - vwapBuy) * volume; Fees is zero.
\* The fill is partial when the volume is less than the one requested.
Trade(fill) ==
    [buy |-> opp.buy, sell |-> opp.sell, volume |-> fill.filled,
     cost |-> bought.cost, proceeds |-> fill.cost,
     netProfit |-> fill.cost - bought.cost,
     requestedVolume |-> target,
     quoteAges |-> {startedAt - snapshot[ex].at : ex \in {opp.buy, opp.sell}}]

SellLegFillsShort ==
    /\ pc = "sell"
    /\ \E fill \in WalkedFills(bought.filled) :
         /\ fill.filled > 0
         /\ DebitSucceeds(wallet, opp.sell, "BTC", fill.filled)
         /\ wallet' = Credit(Debited(wallet, opp.sell, "BTC", fill.filled),
                             opp.sell, "USDT", fill.cost)
         /\ trades' = Append(trades, Trade(fill))
    /\ Finish("executed")
    /\ UNCHANGED <<prices, now, opp>>

SellLegFills ==
    /\ pc = "sell"
    /\ \E fill \in WalkedFills(bought.filled) :
         /\ fill.filled = bought.filled
         /\ DebitSucceeds(wallet, opp.sell, "BTC", fill.filled)
         /\ wallet' = Credit(Debited(wallet, opp.sell, "BTC", fill.filled),
                             opp.sell, "USDT", fill.cost)
         /\ trades' = Append(trades, Trade(fill))
    /\ Finish("executed")
    /\ UNCHANGED <<prices, now, opp>>

Execute ==
    \/ \E buy, sell \in Exchanges, v \in MaxVolumes : TakeSnapshot(buy, sell, v)
    \/ CheckFails \/ CheckPasses
    \/ BuyLegFails \/ BuyLegFills
    \/ SellLegFails \/ SellLegFills

Next ==
    \/ Execute
    \/ \E ex \in Exchanges, ask \in MinPrice .. MaxPrice : ReceivePrice(ex, ask)
    \/ Tick

Spec == Init /\ [][Next]_vars

-----------------------------------------------------------------------------
Quote == [ask : MinPrice .. MaxPrice, at : Nat]
Fill == [filled : Nat, cost : Nat]
TradeRecord ==
    [buy : Exchanges, sell : Exchanges, volume : Nat, cost : Nat, proceeds : Nat,
     netProfit : Int, requestedVolume : Nat, quoteAges : SUBSET Int]

\* No balance is ever negative: Reversed takes back BTC it does not check for.
TypeOK ==
    /\ prices \in [Exchanges -> Quote \cup {NoQuote}]
    /\ now \in 0 .. Horizon
    /\ wallet \in [Exchanges -> [Currencies -> Nat]]
    /\ pc \in {"idle", "check", "buy", "sell"}
    /\ opp \in [buy : Exchanges, sell : Exchanges, maxVol : MaxVolumes]
    /\ opp.buy # opp.sell
    /\ snapshot \in [Exchanges -> Quote \cup {NoQuote}]
    /\ startedAt \in 0 .. now
    /\ target \in Nat
    /\ bought \in Fill
    /\ status \in {"detected", "expired", "skipped", "executed"}
    /\ trades \in Seq(TradeRecord)

\* Half a trade is never left behind.  Seen from outside, with the buy leg in
\* progress counted as undone, every run of Execute moves both legs of one
\* trade at once or nothing: whichever check fails after the buy leg has
\* settled, at whatever prices by then, the wallet is back where it was.
Trades == INSTANCE AtomicTrade
    WITH wallet <- IF pc = "sell" THEN Reversed ELSE wallet
ImplementsAtomicTrade == Trades!Spec

\* The ledger agrees with the wallets: BTC is neither made nor lost, and the
\* USDT gained over all exchanges is what the trades report as net profit,
\* but for the buy leg in progress.  The dashboard shows the two side by side.
Total(currency) == SumFunction([ex \in Exchanges |-> wallet[ex][currency]])
Profit == SumFunction([i \in DOMAIN trades |-> trades[i].netProfit])
InFlight == IF pc = "sell" THEN bought ELSE Nothing
LedgerReconciles ==
    /\ Total("USDT") = Cardinality(Exchanges) * InitialWallet["USDT"] + Profit - InFlight.cost
    /\ Total("BTC") = Cardinality(Exchanges) * InitialWallet["BTC"] + InFlight.filled

\* Both quotes a trade was decided on were fresh when Execute looked at the
\* clock, although newer ones kept arriving and the snapshot grew older.
DecidedOnFreshQuotes ==
    \A i \in DOMAIN trades : trades[i].quoteAges \subseteq 0 .. StalenessThreshold

=============================================================================
