--------------------------- MODULE ExecutorProofs ---------------------------
(***************************************************************************)
(* For every set of exchanges, every starting wallet and every range of    *)
(* prices: no balance goes below zero, trades are decided on fresh quotes, *)
(* and Execute moves both legs of a trade or none (AtomicTrade).           *)
(***************************************************************************)
EXTENDS Executor, TLAPS, FiniteSetTheorems

Wallets == [Exchanges -> [Currencies -> Nat]]

-----------------------------------------------------------------------------
(* The wallet. *)

LEMMA CreditDef ==
    ASSUME NEW w \in Wallets, NEW ex \in Exchanges, NEW c \in Currencies, NEW a \in Nat
    PROVE  /\ Credit(w, ex, c, a) \in Wallets
           /\ \A x \in Exchanges, y \in Currencies :
                Credit(w, ex, c, a)[x][y] = IF x = ex /\ y = c THEN w[x][y] + a ELSE w[x][y]
  BY DEF Credit, Wallets

LEMMA DebitedDef ==
    ASSUME NEW w \in Wallets, NEW ex \in Exchanges, NEW c \in Currencies, NEW a \in Nat,
           DebitSucceeds(w, ex, c, a)
    PROVE  /\ Debited(w, ex, c, a) \in Wallets
           /\ \A x \in Exchanges, y \in Currencies :
                Debited(w, ex, c, a)[x][y] = IF x = ex /\ y = c THEN w[x][y] - a ELSE w[x][y]
  BY DEF Debited, DebitSucceeds, Wallets

\* Two wallets with the same balances are the same wallet.
LEMMA SameBalances ==
    ASSUME NEW v \in Wallets, NEW w \in Wallets,
           \A x \in Exchanges, y \in Currencies : v[x][y] = w[x][y]
    PROVE  v = w
  <1>1. \A x \in Exchanges : v[x] = w[x]
    <2> SUFFICES ASSUME NEW x \in Exchanges PROVE v[x] = w[x]
      OBVIOUS
    <2>1. v[x] \in [Currencies -> Nat] /\ w[x] \in [Currencies -> Nat]
      BY DEF Wallets
    <2> QED BY <2>1
  <1> QED BY <1>1 DEF Wallets

Exchanged(w, ex, from, paid, to, got) == Credit(Debited(w, ex, from, paid), ex, to, got)

\* Paying in one currency and being credited in the other.
LEMMA ExchangedDef ==
    ASSUME NEW w \in Wallets, NEW ex \in Exchanges,
           NEW from \in Currencies, NEW to \in Currencies, from # to,
           NEW paid \in Nat, NEW got \in Nat,
           DebitSucceeds(w, ex, from, paid)
    PROVE  /\ Exchanged(w, ex, from, paid, to, got) \in Wallets
           /\ \A x \in Exchanges, y \in Currencies :
                Exchanged(w, ex, from, paid, to, got)[x][y] =
                  IF x = ex THEN (IF y = from THEN w[x][y] - paid
                                  ELSE IF y = to THEN w[x][y] + got ELSE w[x][y])
                  ELSE w[x][y]
  <1> DEFINE d == Debited(w, ex, from, paid)
  <1>1. d \in Wallets
    BY DebitedDef
  <1>2. \A x \in Exchanges, y \in Currencies :
          d[x][y] = IF x = ex /\ y = from THEN w[x][y] - paid ELSE w[x][y]
    BY DebitedDef
  <1> HIDE DEF d
  <1>3. /\ Credit(d, ex, to, got) \in Wallets
        /\ \A x \in Exchanges, y \in Currencies :
             Credit(d, ex, to, got)[x][y] = IF x = ex /\ y = to THEN d[x][y] + got ELSE d[x][y]
    BY <1>1, CreditDef
  <1>4. Exchanged(w, ex, from, paid, to, got) = Credit(d, ex, to, got)
    BY DEF Exchanged, d
  <1> QED BY <1>2, <1>3, <1>4

\* Exchanging back and forth restores the wallet.
LEMMA ExchangedBack ==
    ASSUME NEW w \in Wallets, NEW ex \in Exchanges,
           NEW from \in Currencies, NEW to \in Currencies, from # to,
           NEW paid \in Nat, NEW got \in Nat,
           DebitSucceeds(w, ex, from, paid)
    PROVE  LET v == Exchanged(w, ex, from, paid, to, got)
           IN /\ DebitSucceeds(v, ex, to, got)
              /\ Exchanged(v, ex, to, got, from, paid) = w
  <1> DEFINE v == Exchanged(w, ex, from, paid, to, got)
             u == Exchanged(v, ex, to, got, from, paid)
  <1>1. /\ v \in Wallets
        /\ \A x \in Exchanges, y \in Currencies :
             v[x][y] = IF x = ex THEN (IF y = from THEN w[x][y] - paid
                                       ELSE IF y = to THEN w[x][y] + got ELSE w[x][y])
                       ELSE w[x][y]
    BY ExchangedDef
  <1>2. \A x \in Exchanges, y \in Currencies : w[x][y] \in Nat
    BY DEF Wallets
  <1> HIDE DEF v
  <1>3. DebitSucceeds(v, ex, to, got)
    BY <1>1, <1>2 DEF DebitSucceeds
  <1>4. /\ u \in Wallets
        /\ \A x \in Exchanges, y \in Currencies :
             u[x][y] = IF x = ex THEN (IF y = to THEN v[x][y] - got
                                       ELSE IF y = from THEN v[x][y] + paid ELSE v[x][y])
                       ELSE v[x][y]
    BY <1>1, <1>3, ExchangedDef
  <1> HIDE DEF u
  <1>5. \A x \in Exchanges, y \in Currencies : u[x][y] = w[x][y]
    BY <1>1, <1>2, <1>4
  <1>6. u = w
    BY <1>4, <1>5, SameBalances
  <1> QED BY <1>3, <1>6 DEF u, v

-----------------------------------------------------------------------------
(* The inductive invariant. *)

QuoteOK(q) == q = NoQuote \/ (q \in Quote /\ q.at <= now)

\* Both quotes were fresh at startedAt.
Fresh ==
    \A ex \in {opp.buy, opp.sell} : startedAt - snapshot[ex].at \in 0 .. StalenessThreshold

Inv ==
    /\ TypeOK
    /\ \A ex \in Exchanges : QuoteOK(prices[ex]) /\ QuoteOK(snapshot[ex])
    /\ pc \in {"buy", "sell"} => Fresh
    /\ pc = "sell" => /\ bought.filled > 0
                      /\ DebitSucceeds(wallet, opp.buy, "BTC", bought.filled)
    /\ DecidedOnFreshQuotes

LEMMA InitInv == Init => Inv
  <1> SUFFICES ASSUME Init PROVE Inv
    OBVIOUS
  <1> USE ExecutorConstants
  <1>1. wallet \in Wallets
    BY DEF Init, NewMultiWallet, Wallets
  <1>2. TypeOK
    BY <1>1 DEF Init, TypeOK, Wallets, Fill, Nothing
  <1> QED BY <1>2 DEF Inv, Init, QuoteOK, DecidedOnFreshQuotes

\* The typing of a fill, and of one that is not empty.
LEMMA FillsAreFills ==
    ASSUME NEW volume \in Nat, NEW fill \in WalkedFills(volume)
    PROVE  fill \in Fill /\ fill.filled <= volume
  <1>1. PICK q \in 0 .. volume : \E c \in q * MinPrice .. q * MaxPrice :
                                    fill = [filled |-> q, cost |-> c]
    BY DEF WalkedFills, Fills
  <1>2. q * MinPrice \in Nat /\ q * MaxPrice \in Nat
    BY ExecutorConstants
  <1> QED BY <1>1, <1>2 DEF Fill

\* Execute returns with the wallet in order: nothing else is left to keep.
LEMMA FinishInv ==
    ASSUME Inv, NEW s \in {"expired", "skipped", "executed"}, Finish(s),
           UNCHANGED <<prices, now, opp>>, wallet' \in Wallets, trades' \in Seq(TradeRecord),
           DecidedOnFreshQuotes'
    PROVE  Inv'
  <1>1. TypeOK'
    BY DEF Inv, TypeOK, Finish, Fill, Nothing, Wallets
  <1>2. \A ex \in Exchanges : QuoteOK(prices[ex])' /\ QuoteOK(snapshot[ex])'
    BY DEF Inv, Finish, QuoteOK
  <1> QED BY <1>1, <1>2 DEF Inv, Finish
LEMMA TakeSnapshotInv ==
    ASSUME Inv, NEW buy \in Exchanges, NEW sell \in Exchanges, NEW v \in MaxVolumes,
           TakeSnapshot(buy, sell, v)
    PROVE  Inv'
  <1>1. TypeOK'
    BY DEF Inv, TypeOK, TakeSnapshot
  <1> QED BY <1>1 DEF Inv, TakeSnapshot, QuoteOK, DecidedOnFreshQuotes

\* A failed check leaves the wallet alone.
LEMMA CheckFailsInv == ASSUME Inv, CheckFails PROVE Inv'
  <1>1. PICK s \in {"expired", "skipped", "executed"} : Finish(s)
    BY DEF CheckFails
  <1>2. wallet' \in Wallets /\ trades' \in Seq(TradeRecord) /\ DecidedOnFreshQuotes'
    BY DEF Inv, TypeOK, CheckFails, Wallets, DecidedOnFreshQuotes
  <1>3. UNCHANGED <<prices, now, opp>>
    BY DEF CheckFails
  <1> QED BY <1>1, <1>2, <1>3, FinishInv

\* What the check lets through is fresh, and a whole number of lots.
LEMMA CheckPassesInv == ASSUME Inv, CheckPasses PROVE Inv'
  <1> USE ExecutorConstants
  <1>0. TypeOK /\ opp.buy \in Exchanges /\ opp.sell \in Exchanges /\ opp.maxVol \in Nat
    BY DEF Inv, TypeOK
  <1>1. \A ex \in {opp.buy, opp.sell} :
          /\ snapshot[ex] \in Quote /\ snapshot[ex].at <= now
          /\ now - snapshot[ex].at <= StalenessThreshold
    <2> SUFFICES ASSUME NEW ex \in {opp.buy, opp.sell}
                 PROVE  /\ snapshot[ex] \in Quote /\ snapshot[ex].at <= now
                        /\ now - snapshot[ex].at <= StalenessThreshold
      OBVIOUS
    <2>1. ~Stale(ex)
      BY DEF CheckPasses, EitherStale
    <2>2. QuoteOK(snapshot[ex])
      BY <1>0 DEF Inv
    <2>3. snapshot[ex] \in Quote /\ snapshot[ex].at <= now /\ snapshot[ex].at \in Nat
      BY <2>1, <2>2 DEF Stale, QuoteOK, Quote
    <2>4. now - snapshot[ex].at <= StalenessThreshold
      BY <1>0, <2>1, <2>3 DEF Stale, TypeOK
    <2> QED BY <2>3, <2>4
  <1>2. Fresh'
    <2> SUFFICES ASSUME NEW ex \in {opp.buy, opp.sell}
                 PROVE  now - snapshot[ex].at \in 0 .. StalenessThreshold
      BY DEF CheckPasses, Fresh
    <2>1. snapshot[ex].at \in Nat
      BY <1>1 DEF Quote
    <2> QED BY <1>0, <1>1, <2>1 DEF TypeOK
  <1>3. Volume \in Nat
    <2>1. snapshot[opp.buy].ask \in Nat \ {0}
      BY <1>1 DEF Quote
    <2>2. Balance(wallet, opp.buy, "USDT") \in Nat
      BY <1>0 DEF TypeOK, Balance, Currencies
    <2>3. \A n \in Nat, d \in Nat \ {0} : n \div d \in Nat
      OBVIOUS
    <2> QED BY <1>0, <2>1, <2>2, <2>3 DEF Volume
  <1>4. TypeOK'
    BY <1>0, <1>3 DEF TypeOK, CheckPasses
  <1> QED BY <1>2, <1>4 DEF Inv, CheckPasses, QuoteOK, DecidedOnFreshQuotes

LEMMA BuyLegFailsInv == ASSUME Inv, BuyLegFails PROVE Inv'
  <1>1. wallet' \in Wallets /\ trades' \in Seq(TradeRecord) /\ DecidedOnFreshQuotes'
    BY DEF Inv, TypeOK, BuyLegFails, Wallets, DecidedOnFreshQuotes
  <1>2. Finish("skipped") /\ UNCHANGED <<prices, now, opp>>
    BY DEF BuyLegFails
  <1> QED BY <1>1, <1>2, FinishInv

\* The wallet after the buy leg, from which Reversed finds its way back.
LEMMA BuyLegFact ==
    ASSUME Inv, BuyLegFills
    PROVE  /\ bought' \in Fill /\ bought'.filled > 0
           /\ DebitSucceeds(wallet, opp.buy, "USDT", bought'.cost)
           /\ wallet' = Exchanged(wallet, opp.buy, "USDT", bought'.cost, "BTC", bought'.filled)
           /\ wallet' \in Wallets
           /\ DebitSucceeds(wallet', opp.buy, "BTC", bought'.filled)
           /\ Exchanged(wallet', opp.buy, "BTC", bought'.filled, "USDT", bought'.cost) = wallet
  <1>1. wallet \in Wallets /\ opp.buy \in Exchanges /\ target \in Nat
    BY DEF Inv, TypeOK, Wallets
  <1>2. PICK fill \in WalkedFills(target) :
          /\ fill.filled > 0
          /\ DebitSucceeds(wallet, opp.buy, "USDT", fill.cost)
          /\ wallet' = Credit(Debited(wallet, opp.buy, "USDT", fill.cost),
                              opp.buy, "BTC", fill.filled)
          /\ bought' = fill
    BY DEF BuyLegFills
  <1>3. fill \in Fill /\ fill.filled \in Nat /\ fill.cost \in Nat
    BY <1>1, FillsAreFills DEF Fill
  <1>4. wallet' = Exchanged(wallet, opp.buy, "USDT", fill.cost, "BTC", fill.filled)
    BY <1>2 DEF Exchanged
  <1>5. "USDT" \in Currencies /\ "BTC" \in Currencies /\ "USDT" # "BTC"
    BY DEF Currencies
  <1>6. wallet' \in Wallets
    BY <1>1, <1>2, <1>3, <1>4, <1>5, ExchangedDef
  <1>7. /\ DebitSucceeds(wallet', opp.buy, "BTC", fill.filled)
        /\ Exchanged(wallet', opp.buy, "BTC", fill.filled, "USDT", fill.cost) = wallet
    BY <1>1, <1>2, <1>3, <1>4, <1>5, ExchangedBack
  <1> QED BY <1>2, <1>3, <1>4, <1>6, <1>7

LEMMA BuyLegFillsInv == ASSUME Inv, BuyLegFills PROVE Inv'
  <1>1. TypeOK'
    BY BuyLegFact DEF Inv, TypeOK, BuyLegFills, Wallets
  <1>2. Fresh'
    BY DEF Inv, Fresh, BuyLegFills
  <1>3. opp' = opp /\ bought'.filled > 0 /\ DebitSucceeds(wallet', opp.buy, "BTC", bought'.filled)
    BY BuyLegFact DEF BuyLegFills
  <1>4. DebitSucceeds(wallet, opp.buy, "BTC", bought.filled)'
    BY <1>3 DEF DebitSucceeds
  <1> QED BY <1>1, <1>2, <1>3, <1>4 DEF Inv, BuyLegFills, QuoteOK, DecidedOnFreshQuotes

\* Taking the buy leg back never fails: the BTC it brought is still there.
LEMMA ReversedFact ==
    ASSUME Inv, pc = "sell"
    PROVE  /\ Reversed = Exchanged(wallet, opp.buy, "BTC", bought.filled, "USDT", bought.cost)
           /\ Reversed \in Wallets
           /\ DebitSucceeds(Reversed, opp.buy, "USDT", bought.cost)
           /\ Exchanged(Reversed, opp.buy, "USDT", bought.cost, "BTC", bought.filled) = wallet
  <1>1. /\ wallet \in Wallets /\ opp.buy \in Exchanges
        /\ bought.filled \in Nat /\ bought.cost \in Nat
        /\ DebitSucceeds(wallet, opp.buy, "BTC", bought.filled)
    BY DEF Inv, TypeOK, Wallets, Fill
  <1>2. Reversed = Exchanged(wallet, opp.buy, "BTC", bought.filled, "USDT", bought.cost)
    BY <1>1 DEF Reversed, Exchanged, Debit
  <1>3. "USDT" \in Currencies /\ "BTC" \in Currencies /\ "USDT" # "BTC"
    BY DEF Currencies
  <1>4. Reversed \in Wallets
    BY <1>1, <1>2, <1>3, ExchangedDef
  <1>5. /\ DebitSucceeds(Reversed, opp.buy, "USDT", bought.cost)
        /\ Exchanged(Reversed, opp.buy, "USDT", bought.cost, "BTC", bought.filled) = wallet
    BY <1>1, <1>2, <1>3, ExchangedBack
  <1> QED BY <1>2, <1>4, <1>5

LEMMA SellLegFailsInv == ASSUME Inv, SellLegFails PROVE Inv'
  <1>1. wallet' = Reversed /\ pc = "sell" /\ Finish("skipped") /\ UNCHANGED <<prices, now, opp>>
    BY DEF SellLegFails
  <1>2. wallet' \in Wallets
    BY <1>1, ReversedFact
  <1>3. trades' \in Seq(TradeRecord) /\ DecidedOnFreshQuotes'
    BY DEF Inv, TypeOK, SellLegFails, DecidedOnFreshQuotes
  <1> QED BY <1>1, <1>2, <1>3, FinishInv

\* What the sell leg books and moves.
LEMMA SellLegFact ==
    ASSUME Inv, SellLegFills
    PROVE  \E fill \in Fill :
             /\ fill.filled = bought.filled
             /\ DebitSucceeds(wallet, opp.sell, "BTC", fill.filled)
             /\ wallet' = Exchanged(wallet, opp.sell, "BTC", fill.filled, "USDT", fill.cost)
             /\ wallet' \in Wallets
             /\ trades' = Append(trades, Trade(fill))
             /\ Trade(fill) \in TradeRecord
             /\ Trade(fill).quoteAges \subseteq 0 .. StalenessThreshold
  <1>1. /\ wallet \in Wallets /\ opp.buy \in Exchanges /\ opp.sell \in Exchanges
        /\ bought \in Fill /\ target \in Nat
    BY DEF Inv, TypeOK, Wallets
  <1>2. bought.filled \in Nat /\ bought.cost \in Nat
    BY <1>1 DEF Fill
  <1>3. PICK fill \in WalkedFills(bought.filled) :
          /\ fill.filled = bought.filled
          /\ DebitSucceeds(wallet, opp.sell, "BTC", fill.filled)
          /\ wallet' = Credit(Debited(wallet, opp.sell, "BTC", fill.filled),
                              opp.sell, "USDT", fill.cost)
          /\ trades' = Append(trades, Trade(fill))
    BY DEF SellLegFills
  <1>4. fill \in Fill /\ fill.filled \in Nat /\ fill.cost \in Nat
    BY <1>2, FillsAreFills DEF Fill
  <1>5. wallet' = Exchanged(wallet, opp.sell, "BTC", fill.filled, "USDT", fill.cost)
    BY <1>3 DEF Exchanged
  <1>6. wallet' \in Wallets
    BY <1>1, <1>3, <1>4, <1>5, ExchangedDef DEF Currencies
  <1>7. Trade(fill).quoteAges \subseteq 0 .. StalenessThreshold
    BY DEF Inv, Fresh, SellLegFills, Trade
  <1>8. Trade(fill) \in TradeRecord
    <2> DEFINE ages == {startedAt - snapshot[ex].at : ex \in {opp.buy, opp.sell}}
    <2>1. ages \in SUBSET Int
      BY <1>7, ExecutorConstants DEF Trade
    <2> HIDE DEF ages
    <2>2. Trade(fill) = [buy |-> opp.buy, sell |-> opp.sell, volume |-> fill.filled,
                         cost |-> bought.cost, proceeds |-> fill.cost,
                         netProfit |-> fill.cost - bought.cost,
                         requestedVolume |-> target,
                         quoteAges |-> ages]
      BY DEF Trade, ages
    <2>3. fill.cost - bought.cost \in Int
      BY <1>2, <1>4
    <2> QED BY <1>1, <1>2, <1>4, <2>1, <2>2, <2>3 DEF TradeRecord
  <1> QED BY <1>3, <1>4, <1>5, <1>6, <1>7, <1>8

LEMMA SellLegFillsInv == ASSUME Inv, SellLegFills PROVE Inv'
  <1>1. PICK fill \in Fill :
          /\ wallet' \in Wallets
          /\ trades' = Append(trades, Trade(fill))
          /\ Trade(fill) \in TradeRecord
          /\ Trade(fill).quoteAges \subseteq 0 .. StalenessThreshold
    BY SellLegFact
  <1>2. trades \in Seq(TradeRecord)
    BY DEF Inv, TypeOK
  <1> DEFINE t == Trade(fill)
  <1>3. trades' = Append(trades, t) /\ t \in TradeRecord /\ t.quoteAges \subseteq 0 .. StalenessThreshold
    BY <1>1
  <1> HIDE DEF t
  <1>4. trades' \in Seq(TradeRecord)
    BY <1>2, <1>3
  <1>5. DecidedOnFreshQuotes'
    <2> SUFFICES ASSUME NEW i \in DOMAIN trades'
                 PROVE  trades'[i].quoteAges \subseteq 0 .. StalenessThreshold
      BY DEF DecidedOnFreshQuotes
    <2>1. CASE i = Len(trades) + 1
      BY <1>2, <1>3, <2>1
    <2>2. CASE i # Len(trades) + 1
      <3>1. i \in DOMAIN trades /\ trades'[i] = trades[i]
        BY <1>2, <1>3, <2>2
      <3> QED BY <3>1 DEF Inv, DecidedOnFreshQuotes
    <2> QED BY <2>1, <2>2
  <1>6. Finish("executed") /\ UNCHANGED <<prices, now, opp>>
    BY DEF SellLegFills
  <1> QED BY <1>1, <1>4, <1>5, <1>6, FinishInv

\* The feed and the clock leave what Execute has read alone.
LEMMA WorldInv ==
    ASSUME Inv,
           Tick \/ \E ex \in Exchanges, ask \in MinPrice .. MaxPrice : ReceivePrice(ex, ask)
    PROVE  Inv'
  <1>1. CASE Tick
    <2>1. TypeOK'
      BY <1>1, ExecutorConstants DEF Inv, TypeOK, Tick
    <2>2. now \in Nat /\ now' = now + 1
      BY <1>1, ExecutorConstants DEF Inv, TypeOK, Tick
    <2>3. \A ex \in Exchanges : QuoteOK(prices[ex])' /\ QuoteOK(snapshot[ex])'
      BY <1>1, <2>2 DEF Inv, Tick, QuoteOK, Quote
    <2> QED BY <1>1, <2>1, <2>3 DEF Inv, Tick, Fresh, DecidedOnFreshQuotes, DebitSucceeds
  <1>2. ASSUME NEW ex \in Exchanges, NEW ask \in MinPrice .. MaxPrice, ReceivePrice(ex, ask)
        PROVE  Inv'
    <2>1. now \in Nat /\ [ask |-> ask, at |-> now] \in Quote
      BY ExecutorConstants DEF Inv, TypeOK, Quote
    <2>2. TypeOK'
      BY <1>2, <2>1 DEF Inv, TypeOK, ReceivePrice
    <2>3. \A x \in Exchanges : QuoteOK(prices[x])' /\ QuoteOK(snapshot[x])'
      BY <1>2, <2>1 DEF Inv, TypeOK, ReceivePrice, QuoteOK
    <2> QED BY <1>2, <2>2, <2>3 DEF Inv, ReceivePrice, Fresh, DecidedOnFreshQuotes, DebitSucceeds
  <1> QED BY <1>1, <1>2

LEMMA StepInv == Inv /\ [Next]_vars => Inv'
  <1> SUFFICES ASSUME Inv, [Next]_vars PROVE Inv'
    OBVIOUS
  <1>1. CASE UNCHANGED vars
    <2>1. TypeOK'
      BY <1>1 DEF Inv, TypeOK, vars
    <2> QED BY <1>1, <2>1 DEF Inv, vars, QuoteOK, Fresh, DecidedOnFreshQuotes, DebitSucceeds
  <1>2. CASE Execute
    BY <1>2, TakeSnapshotInv, CheckFailsInv, CheckPassesInv, BuyLegFailsInv, BuyLegFillsInv,
       SellLegFailsInv, SellLegFillsInv DEF Execute
  <1> QED BY <1>1, <1>2, WorldInv DEF Next

LEMMA Invariance == Spec => []Inv
  BY InitInv, StepInv, PTL DEF Spec

\* The variables keep their types; above all, no balance is ever negative,
\* although Reversed ignores the error of the Debit it makes.
THEOREM TypeCorrect == Spec => []TypeOK
  <1>1. Inv => TypeOK
    BY DEF Inv
  <1> QED BY <1>1, Invariance, PTL

\* No trade is decided on a quote older than the threshold, for every
\* threshold and however quotes, clock and steps of Execute interleave.
THEOREM DecidedOnFreshQuotesHolds == Spec => []DecidedOnFreshQuotes
  <1>1. Inv => DecidedOnFreshQuotes
    BY DEF Inv
  <1> QED BY <1>1, Invariance, PTL

-----------------------------------------------------------------------------
(* Execute implements AtomicTrade. *)

\* The wallet as seen from outside, with a buy leg in progress undone.
Outside == IF pc = "sell" THEN Reversed ELSE wallet

\* Both legs of a trade, from the wallet before either.
LEMMA SettledIsBothLegs ==
    ASSUME NEW w, NEW t
    PROVE  Trades!Settled(w, t) =
             Exchanged(Exchanged(w, t.buy, "USDT", t.cost, "BTC", t.volume),
                       t.sell, "BTC", t.volume, "USDT", t.proceeds)
  BY DEF Trades!Settled, Trades!Credit, Trades!Debited, Exchanged, Credit, Debited

LEMMA InitOutside == Init => Trades!Init
  BY DEF Init, Trades!Init, NewMultiWallet, Trades!NewMultiWallet

\* The buy leg does not show.
LEMMA BuyLegOutside == ASSUME Inv, BuyLegFills PROVE Outside' = wallet
  <1>1. Reversed' = Exchanged(wallet', opp.buy, "BTC", bought'.filled, "USDT", bought'.cost)
    <2>1. opp' = opp /\ DebitSucceeds(wallet', opp.buy, "BTC", bought'.filled)
      BY BuyLegFact DEF BuyLegFills
    <2> QED BY <2>1 DEF Reversed, Debit, Exchanged, DebitSucceeds, Debited, Credit
  <1> QED BY <1>1, BuyLegFact DEF Outside, BuyLegFills

\* The sell leg shows as the whole trade.
LEMMA SellLegOutside == ASSUME Inv, SellLegFills PROVE Trades!Next
  <1>1. PICK fill \in Fill :
          /\ fill.filled = bought.filled
          /\ DebitSucceeds(wallet, opp.sell, "BTC", fill.filled)
          /\ wallet' = Exchanged(wallet, opp.sell, "BTC", fill.filled, "USDT", fill.cost)
          /\ trades' = Append(trades, Trade(fill))
          /\ Trade(fill) \in TradeRecord
    BY SellLegFact
  <1> DEFINE t == Trade(fill)
  <1>2. pc = "sell" /\ trades \in Seq(TradeRecord) /\ bought \in Fill /\ bought.filled > 0
    BY DEF Inv, TypeOK, SellLegFills
  <1>3. /\ t.buy = opp.buy /\ t.sell = opp.sell /\ t.volume = bought.filled
        /\ t.cost = bought.cost /\ t.proceeds = fill.cost
    BY <1>1 DEF Trade
  <1>4. Outside = Reversed /\ Outside' = wallet'
    BY <1>2 DEF Outside, SellLegFills, Finish
  <1>5. opp.buy \in Exchanges /\ opp.sell \in Exchanges /\ opp.buy # opp.sell
    BY DEF Inv, TypeOK
  <1>6. trades' # <<>> /\ trades'[Len(trades')] = t
    <2>1. t \in TradeRecord /\ trades' = Append(trades, t)
      BY <1>1
    <2> HIDE DEF t
    <2> QED BY <1>2, <2>1
  <1>7. wallet' = Trades!Settled(Reversed, t)
    BY <1>1, <1>2, <1>3, ReversedFact, SettledIsBothLegs
  <1>8. Trades!Balance(Reversed, opp.buy, "USDT") >= t.cost
    BY <1>2, <1>3, ReversedFact DEF DebitSucceeds, Trades!Balance
  <1>9. Trades!Balance(Reversed, opp.sell, "BTC") >= t.volume
    <2>1. /\ wallet \in Wallets /\ bought.filled \in Nat /\ bought.cost \in Nat
          /\ DebitSucceeds(wallet, opp.buy, "BTC", bought.filled)
      BY <1>2 DEF Inv, TypeOK, Wallets, Fill
    <2>2. Reversed[opp.sell]["BTC"] = wallet[opp.sell]["BTC"]
      BY <1>2, <1>5, <2>1, ReversedFact, ExchangedDef DEF Currencies
    <2> QED BY <1>1, <1>3, <2>2 DEF DebitSucceeds, Trades!Balance
  <1>10. t.volume > 0
    BY <1>2, <1>3
  <1> HIDE DEF t
  <1>11. Trades!Settle(t)
    BY <1>1, <1>3, <1>4, <1>5, <1>6, <1>7, <1>8, <1>9, <1>10 DEF Trades!Settle, Outside, t
  <1> QED BY <1>6, <1>11 DEF Trades!Next

\* Every other step is a stutter.
LEMMA StepOutside == Inv /\ [Next]_vars => [Trades!Next]_(Trades!vars)
  <1> SUFFICES ASSUME Inv, [Next]_vars
               PROVE  Trades!Next \/ (Outside' = Outside /\ trades' = trades)
    BY DEF Trades!vars, Outside
  <1>1. CASE UNCHANGED vars
    BY <1>1 DEF vars, Outside, Reversed, Debit, DebitSucceeds, Debited, Credit
  <1>2. ASSUME NEW buy \in Exchanges, NEW sell \in Exchanges, NEW v \in MaxVolumes,
               TakeSnapshot(buy, sell, v)
        PROVE  Outside' = Outside /\ trades' = trades
    BY <1>2 DEF TakeSnapshot, Outside
  <1>3. CASE CheckFails \/ CheckPasses \/ BuyLegFails
    BY <1>3 DEF CheckFails, CheckPasses, BuyLegFails, Finish, Outside
  <1>4. CASE BuyLegFills
    BY <1>4, BuyLegOutside DEF BuyLegFills, Outside
  <1>5. CASE SellLegFails
    BY <1>5 DEF SellLegFails, Finish, Outside
  <1>6. CASE SellLegFills
    BY <1>6, SellLegOutside
  <1>7. CASE Tick \/ \E ex \in Exchanges, ask \in MinPrice .. MaxPrice : ReceivePrice(ex, ask)
    BY <1>7 DEF Tick, ReceivePrice, Outside, Reversed, Debit, DebitSucceeds, Debited, Credit
  <1> QED BY <1>1, <1>2, <1>3, <1>4, <1>5, <1>6, <1>7 DEF Next, Execute

\* Execute moves both legs of a trade at once or nothing at all, whichever
\* check fails after the buy leg and whatever the books hold by then.
THEOREM AtomicTradeImplemented == Spec => ImplementsAtomicTrade
  <1>1. Spec => Trades!Spec
    BY InitOutside, StepOutside, Invariance, PTL DEF Spec, Trades!Spec
  <1> QED BY <1>1 DEF ImplementsAtomicTrade

-----------------------------------------------------------------------------
(* The walk Execute calls, over any book at all.                            *)

VARIABLES side, levels, volume, next, filled, costSum, walkPc

AnyBook == Seq([price : MinPrice .. MaxPrice, qty : Nat])

Walk == INSTANCE DepthWalkProofs
    WITH Quotes <- {}, N <- 1, Step <- 0, MinQty <- 0, MaxQty <- 0,
         RealBooks <- [s \in {"ask", "bid"} |-> AnyBook], Targets <- Nat,
         target <- volume, pc <- walkPc

LEMMA WalkConstantsHold == Walk!WalkConstants
  BY ExecutorConstants DEF Walk!WalkConstants, Walk!Sides, Walk!Level, Walk!Prices, AnyBook

\* What Execute assumes of a walk is what depth.Walk does, whatever the book.
THEOREM WalksFill == Walk!Spec => []([filled |-> filled, cost |-> costSum] \in WalkedFills(volume))
  <1>1. Walk!ReturnsFill => [filled |-> filled, cost |-> costSum] \in WalkedFills(volume)
    BY DEF Walk!ReturnsFill, Walk!Fills, WalkedFills, Fills
  <1>2. Walk!Spec => []Walk!ReturnsFill
    BY WalkConstantsHold, Walk!ReturnsFillHolds
  <1> QED BY <1>1, <1>2, PTL

\* The facts about sums DepthWalkProofs proves, as facts of this module.
LEMMA SameSums ==
    ASSUME NEW a, NEW S
    PROVE  /\ Walk!SumFunctionOnSet(a, S) = SumFunctionOnSet(a, S)
           /\ Walk!IsFiniteSet(S) <=> IsFiniteSet(S)
           /\ Walk!Cardinality(S) = Cardinality(S)
  <1>1. Walk!SumFunctionOnSet(a, S) = SumFunctionOnSet(a, S)
    BY DEF Walk!SumFunctionOnSet, Walk!FoldFunctionOnSet, Walk!MapThenFoldSet,
           SumFunctionOnSet, FoldFunctionOnSet, MapThenFoldSet
  <1>2. Walk!IsFiniteSet(S) <=> IsFiniteSet(S)
    BY DEF Walk!IsFiniteSet, IsFiniteSet
  <1>3. Walk!Cardinality(S) = Cardinality(S)
    BY DEF Walk!Cardinality, Cardinality
  <1> QED BY <1>1, <1>2, <1>3

LEMMA SumOfNone == ASSUME NEW a PROVE SumFunctionOnSet(a, {}) = 0
  BY SameSums, WalkConstantsHold, Walk!SumOfNone

LEMMA SumSplit ==
    ASSUME NEW a, NEW S, IsFiniteSet(S), \A i \in S : a[i] \in Int
    PROVE  /\ SumFunctionOnSet(a, S) \in Int
           /\ \A x \in S : SumFunctionOnSet(a, S) = a[x] + SumFunctionOnSet(a, S \ {x})
  BY SameSums, WalkConstantsHold, Walk!SumSplit

LEMMA SumSame ==
    ASSUME NEW a, NEW b, NEW S, IsFiniteSet(S), \A i \in S : a[i] \in Int /\ a[i] = b[i]
    PROVE  SumFunctionOnSet(a, S) = SumFunctionOnSet(b, S)
  BY SameSums, WalkConstantsHold, Walk!SumSame

LEMMA SumConstant ==
    ASSUME NEW a, NEW S, IsFiniteSet(S), NEW v \in Int, \A i \in S : a[i] = v
    PROVE  SumFunctionOnSet(a, S) = Cardinality(S) * v
  BY SameSums, WalkConstantsHold, Walk!SumConstant

LEMMA SumUpdate ==
    ASSUME NEW a, NEW b, NEW S, IsFiniteSet(S), NEW x \in S,
           \A i \in S : a[i] \in Int /\ b[i] \in Int,
           \A i \in S \ {x} : a[i] = b[i]
    PROVE  SumFunctionOnSet(b, S) = SumFunctionOnSet(a, S) - a[x] + b[x]
  BY SameSums, WalkConstantsHold, Walk!SumUpdate

-----------------------------------------------------------------------------
(* The ledger. *)

\* What all exchanges hold of a currency.
Amounts(w, c) == [ex \in Exchanges |-> w[ex][c]]
Held(w, c) == SumFunctionOnSet(Amounts(w, c), Exchanges)

LEMMA HeldIsNumber ==
    ASSUME NEW w \in Wallets, NEW c \in Currencies
    PROVE  Held(w, c) \in Int
  <1>1. \A ex \in Exchanges : Amounts(w, c)[ex] \in Int
    BY DEF Amounts, Wallets
  <1> QED BY <1>1, ExecutorConstants, SumSplit DEF Held

\* An exchange moves the totals of both currencies by what it paid and got.
LEMMA ExchangedTotals ==
    ASSUME NEW w \in Wallets, NEW ex \in Exchanges,
           NEW from \in Currencies, NEW to \in Currencies, from # to,
           NEW paid \in Nat, NEW got \in Nat,
           DebitSucceeds(w, ex, from, paid)
    PROVE  LET v == Exchanged(w, ex, from, paid, to, got)
           IN  Held(v, from) = Held(w, from) - paid /\ Held(v, to) = Held(w, to) + got
  <1> DEFINE v == Exchanged(w, ex, from, paid, to, got)
  <1>1. /\ v \in Wallets
        /\ \A x \in Exchanges, y \in Currencies :
             v[x][y] = IF x = ex THEN (IF y = from THEN w[x][y] - paid
                                       ELSE IF y = to THEN w[x][y] + got ELSE w[x][y])
                       ELSE w[x][y]
    BY ExchangedDef
  <1> HIDE DEF v
  <1>2. ASSUME NEW c \in Currencies
        PROVE  Held(v, c) = Held(w, c) - w[ex][c] + v[ex][c]
    <2>1. /\ \A x \in Exchanges : Amounts(w, c)[x] = w[x][c] /\ Amounts(v, c)[x] = v[x][c]
          /\ \A x \in Exchanges : w[x][c] \in Int /\ v[x][c] \in Int
          /\ \A x \in Exchanges \ {ex} : w[x][c] = v[x][c]
      BY <1>1 DEF Amounts, Wallets
    <2>2. /\ \A x \in Exchanges : Amounts(w, c)[x] \in Int /\ Amounts(v, c)[x] \in Int
          /\ \A x \in Exchanges \ {ex} : Amounts(w, c)[x] = Amounts(v, c)[x]
      BY <2>1
    <2>3. Held(v, c) = Held(w, c) - Amounts(w, c)[ex] + Amounts(v, c)[ex]
      BY <2>2, ExecutorConstants, SumUpdate DEF Held
    <2> QED BY <2>1, <2>3
  <1>3. /\ v[ex][from] = w[ex][from] - paid /\ v[ex][to] = w[ex][to] + got
        /\ w[ex][from] \in Int /\ w[ex][to] \in Int
    BY <1>1 DEF Wallets
  <1>4. Held(w, from) \in Int /\ Held(w, to) \in Int
    BY HeldIsNumber
  <1>5. Held(v, from) = Held(w, from) - paid /\ Held(v, to) = Held(w, to) + got
    BY <1>2, <1>3, <1>4
  <1> QED BY <1>5 DEF v

\* The sum of the net profits of a ledger.
Profits(ts) == SumFunction([i \in DOMAIN ts |-> ts[i].netProfit])

LEMMA ProfitsOfNone == Profits(<<>>) = 0
  <1>1. DOMAIN <<>> = {} /\ DOMAIN [i \in DOMAIN <<>> |-> <<>>[i].netProfit] = {}
    OBVIOUS
  <1> QED BY <1>1, SumOfNone DEF Profits, SumFunction

LEMMA ProfitsOfAppend ==
    ASSUME NEW ts \in Seq(TradeRecord), NEW t \in TradeRecord
    PROVE  Profits(ts) \in Int /\ Profits(Append(ts, t)) = Profits(ts) + t.netProfit
  <1> DEFINE n == Len(ts)
             us == Append(ts, t)
             a == [i \in DOMAIN ts |-> ts[i].netProfit]
             b == [i \in DOMAIN us |-> us[i].netProfit]
  <1>0. /\ n \in Nat /\ DOMAIN ts = 1 .. n /\ DOMAIN us = 1 .. (n + 1)
        /\ us[n + 1] = t
        /\ \A i \in 1 .. n : us[i] = ts[i] /\ ts[i] \in TradeRecord
    OBVIOUS
  <1> HIDE DEF n, us
  <1>1. n \in Nat /\ DOMAIN a = 1 .. n /\ DOMAIN b = 1 .. (n + 1)
    BY <1>0
  <1>2. \A r \in TradeRecord : r.netProfit \in Int
    BY DEF TradeRecord
  <1>3. b[n + 1] = t.netProfit /\ t.netProfit \in Int
    BY <1>0, <1>2
  <1>4. /\ \A i \in 1 .. n : a[i] \in Int /\ a[i] = b[i]
        /\ \A i \in 1 .. (n + 1) : b[i] \in Int
    <2>1. ASSUME NEW i \in 1 .. n PROVE a[i] \in Int /\ a[i] = b[i]
      BY <1>0, <1>2
    <2>2. \A i \in 1 .. (n + 1) : i \in 1 .. n \/ i = n + 1
      BY <1>0
    <2> HIDE DEF a, b
    <2> QED BY <1>3, <2>1, <2>2
  <1>5. Profits(ts) = SumFunctionOnSet(a, DOMAIN a) /\ Profits(us) = SumFunctionOnSet(b, DOMAIN b)
    BY DEF Profits, SumFunction
  <1> HIDE DEF a, b
  <1>6. IsFiniteSet(1 .. n) /\ IsFiniteSet(1 .. (n + 1))
    BY <1>1, FS_Interval
  <1>7. n + 1 \in 1 .. (n + 1) /\ (1 .. (n + 1)) \ {n + 1} = 1 .. n
    BY <1>1
  <1>8. SumFunctionOnSet(b, 1 .. (n + 1)) = b[n + 1] + SumFunctionOnSet(b, 1 .. n)
    <2>1. PICK S, x : S = 1 .. (n + 1) /\ x = n + 1
      OBVIOUS
    <2>2. IsFiniteSet(S) /\ x \in S /\ S \ {x} = 1 .. n /\ \A i \in S : b[i] \in Int
      BY <1>4, <1>6, <1>7, <2>1
    <2>3. SumFunctionOnSet(b, S) = b[x] + SumFunctionOnSet(b, S \ {x})
      BY <2>2, SumSplit
    <2> QED BY <2>1, <2>2, <2>3
  <1>9. SumFunctionOnSet(a, 1 .. n) = SumFunctionOnSet(b, 1 .. n)
    BY <1>4, <1>6, SumSame
  <1>10. SumFunctionOnSet(a, 1 .. n) \in Int
    BY <1>4, <1>6, SumSplit
  <1>11. Profits(us) = Profits(ts) + t.netProfit
    BY <1>1, <1>3, <1>5, <1>8, <1>9, <1>10
  <1> QED BY <1>1, <1>5, <1>10, <1>11 DEF us

LEMMA ProfitsAreNumber == ASSUME NEW ts \in Seq(TradeRecord) PROVE Profits(ts) \in Int
  <1> DEFINE a == [i \in DOMAIN ts |-> ts[i].netProfit]
  <1>0. \A r \in TradeRecord : r.netProfit \in Int
    BY DEF TradeRecord
  <1>1. DOMAIN a = 1 .. Len(ts) /\ Len(ts) \in Nat /\ \A i \in DOMAIN a : a[i] \in Int
    BY <1>0
  <1>2. IsFiniteSet(DOMAIN a)
    BY <1>1, FS_Interval
  <1> HIDE DEF a
  <1>3. SumFunctionOnSet(a, DOMAIN a) \in Int
    BY <1>1, <1>2, SumSplit
  <1> QED BY <1>3 DEF Profits, SumFunction, a

LEMMA LedgerTerms ==
    /\ Total("USDT") = Held(wallet, "USDT") /\ Total("BTC") = Held(wallet, "BTC")
    /\ Profit = Profits(trades)
  BY DEF Total, Held, Amounts, Profit, Profits, SumFunction

\* What the wallets held at the start.
Start(c) == Cardinality(Exchanges) * InitialWallet[c]

LEMMA StartIsNumber == \A c \in Currencies : Start(c) \in Int
  BY ExecutorConstants, FS_CardinalityType DEF Start

\* LedgerReconciles in the terms of the lemmas above.
Ledger(w, ts, flight) ==
    /\ Held(w, "USDT") = Start("USDT") + Profits(ts) - flight.cost
    /\ Held(w, "BTC") = Start("BTC") + flight.filled

LEMMA LedgerMeans == LedgerReconciles <=> Ledger(wallet, trades, InFlight)
  BY LedgerTerms DEF LedgerReconciles, Ledger, Start

LEMMA LedgerAtFirst == Init => Ledger(wallet, trades, InFlight)
  <1> SUFFICES ASSUME Init PROVE Ledger(wallet, trades, InFlight)
    OBVIOUS
  <1>1. wallet = [ex \in Exchanges |-> InitialWallet] /\ trades = <<>> /\ InFlight = Nothing
    BY DEF Init, NewMultiWallet, InFlight
  <1>2. ASSUME NEW c \in Currencies PROVE Held(wallet, c) = Start(c)
    <2>1. \A ex \in Exchanges : Amounts(wallet, c)[ex] = InitialWallet[c]
      BY <1>1 DEF Amounts
    <2>2. InitialWallet[c] \in Int
      BY ExecutorConstants
    <2> QED BY <2>1, <2>2, ExecutorConstants, SumConstant DEF Held, Start
  <1> QED BY <1>1, <1>2, ProfitsOfNone, StartIsNumber DEF Ledger, Nothing, Currencies

LEMMA LedgerStep ==
    ASSUME Inv, [Next]_vars, Ledger(wallet, trades, InFlight)
    PROVE  Ledger(wallet, trades, InFlight)'
  <1>0. /\ "USDT" \in Currencies /\ "BTC" \in Currencies /\ "USDT" # "BTC"
        /\ wallet \in Wallets /\ trades \in Seq(TradeRecord) /\ bought \in Fill
        /\ opp.buy \in Exchanges /\ opp.sell \in Exchanges
        /\ bought.cost \in Nat /\ bought.filled \in Nat
    BY DEF Inv, TypeOK, Wallets, Currencies, Fill
  <1>1. /\ Held(wallet, "USDT") \in Int /\ Held(wallet, "BTC") \in Int
        /\ Start("USDT") \in Int /\ Start("BTC") \in Int
    BY <1>0, HeldIsNumber, StartIsNumber
  <1>2. CASE BuyLegFills
    <2>1. /\ InFlight = Nothing /\ InFlight' = bought' /\ trades' = trades
          /\ Nothing.cost = 0 /\ Nothing.filled = 0
      BY <1>2 DEF BuyLegFills, InFlight, Nothing
    <2>2. /\ bought'.cost \in Nat /\ bought'.filled \in Nat
          /\ DebitSucceeds(wallet, opp.buy, "USDT", bought'.cost)
          /\ wallet' = Exchanged(wallet, opp.buy, "USDT", bought'.cost, "BTC", bought'.filled)
      BY <1>2, BuyLegFact DEF Fill
    <2>3. /\ Held(wallet', "USDT") = Held(wallet, "USDT") - bought'.cost
          /\ Held(wallet', "BTC") = Held(wallet, "BTC") + bought'.filled
      BY <1>0, <2>2, ExchangedTotals
    <2>4. Profits(trades) \in Int
      BY <1>0, ProfitsAreNumber
    <2> QED BY <1>1, <2>1, <2>2, <2>3, <2>4 DEF Ledger
  <1>3. CASE SellLegFails
    <2>1. /\ InFlight = bought /\ InFlight' = Nothing /\ trades' = trades /\ wallet' = Reversed
          /\ Nothing.cost = 0 /\ Nothing.filled = 0 /\ pc = "sell"
      BY <1>3 DEF SellLegFails, Finish, InFlight, Nothing
    <2>2. /\ wallet' = Exchanged(wallet, opp.buy, "BTC", bought.filled, "USDT", bought.cost)
          /\ DebitSucceeds(wallet, opp.buy, "BTC", bought.filled)
      BY <2>1, ReversedFact DEF Inv
    <2>3. /\ Held(wallet', "BTC") = Held(wallet, "BTC") - bought.filled
          /\ Held(wallet', "USDT") = Held(wallet, "USDT") + bought.cost
      BY <1>0, <2>2, ExchangedTotals
    <2>4. Profits(trades) \in Int
      BY <1>0, ProfitsAreNumber
    <2> QED BY <1>0, <1>1, <2>1, <2>3, <2>4 DEF Ledger
  <1>4. CASE SellLegFills
    <2>1. PICK fill \in Fill :
            /\ fill.filled = bought.filled
            /\ DebitSucceeds(wallet, opp.sell, "BTC", fill.filled)
            /\ wallet' = Exchanged(wallet, opp.sell, "BTC", fill.filled, "USDT", fill.cost)
            /\ trades' = Append(trades, Trade(fill))
            /\ Trade(fill) \in TradeRecord
      BY <1>4, SellLegFact
    <2>2. /\ InFlight = bought /\ InFlight' = Nothing
          /\ Nothing.cost = 0 /\ Nothing.filled = 0
      BY <1>4 DEF SellLegFills, Finish, InFlight, Nothing
    <2>3. fill.cost \in Nat /\ fill.filled \in Nat
      BY DEF Fill
    <2>4. /\ Held(wallet', "BTC") = Held(wallet, "BTC") - bought.filled
          /\ Held(wallet', "USDT") = Held(wallet, "USDT") + fill.cost
      BY <1>0, <2>1, <2>3, ExchangedTotals
    <2>5. /\ Profits(trades) \in Int
          /\ Profits(trades') = Profits(trades) + (fill.cost - bought.cost)
      BY <1>0, <2>1, ProfitsOfAppend DEF Trade
    <2>6. /\ InFlight.cost = bought.cost /\ InFlight.filled = bought.filled
          /\ InFlight'.cost = 0 /\ InFlight'.filled = 0
      BY <2>2
    <2>7. /\ Held(wallet, "USDT") = Start("USDT") + Profits(trades) - bought.cost
          /\ Held(wallet, "BTC") = Start("BTC") + bought.filled
      BY <2>6 DEF Ledger
    <2>8. bought.cost \in Int /\ bought.filled \in Int /\ fill.cost \in Int
      BY <1>0, <2>3
    <2> DEFINE cost == bought.cost
               filled0 == bought.filled
               got == fill.cost
               p0 == Profits(trades)
               p1 == Profits(trades')
               u0 == Held(wallet, "USDT")
               u1 == Held(wallet', "USDT")
               b0 == Held(wallet, "BTC")
               b1 == Held(wallet', "BTC")
               u == Start("USDT")
               b == Start("BTC")
    <2>9. /\ cost \in Int /\ filled0 \in Int /\ got \in Int /\ p0 \in Int /\ u \in Int /\ b \in Int
          /\ u0 = u + p0 - cost /\ b0 = b + filled0
          /\ u1 = u0 + got /\ b1 = b0 - filled0 /\ p1 = p0 + (got - cost)
      BY <1>1, <2>4, <2>5, <2>7, <2>8
    <2>10. u1 = u + p1 - InFlight'.cost /\ b1 = b + InFlight'.filled
      <3> HIDE DEF cost, filled0, got, p0, p1, u0, u1, b0, b1, u, b
      <3>1. u1 = u + p1 - 0 /\ b1 = b + 0
        BY <2>9
      <3> QED BY <2>6, <3>1
    <2> QED BY <2>10 DEF Ledger
  <1>5. CASE UNCHANGED <<wallet, trades, InFlight>>
    BY <1>5 DEF Ledger
  <1>6. CASE UNCHANGED vars
    BY <1>6, <1>5 DEF vars, InFlight
  <1>7. CASE \E buy, sell \in Exchanges, v \in MaxVolumes : TakeSnapshot(buy, sell, v)
    BY <1>7, <1>5 DEF TakeSnapshot, InFlight
  <1>8. CASE CheckFails \/ CheckPasses \/ BuyLegFails
    BY <1>8, <1>5 DEF CheckFails, CheckPasses, BuyLegFails, Finish, InFlight
  <1>9. CASE Tick \/ \E ex \in Exchanges, ask \in MinPrice .. MaxPrice : ReceivePrice(ex, ask)
    BY <1>9, <1>5 DEF Tick, ReceivePrice, InFlight
  <1> QED BY <1>2, <1>3, <1>4, <1>6, <1>7, <1>8, <1>9 DEF Next, Execute

\* The ledger agrees with the wallets: no BTC is made or lost, and the USDT
\* gained over all exchanges is the net profit of the trades booked, at every
\* step and whatever check fails.
THEOREM LedgerHolds == Spec => []LedgerReconciles
  <1>1. Spec => []Ledger(wallet, trades, InFlight)
    BY LedgerAtFirst, LedgerStep, Invariance, PTL DEF Spec
  <1> QED BY <1>1, LedgerMeans, PTL

=============================================================================
