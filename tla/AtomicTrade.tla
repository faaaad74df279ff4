---------------------------- MODULE AtomicTrade ----------------------------
(***************************************************************************)
(* What the executor promises of wallets and trades: a trade happens in    *)
(* one piece or not at all.  The two legs move the same volume of BTC, the *)
(* USDT they move is what the trade's record says, and no balance ever     *)
(* goes below zero.                                                        *)
(***************************************************************************)
EXTENDS MultiWallet, Sequences

CONSTANTS
    Exchanges,
    InitialWallet  \* the amounts each exchange starts with

VARIABLES
    wallet,
    trades   \* records with buy, sell, volume, cost and proceeds, oldest first

vars == <<wallet, trades>>

Init ==
    /\ wallet = NewMultiWallet(Exchanges, InitialWallet)
    /\ trades = <<>>

\* The wallet after both legs of a trade.
Settled(w, t) ==
    Credit(Debited(Credit(Debited(w, t.buy, "USDT", t.cost),
                          t.buy, "BTC", t.volume),
                   t.sell, "BTC", t.volume),
           t.sell, "USDT", t.proceeds)

Settle(t) ==
    /\ t.buy \in Exchanges /\ t.sell \in Exchanges /\ t.buy # t.sell
    /\ t.volume > 0
    /\ Balance(wallet, t.buy, "USDT") >= t.cost
    /\ Balance(wallet, t.sell, "BTC") >= t.volume
    /\ wallet' = Settled(wallet, t)
    /\ trades' = Append(trades, t)

\* The trade of a step is the one it appends.
Next ==
    /\ trades' # <<>>
    /\ Settle(trades'[Len(trades')])

Spec == Init /\ [][Next]_vars

=============================================================================
