------------------------------ MODULE MCBacktest ------------------------------
(* A small instance of Backtest for TLC. *)
EXTENDS Backtest

CONSTANTS r1, r2, binance

MCProfits == {-1, 2}

\* No frame yet, or two of one window whose times go back.
MCEarlier ==
    {{}, {[id |-> 1, ts |-> 2, exchange |-> binance], [id |-> 2, ts |-> 1, exchange |-> binance]}}

\* Two requests in each other's way; one with live recording; one with trading.
MCTogether == {{r1, r2}, {r1, "loop"}, {r1, "trading"}}
=============================================================================
