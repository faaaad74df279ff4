----------------------------- MODULE MCExecutor -----------------------------
(* A small instance of Executor for TLC. *)
EXTENDS Executor

MCInitialWallet == [USDT |-> 2, BTC |-> 1]
=============================================================================
