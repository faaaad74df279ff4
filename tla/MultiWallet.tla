---------------------------- MODULE MultiWallet ----------------------------
(***************************************************************************)
(* internal/wallet/wallet.go: balances by exchange and currency, as        *)
(* operators on a wallet value.  Each method holds w.mu throughout, and    *)
(* the executor is the only caller after start-up.  Amounts are integers,  *)
(* in the smallest unit the model tells apart.                             *)
(***************************************************************************)
EXTENDS Integers

Currencies == {"USDT", "BTC"}

\* NewMultiWallet: every exchange starts with the same amounts.
NewMultiWallet(exchanges, initial) == [ex \in exchanges |-> initial]

Balance(w, ex, currency) == w[ex][currency]

Credit(w, ex, currency, amount) == [w EXCEPT ![ex][currency] = @ + amount]

\* Debit fails, and leaves the wallet alone, when the balance is too small.
DebitUnchecked(w, ex, currency, amount) == TRUE
DebitSucceeds(w, ex, currency, amount) == w[ex][currency] >= amount

Debited(w, ex, currency, amount) == [w EXCEPT ![ex][currency] = @ - amount]

\* Debit by a caller that ignores the error.
Debit(w, ex, currency, amount) ==
    IF DebitSucceeds(w, ex, currency, amount) THEN Debited(w, ex, currency, amount) ELSE w

=============================================================================
