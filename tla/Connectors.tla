------------------------------ MODULE Connectors ------------------------------
(***************************************************************************)
(* internal/exchange: what distinguishes the ten connectors.  They share   *)
(* one skeleton (Feed): dial, set up, read frames until an error, back     *)
(* off, again.  A protocol says                                            *)
(*   setup    the steps of run before its read loop, in order,             *)
(*   pings    whether run starts a goroutine that pings on a ticker,       *)
(*   answers  whether the read loop itself writes answers to keep-alives,  *)
(*   emits    for the frames it understands, the channels one frame can    *)
(*            feed.  Any other frame is skipped.                           *)
(***************************************************************************)
EXTENDS Integers, Sequences

CONSTANTS
    IntWidth,   \* bits of time.Duration (64 in Go)
    Second,     \* time.Second, in units of time.Duration
    MaxDelay    \* the cap of the back-off

ASSUME ConnectorConstants ==
    IntWidth \in Nat \ {0} /\ Second \in Nat \ {0} /\ MaxDelay \in Nat

\* Two streams over one connection, chosen in the URL: nothing to subscribe.
Binance == [setup |-> <<"dial">>, pings |-> FALSE, answers |-> FALSE,
            emits |-> {{"price"}, {"book"}}]

Kraken == [setup |-> <<"dial", "subscribe">>, pings |-> FALSE, answers |-> FALSE,
           emits |-> {{"price"}}]

\* A snapshot feeds both channels, unless one side of the book is empty.
\* Deltas are skipped.
Bybit == [setup |-> <<"dial", "subscribe">>, pings |-> TRUE, answers |-> FALSE,
          emits |-> {{"price", "book"}, {"book"}}]

OKX == [setup |-> <<"dial", "subscribe">>, pings |-> TRUE, answers |-> FALSE,
        emits |-> {{"price"}, {"book"}}]

Gate == [setup |-> <<"dial", "subscribe">>, pings |-> TRUE, answers |-> FALSE,
         emits |-> {{"price"}}]

MEXC == [setup |-> <<"dial", "subscribe">>, pings |-> TRUE, answers |-> TRUE,
         emits |-> {{"price"}}]

Bitget == [setup |-> <<"dial", "subscribe">>, pings |-> TRUE, answers |-> TRUE,
           emits |-> {{"price"}}]

HTXPings == [setup |-> <<"dial", "subscribe">>, pings |-> TRUE, answers |-> TRUE,
             emits |-> {{"price"}}]

HTX == [setup |-> <<"dial", "subscribe">>, pings |-> FALSE, answers |-> TRUE,
        emits |-> {{"price"}}]

CryptoCom == [setup |-> <<"dial", "subscribe">>, pings |-> FALSE, answers |-> TRUE,
              emits |-> {{"price"}}]

\* The address of the socket comes from a REST call, and the server greets
\* first.
KuCoin == [setup |-> <<"fetch", "dial", "welcome", "subscribe">>, pings |-> TRUE,
           answers |-> FALSE, emits |-> {{"price"}}]

Protocol ==
    [binance |-> Binance, kraken |-> Kraken, bybit |-> Bybit, okx |-> OKX,
     gate |-> Gate, mexc |-> MEXC, bitget |-> Bitget, htx |-> HTX,
     cryptocom |-> CryptoCom, kucoin |-> KuCoin]

Exchanges == DOMAIN Protocol

\* Go's signed integers wrap around.
Wrap(x) == ((x + 2 ^ (IntWidth - 1)) % 2 ^ IntWidth) - 2 ^ (IntWidth - 1)

\* backoff without its jitter: the doubling wraps before the cap applies.
Delay(attempt) ==
    LET doubled == Wrap(2 ^ attempt * Second)
    IN IF doubled > MaxDelay THEN MaxDelay ELSE doubled

\* rand.Int63n(delay / 5) panics unless its argument is positive.
BackoffPanics(attempt) == Delay(attempt) < 5

=============================================================================
