-------------------------------- MODULE Feed --------------------------------
(***************************************************************************)
(* internal/exchange and internal/feed: ten connectors read quotes and     *)
(* send them on channels that never block them; for each the aggregator    *)
(* runs a drain that stores the quote as the latest one and then offers it *)
(* to the processing loop, which may be slow.  Quotes of one exchange are  *)
(* numbered in the order the exchange sent them.                           *)
(*                                                                         *)
(* A panic in any goroutine ends the process.                              *)
(***************************************************************************)
EXTENDS Connectors, FiniteSetsExt, SequencesExt

CONSTANTS
    ChCap,        \* capacity of a connector's channels (512, and 256 for books)
    OutCap,       \* capacity of Aggregator.out (512)
    MaxQuotes,    \* bound: quotes of one exchange
    MaxFrames,    \* bound: quotes of all exchanges
    MaxAttempts,  \* bound: reconnections of one exchange
    Together,     \* bound: the sets of exchanges whose goroutines run in one behaviour
    Nothing

ASSUME FeedConstants ==
    /\ ChCap \in Nat \ {0} /\ OutCap \in Nat \ {0}
    /\ MaxQuotes \in Nat /\ MaxFrames \in Nat /\ MaxAttempts \in Nat
    /\ Together \subseteq SUBSET Exchanges

VARIABLES
    \* a connector
    stage,     \* Idle, Waiting, or the next step of its set-up; beyond the last: reading
    attempt,   \* the loop variable of runWithReconnect
    writing,   \* the goroutines inside a write on the current connection
    sent,      \* number of quotes the exchange has sent
    ch,        \* PriceUpdates on their way to the aggregator
    bookCh,    \* BookUpdates on their way to the aggregator
    \* the aggregator
    prices,    \* latest price of each exchange, 0 for none
    books,     \* latest book of each exchange
    holding,   \* the update a drain has stored and not yet offered
    out,       \* updates offered to the loop
    \* the processing loop
    received,  \* the last update taken, of each exchange
    panicked   \* what ended the process

connectors == <<stage, attempt, writing, sent>>
aggregator == <<prices, books, holding, out>>
vars == <<connectors, ch, bookCh, aggregator, received, panicked>>

Idle == -1
Waiting == 0
Reading(e) == stage[e] = Len(Protocol[e].setup) + 1

Init ==
    /\ stage = [e \in Exchanges |-> Idle]
    /\ attempt = [e \in Exchanges |-> 0]
    /\ writing = [e \in Exchanges |-> {}]
    /\ sent = [e \in Exchanges |-> 0]
    /\ ch = [e \in Exchanges |-> <<>>]
    /\ bookCh = [e \in Exchanges |-> <<>>]
    /\ prices = [e \in Exchanges |-> 0]
    /\ books = [e \in Exchanges |-> 0]
    /\ holding = [e \in Exchanges |-> 0]
    /\ out = <<>>
    /\ received = [e \in Exchanges |-> 0]
    /\ panicked = Nothing

-----------------------------------------------------------------------------
(* runWithReconnect and run. *)

Started == {e \in Exchanges : stage[e] # Idle}

Connect(e) ==
    /\ stage[e] = Idle
    /\ \E group \in Together : Started \cup {e} \subseteq group
    /\ stage' = [stage EXCEPT ![e] = 1]
    /\ UNCHANGED <<attempt, writing, sent, ch, bookCh, aggregator, received, panicked>>

SetUp(e) ==
    /\ stage[e] >= 1 /\ ~Reading(e)
    /\ stage' = [stage EXCEPT ![e] = stage[e] + 1]
    /\ UNCHANGED <<attempt, writing, sent, ch, bookCh, aggregator, received, panicked>>

\* A step of the set-up or a read fails.  Pings of the goroutine run leaves
\* behind go to a closed connection from now on.
Disconnect(e) ==
    /\ stage[e] >= 1
    /\ "reader" \notin writing[e]
    /\ stage' = [stage EXCEPT ![e] = Waiting]
    /\ writing' = [writing EXCEPT ![e] = {}]
    /\ panicked' = IF BackoffPanics(attempt[e]) THEN [cause |-> "backoff", exchange |-> e]
                   ELSE Nothing
    /\ UNCHANGED <<attempt, sent, ch, bookCh, aggregator, received>>

\* The back-off is over.  attempt counts every disconnection there ever was.
Reconnect(e) ==
    /\ stage[e] = Waiting
    /\ attempt[e] < MaxAttempts
    /\ attempt' = [attempt EXCEPT ![e] = attempt[e] + 1]
    /\ stage' = [stage EXCEPT ![e] = 1]
    /\ UNCHANGED <<writing, sent, ch, bookCh, aggregator, received, panicked>>

\* A send with a default branch.
OfferedAnyway(queue, x, capacity) == Append(queue, x)
Offered(queue, x, capacity) == IF Len(queue) < capacity THEN Append(queue, x) ELSE queue

\* One frame with quotes, sent to the channels it feeds.
ReadFrame(e) ==
    /\ Reading(e) /\ "reader" \notin writing[e]
    /\ sent[e] < MaxQuotes
    /\ MapThenSumSet(LAMBDA f : sent[f], Exchanges) < MaxFrames
    /\ sent' = [sent EXCEPT ![e] = sent[e] + 1]
    /\ \E fed \in Protocol[e].emits :
         /\ ch' = IF "price" \in fed
                  THEN [ch EXCEPT ![e] = Offered(ch[e], sent[e] + 1, ChCap)] ELSE ch
         /\ bookCh' = IF "book" \in fed
                      THEN [bookCh EXCEPT ![e] = Offered(bookCh[e], sent[e] + 1, ChCap)]
                      ELSE bookCh
    /\ UNCHANGED <<stage, attempt, writing, aggregator, received, panicked>>

\* The ticker of the ping goroutine fires, or the read loop got a keep-alive.
WriteDue(e, who) ==
    /\ Reading(e)
    /\ \/ who = "pinger" /\ Protocol[e].pings
       \/ who = "reader" /\ Protocol[e].answers
    /\ who \notin writing[e]

BeginWrite(e, who) ==
    /\ WriteDue(e, who)
    /\ writing[e] = {}
    /\ writing' = [writing EXCEPT ![e] = {who}]
    /\ UNCHANGED <<stage, attempt, sent, ch, bookCh, aggregator, received, panicked>>

\* The connection allows one writer at a time and panics at the second.
Clash(e, who) ==
    /\ WriteDue(e, who)
    /\ writing[e] # {}
    /\ panicked' = [cause |-> "write", exchange |-> e]
    /\ UNCHANGED <<connectors, ch, bookCh, aggregator, received>>

EndWrite(e, who) ==
    /\ who \in writing[e]
    /\ writing' = [writing EXCEPT ![e] = writing[e] \ {who}]
    /\ UNCHANGED <<stage, attempt, sent, ch, bookCh, aggregator, received, panicked>>

-----------------------------------------------------------------------------
(* Aggregator.drain, in two steps, and drainBook. *)

DrainStoreFirstOnly(e) ==
    /\ ch[e] # <<>> /\ holding[e] = 0
    /\ prices' = IF prices[e] = 0 THEN [prices EXCEPT ![e] = Head(ch[e])] ELSE prices
    /\ holding' = [holding EXCEPT ![e] = Head(ch[e])]
    /\ ch' = [ch EXCEPT ![e] = Tail(ch[e])]
    /\ UNCHANGED <<connectors, bookCh, books, out, received, panicked>>

DrainStoreNewestFirst(e) ==
    /\ ch[e] # <<>> /\ holding[e] = 0
    /\ prices' = [prices EXCEPT ![e] = Last(ch[e])]
    /\ holding' = [holding EXCEPT ![e] = Last(ch[e])]
    /\ ch' = [ch EXCEPT ![e] = Front(ch[e])]
    /\ UNCHANGED <<connectors, bookCh, books, out, received, panicked>>

DrainStore(e) ==
    /\ ch[e] # <<>> /\ holding[e] = 0
    /\ prices' = [prices EXCEPT ![e] = Head(ch[e])]
    /\ holding' = [holding EXCEPT ![e] = Head(ch[e])]
    /\ ch' = [ch EXCEPT ![e] = Tail(ch[e])]
    /\ UNCHANGED <<connectors, bookCh, books, out, received, panicked>>

DrainOfferBlocking(e) ==
    /\ holding[e] # 0
    /\ Len(out) < OutCap
    /\ out' = Append(out, [exchange |-> e, quote |-> holding[e]])
    /\ holding' = [holding EXCEPT ![e] = 0]
    /\ UNCHANGED <<connectors, ch, bookCh, prices, books, received, panicked>>

DrainOffer(e) ==
    /\ holding[e] # 0
    /\ out' = Offered(out, [exchange |-> e, quote |-> holding[e]], OutCap)
    /\ holding' = [holding EXCEPT ![e] = 0]
    /\ UNCHANGED <<connectors, ch, bookCh, prices, books, received, panicked>>

DrainBook(e) ==
    /\ bookCh[e] # <<>>
    /\ books' = [books EXCEPT ![e] = Head(bookCh[e])]
    /\ bookCh' = [bookCh EXCEPT ![e] = Tail(bookCh[e])]
    /\ UNCHANGED <<connectors, ch, prices, holding, out, received, panicked>>

\* The loop's branch "case update := <-agg.Updates()".
TakeUpdate ==
    /\ out # <<>>
    /\ received' = [received EXCEPT ![Head(out).exchange] = Head(out).quote]
    /\ out' = Tail(out)
    /\ UNCHANGED <<connectors, ch, bookCh, prices, books, holding, panicked>>

-----------------------------------------------------------------------------
Connector(e) ==
    \/ Connect(e)
    \/ SetUp(e)
    \/ Disconnect(e)
    \/ Reconnect(e)
    \/ ReadFrame(e)
    \/ \E who \in {"pinger", "reader"} : BeginWrite(e, who) \/ Clash(e, who) \/ EndWrite(e, who)

Drain(e) == DrainStore(e) \/ DrainOffer(e)

Next ==
    /\ panicked = Nothing
    /\ \/ \E e \in Exchanges : Connector(e) \/ Drain(e) \/ DrainBook(e)
       \/ TakeUpdate

\* Drains are scheduled; nothing is assumed of the loop, which may hang in the
\* database, nor of the exchanges.
Fairness ==
    \A e \in Exchanges :
        /\ WF_vars(panicked = Nothing /\ Drain(e))
        /\ WF_vars(panicked = Nothing /\ DrainBook(e))

Spec == Init /\ [][Next]_vars
FairSpec == Spec /\ Fairness

-----------------------------------------------------------------------------
Quotes == 1 .. MaxQuotes

TypeOK ==
    /\ \A e \in Exchanges : stage[e] \in Idle .. Len(Protocol[e].setup) + 1
    /\ attempt \in [Exchanges -> 0 .. MaxAttempts]
    /\ writing \in [Exchanges -> SUBSET {"pinger", "reader"}]
    /\ sent \in [Exchanges -> 0 .. MaxQuotes]
    /\ \A e \in Exchanges : ch[e] \in Seq(Quotes) /\ Len(ch[e]) <= ChCap
    /\ \A e \in Exchanges : bookCh[e] \in Seq(Quotes) /\ Len(bookCh[e]) <= ChCap
    /\ prices \in [Exchanges -> 0 .. MaxQuotes]
    /\ books \in [Exchanges -> 0 .. MaxQuotes]
    /\ holding \in [Exchanges -> 0 .. MaxQuotes]
    /\ out \in Seq([exchange : Exchanges, quote : Quotes]) /\ Len(out) <= OutCap
    /\ received \in [Exchanges -> 0 .. MaxQuotes]
    /\ panicked \in {Nothing} \cup [cause : {"backoff", "write"}, exchange : Exchanges]

\* A strategy woken by an update looks at the snapshot of all prices: it never
\* finds there a price older than the update itself, however far the drains
\* have run ahead (aggregator.go:125-132, spatial.go's Detect).
SnapshotCoversUpdate ==
    /\ \A i \in DOMAIN out : out[i].quote <= prices[out[i].exchange]
    /\ \A e \in Exchanges : received[e] <= prices[e]

\* Drops, reconnections and the second channel never let an exchange's quotes
\* arrive out of order: neither the snapshot, nor the books, nor the loop go
\* back to an older one.
NeverOlder ==
    [][\A e \in Exchanges :
        /\ prices'[e] >= prices[e]
        /\ books'[e] >= books[e]
        /\ received'[e] >= received[e]]_vars

\* Only MEXC's and Bitget's read loops answer keep-alives on a connection that
\* a goroutine pings as well; no other connection can see two writers at once
\* (mexc.go:82 and 114, bitget.go:82 and 103).
ClashOnlyAtTwo == panicked # Nothing /\ panicked.cause = "write"
                    => panicked.exchange \in {"mexc", "bitget"}

\* A loop that has stopped taking updates does not keep the prices from moving
\* on: what a connector got into its channel becomes the latest price.
AcceptedIsStored ==
    \A e \in Exchanges, n \in Quotes :
        n \in ToSet(ch[e]) ~> prices[e] >= n \/ panicked # Nothing

\* A reconnection does not disturb the other connectors: "el backoff la maneja
\* sin perder otros connectors" (docs/exchanges.md:130).
BackoffSparesOthers == panicked = Nothing \/ panicked.cause # "backoff"

=============================================================================
