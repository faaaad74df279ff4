--------------------------------- MODULE Hub ---------------------------------
(***************************************************************************)
(* internal/server/ws.go: the hub's goroutine, which owns the set of       *)
(* clients; two pumps per client, which own its connection; and what the   *)
(* processing loop publishes (main.go).  A client is one WebSocket         *)
(* connection: a browser that reconnects is another client.                *)
(*                                                                         *)
(* Prices of an exchange are numbered as they change, trades as they are   *)
(* made.  view is what the browser shows of both.                          *)
(***************************************************************************)
EXTENDS Integers, Sequences, FiniteSets, SequencesExt

CONSTANTS
    Clients,     \* the connections ever made
    Exchanges,
    PublishCap,  \* capacity of Hub.publish (512)
    RegisterCap, \* capacity of Hub.register and of Hub.unregister (64)
    SendCap,     \* clientSendBuffer (256)
    MaxPrices,   \* bound: price changes of one exchange
    MaxChanges,  \* bound: price changes of all exchanges
    MaxTrades,   \* bound: trades in all
    Nothing

ASSUME HubConstants ==
    /\ PublishCap \in Nat \ {0} /\ RegisterCap \in Nat \ {0} /\ SendCap \in Nat \ {0}
    /\ MaxPrices \in Nat /\ MaxChanges \in Nat /\ MaxTrades \in Nat

VARIABLES
    publish,     \* chan Event
    register,    \* chan *client
    unregister,  \* chan *client
    clients,     \* Hub.clients
    pending,     \* the throttled event held back, as in Run
    send,        \* client.send
    closed,      \* the clients whose send has been closed
    reader,      \* readPump: "new", "reading", "gone"
    writer,      \* writePump: "new", "writing", "gone"
    online,      \* whether the connection is up
    latest,      \* latest price of each exchange, as the aggregator has it
    made,        \* number of trades made
    aired,       \* trades whose event the hub has broadcast
    joined,      \* number of trades aired when the client was registered
    view         \* what the client's browser has received

channels == <<publish, register, unregister>>
pumps == <<reader, writer, online>>
run == <<clients, pending, closed, aired, joined>>
market == <<latest, made>>
vars == <<channels, run, send, pumps, market, view>>

\* The types that are held back and coalesced.  spread_stats, latency_stats and
\* uptime_stats are too, each by itself: leaving them out loses no behaviour of
\* the others.
ThrottledEventTypes == {"price_update"}
Prices == [Exchanges -> 0 .. MaxPrices]
Event ==
    [type : {"price_update"}, exchange : Exchanges, price : 1 .. MaxPrices]
      \cup [type : {"price_snapshot"}, prices : Prices]
      \cup [type : {"trade_executed"}, trade : 1 .. MaxTrades]

Init ==
    /\ publish = <<>> /\ register = <<>> /\ unregister = <<>>
    /\ clients = {}
    /\ pending = Nothing
    /\ send = [c \in Clients |-> <<>>]
    /\ closed = {}
    /\ reader = [c \in Clients |-> "new"]
    /\ writer = [c \in Clients |-> "new"]
    /\ online = [c \in Clients |-> FALSE]
    /\ latest = [e \in Exchanges |-> 0]
    /\ made = 0
    /\ aired = <<>>
    /\ joined = [c \in Clients |-> 0]
    /\ view = [c \in Clients |-> [prices |-> [e \in Exchanges |-> 0], trades |-> <<>>]]

-----------------------------------------------------------------------------
(* What the processing loop publishes.  Publish drops the event if the     *)
(* hub is behind.                                                          *)

PublishedAnyway(queue, ev) == Append(queue, ev)
Published(queue, ev) == IF Len(queue) < PublishCap THEN Append(queue, ev) ELSE queue

PublishUpdate(e) ==
    /\ latest[e] < MaxPrices
    /\ FoldFunction(+, 0, latest) < MaxChanges
    /\ latest' = [latest EXCEPT ![e] = @ + 1]
    /\ publish' = Published(publish,
                     [type |-> "price_update", exchange |-> e, price |-> latest[e] + 1])
    /\ UNCHANGED <<register, unregister, run, send, pumps, made, view>>

PublishTradeExecuted ==
    /\ made < MaxTrades
    /\ made' = made + 1
    /\ publish' = Published(publish, [type |-> "trade_executed", trade |-> made + 1])
    /\ UNCHANGED <<register, unregister, run, send, pumps, latest, view>>

\* Every five seconds: all prices in one event that is not throttled.
PublishPriceSnapshot ==
    /\ \E e \in Exchanges : latest[e] # 0
    /\ publish' = Published(publish, [type |-> "price_snapshot", prices |-> latest])
    /\ UNCHANGED <<register, unregister, run, send, pumps, market, view>>

-----------------------------------------------------------------------------
(* Run: the branches of its select.                                        *)

Register ==
    /\ register # <<>>
    /\ clients' = clients \cup {Head(register)}
    /\ joined' = [joined EXCEPT ![Head(register)] = Len(aired)]
    /\ register' = Tail(register)
    /\ UNCHANGED <<publish, unregister, pending, closed, aired, send, pumps, market, view>>

Unregister ==
    /\ unregister # <<>>
    /\ LET c == Head(unregister) IN
         /\ clients' = clients \ {c}
         /\ closed' = IF c \in clients THEN closed \cup {c} ELSE closed
    /\ unregister' = Tail(unregister)
    /\ UNCHANGED <<publish, register, pending, aired, joined, send, pumps, market, view>>

\* broadcast: clients with a full buffer are dropped, the others get ev.
Full(c) == Len(send[c]) >= SendCap

BroadcastKeepsSlow(ev) ==
    /\ send' = [c \in Clients |-> IF c \in clients /\ ~Full(c) THEN Append(send[c], ev)
                                  ELSE send[c]]
    /\ closed' = closed \cup {c \in clients : Full(c)}
    /\ UNCHANGED clients

BroadcastSkipsSlow(ev) ==
    /\ send' = [c \in Clients |-> IF c \in clients /\ ~Full(c) THEN Append(send[c], ev)
                                  ELSE send[c]]
    /\ UNCHANGED <<clients, closed>>

Broadcast(ev) ==
    /\ send' = [c \in Clients |-> IF c \in clients /\ ~Full(c) THEN Append(send[c], ev)
                                  ELSE send[c]]
    /\ clients' = {c \in clients : ~Full(c)}
    /\ closed' = closed \cup {c \in clients : Full(c)}

HoldBack ==
    /\ publish # <<>>
    /\ Head(publish).type \in ThrottledEventTypes
    /\ pending' = Head(publish)
    /\ publish' = Tail(publish)
    /\ UNCHANGED <<register, unregister, clients, closed, aired, joined, send, pumps,
                   market, view>>

Deliver ==
    /\ publish # <<>>
    /\ Head(publish).type \notin ThrottledEventTypes
    /\ Broadcast(Head(publish))
    /\ aired' = IF Head(publish).type = "trade_executed"
                THEN Append(aired, Head(publish).trade) ELSE aired
    /\ publish' = Tail(publish)
    /\ UNCHANGED <<register, unregister, pending, joined, pumps, market, view>>

\* The ticker.
Flush ==
    /\ pending # Nothing
    /\ Broadcast(pending)
    /\ pending' = Nothing
    /\ UNCHANGED <<channels, aired, joined, pumps, market, view>>

-----------------------------------------------------------------------------
(* A client's pumps and its connection. *)

\* The send on register blocks while the channel is full.
ServeWS(c) ==
    /\ reader[c] = "new"
    /\ Len(register) < RegisterCap
    /\ register' = Append(register, c)
    /\ reader' = [reader EXCEPT ![c] = "reading"]
    /\ writer' = [writer EXCEPT ![c] = "writing"]
    /\ online' = [online EXCEPT ![c] = TRUE]
    /\ UNCHANGED <<publish, unregister, run, send, market, view>>

\* The browser leaves, or the network fails.
HangUp(c) ==
    /\ online[c]
    /\ online' = [online EXCEPT ![c] = FALSE]
    /\ UNCHANGED <<channels, run, send, reader, writer, market, view>>

ReadFails(c) ==
    /\ reader[c] = "reading" /\ ~online[c]
    /\ Len(unregister) < RegisterCap
    /\ unregister' = Append(unregister, c)
    /\ reader' = [reader EXCEPT ![c] = "gone"]
    /\ UNCHANGED <<publish, register, run, send, writer, online, market, view>>

\* The switch of useMarketSocket.ts, as far as prices and trades go.
ShownWithoutSnapshot(v, ev) ==
    CASE ev.type = "price_update"   -> [v EXCEPT !.prices[ev.exchange] = ev.price]
      [] ev.type = "trade_executed" -> [v EXCEPT !.trades = Append(v.trades, ev.trade)]
      [] OTHER                      -> v

Shown(v, ev) ==
    CASE ev.type = "price_update"   -> [v EXCEPT !.prices[ev.exchange] = ev.price]
      [] ev.type = "price_snapshot" ->
           [v EXCEPT !.prices = [e \in Exchanges |-> IF ev.prices[e] # 0 THEN ev.prices[e]
                                                     ELSE v.prices[e]]]
      [] ev.type = "trade_executed" -> [v EXCEPT !.trades = Append(v.trades, ev.trade)]
      [] OTHER                      -> v

WriteSucceeds(c) ==
    /\ writer[c] = "writing" /\ online[c]
    /\ send[c] # <<>>
    /\ view' = [view EXCEPT ![c] = Shown(view[c], Head(send[c]))]
    /\ send' = [send EXCEPT ![c] = Tail(send[c])]
    /\ UNCHANGED <<channels, run, pumps, market>>

\* The write fails, or the range over send ends because it is closed and
\* empty: the pump closes the connection, which the reader will notice.
WriterLeaves(c) ==
    /\ writer[c] = "writing"
    /\ \/ send[c] # <<>> /\ ~online[c]
       \/ send[c] = <<>> /\ c \in closed
    /\ send' = [send EXCEPT ![c] = IF send[c] = <<>> THEN <<>> ELSE Tail(send[c])]
    /\ writer' = [writer EXCEPT ![c] = "gone"]
    /\ online' = [online EXCEPT ![c] = FALSE]
    /\ UNCHANGED <<channels, run, reader, market, view>>

-----------------------------------------------------------------------------
Loop ==
    \/ \E e \in Exchanges : PublishUpdate(e)
    \/ PublishTradeExecuted
    \/ PublishPriceSnapshot

Run == Register \/ Unregister \/ HoldBack \/ Deliver \/ Flush

Pumps(c) == ReadFails(c) \/ WriteSucceeds(c) \/ WriterLeaves(c)

Next ==
    \/ Loop
    \/ Run
    \/ \E c \in Clients : ServeWS(c) \/ HangUp(c) \/ Pumps(c)

\* The loop's snapshot ticker and the pumps are scheduled; select picks at
\* random among the branches that are ready, so none is passed over for ever.
\* Nothing is assumed of the market, the browsers and the network.
Fairness ==
    /\ WF_vars(PublishPriceSnapshot)
    /\ WF_vars(Register) /\ WF_vars(Unregister)
    /\ WF_vars(HoldBack) /\ WF_vars(Deliver) /\ WF_vars(Flush)
    /\ \A c \in Clients : WF_vars(Pumps(c))

Spec == Init /\ [][Next]_vars
FairSpec == Spec /\ Fairness

-----------------------------------------------------------------------------
TypeOK ==
    /\ publish \in Seq(Event) /\ Len(publish) <= PublishCap
    /\ register \in Seq(Clients) /\ Len(register) <= RegisterCap
    /\ unregister \in Seq(Clients) /\ Len(unregister) <= RegisterCap
    /\ clients \subseteq Clients /\ closed \subseteq Clients
    /\ pending \in Event \cup {Nothing}
    /\ \A c \in Clients : send[c] \in Seq(Event) /\ Len(send[c]) <= SendCap
    /\ reader \in [Clients -> {"new", "reading", "gone"}]
    /\ writer \in [Clients -> {"new", "writing", "gone"}]
    /\ online \in [Clients -> BOOLEAN]
    /\ latest \in Prices /\ made \in 0 .. MaxTrades
    /\ aired \in Seq(1 .. MaxTrades)
    /\ joined \in [Clients -> Nat]
    /\ \A c \in Clients : view[c].prices \in Prices /\ view[c].trades \in Seq(1 .. MaxTrades)

\* The hub sends on and closes only the channels of clients in its set; none
\* of those has been closed before, whichever of the slow-client drop and the
\* unregistration came first, and even if the unregistration overtakes the
\* registration (ws.go:88-95, 127-134).  A violation is a panic.
NeverClosedTwice == clients \cap closed = {}

\* The places up to the i-th where a trade waits in a queue of events.
TradesTo(queue, i) == {j \in DOMAIN queue : queue[j].type = "trade_executed" /\ j <= i}

\* shown, and after it the trades in queue, are all but the first n trades of
\* all, in order: the k-th trade waiting is the k-th that is not shown.
Continue(shown, queue, all, n) ==
    LET last == n + Len(shown) IN
    /\ \A k \in DOMAIN shown : shown[k] = all[n + k]
    /\ \A i \in TradesTo(queue, Len(queue)) :
         queue[i].trade = all[last + Cardinality(TradesTo(queue, i))]
    /\ last + Cardinality(TradesTo(queue, Len(queue))) = Len(all)

\* A connected client misses no trade: what its browser shows and what is on
\* its way are the trades aired since it was registered, in order.  The hub
\* drops clients, never single events (ws.go:127-134).
TradesComplete ==
    \A c \in clients : online[c] /\ writer[c] = "writing" =>
        Continue(view[c].trades, send[c], aired, joined[c])

\* Clients that are gone leave the hub's set: by their unregistration or, if
\* that came before the registration, when their buffer has filled up (which
\* takes a market: without any price nothing is broadcast).
GoneClientsLeave ==
    \A c \in Clients :
        reader[c] = "gone" /\ (\E e \in Exchanges : latest[e] # 0) ~> c \notin clients

\* Coalescing shows a browser only the last exchange's price, and may show an
\* old price after a newer snapshot; but a browser that stays connected ends
\* up with the latest price of every exchange.
PricesConverge ==
    \A c \in Clients :
        <>[](c \in clients /\ online[c]) => <>[](view[c].prices = latest)

=============================================================================
