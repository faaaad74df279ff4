------------------------------- MODULE HubProofs -------------------------------
(***************************************************************************)
(* For any number of clients and any capacities: the hub never touches a   *)
(* channel it has closed.                                                  *)
(***************************************************************************)
EXTENDS Hub, TLAPS, FiniteSetTheorems, FunctionTheorems

\* NeverClosedTwice alone is not inductive: a client in the register queue
\* could be one the hub has already closed.  It is not, because ServeWS sends
\* each client once, and only Register moves it on.
RegisteredOnce ==
    /\ \A i \in DOMAIN register :
         /\ register[i] \in Clients
         /\ reader[register[i]] # "new"
         /\ register[i] \notin clients \cup closed
    /\ \A i, j \in DOMAIN register : i # j => register[i] # register[j]

HubInv ==
    /\ register \in Seq(Clients)
    /\ DOMAIN reader = Clients
    /\ \A c \in clients \cup closed : reader[c] # "new"
    /\ RegisteredOnce
    /\ NeverClosedTwice

LEMMA InitHub == Init => HubInv
  BY DEF Init, HubInv, RegisteredOnce, NeverClosedTwice

\* The hub closes only what it takes out of its set.
LEMMA BroadcastHub ==
  ASSUME HubInv, NEW ev, Broadcast(ev), UNCHANGED <<register, reader>>
  PROVE  HubInv'
  BY DEF HubInv, RegisteredOnce, NeverClosedTwice, Broadcast

LEMMA RegisterHub ==
  ASSUME HubInv, Register
  PROVE  HubInv'
<1> DEFINE c == Head(register)
<1>1. /\ register # <<>> /\ clients' = clients \cup {c}
      /\ register' = Tail(register) /\ closed' = closed /\ reader' = reader
  BY DEF Register, pumps
<1>2. /\ c = register[1] /\ 1 \in DOMAIN register
      /\ register' \in Seq(Clients)
      /\ \A i \in DOMAIN register' : /\ i + 1 \in DOMAIN register /\ i + 1 # 1
                                     /\ register'[i] = register[i + 1]
      /\ \A i, j \in DOMAIN register' : i # j => i + 1 # j + 1
  BY <1>1 DEF HubInv
<1>3. c \in Clients /\ reader[c] # "new" /\ c \notin clients \cup closed
  BY <1>2 DEF HubInv, RegisteredOnce
<1>4. RegisteredOnce'
  BY <1>1, <1>2 DEF HubInv, RegisteredOnce
<1>5. NeverClosedTwice'
  BY <1>1, <1>3 DEF HubInv, NeverClosedTwice
<1> QED  BY <1>1, <1>2, <1>3, <1>4, <1>5 DEF HubInv

LEMMA ServeWSHub ==
  ASSUME HubInv, NEW c \in Clients, ServeWS(c)
  PROVE  HubInv'
<1>1. /\ reader[c] = "new" /\ register' = Append(register, c)
      /\ reader' = [reader EXCEPT ![c] = "reading"]
      /\ clients' = clients /\ closed' = closed
  BY DEF ServeWS, run
<1>2. /\ c \notin clients \cup closed
      /\ \A i \in DOMAIN register : register[i] # c
  BY <1>1 DEF HubInv, RegisteredOnce
<1>3. /\ register' \in Seq(Clients)
      /\ \A i \in DOMAIN register' :
           \/ i \in DOMAIN register /\ register'[i] = register[i]
           \/ i = Len(register) + 1 /\ i \notin DOMAIN register /\ register'[i] = c
  BY <1>1 DEF HubInv
<1>4. RegisteredOnce'
  BY <1>1, <1>2, <1>3 DEF HubInv, RegisteredOnce
<1> QED  BY <1>1, <1>2, <1>3, <1>4 DEF HubInv, NeverClosedTwice

LEMMA NextHub == HubInv /\ [Next]_vars => HubInv'
<1> SUFFICES ASSUME HubInv, [Next]_vars PROVE HubInv'
  OBVIOUS
<1>1. CASE UNCHANGED <<register, reader, clients, closed>>
  BY <1>1 DEF HubInv, RegisteredOnce, NeverClosedTwice
<1>2. CASE Loop
  BY <1>1, <1>2 DEF Loop, PublishUpdate, PublishTradeExecuted, PublishPriceSnapshot, run, pumps
<1>3. CASE Register
  BY <1>3, RegisterHub
<1>4. CASE Unregister
  BY <1>4 DEF Unregister, pumps, HubInv, RegisteredOnce, NeverClosedTwice
<1>5. CASE HoldBack
  BY <1>1, <1>5 DEF HoldBack, pumps
<1>6. CASE Deliver
  BY <1>6, BroadcastHub DEF Deliver, pumps
<1>7. CASE Flush
  BY <1>7, BroadcastHub DEF Flush, channels, pumps
<1>8. ASSUME NEW c \in Clients, ServeWS(c) PROVE HubInv'
  BY <1>8, ServeWSHub
<1>9. ASSUME NEW c \in Clients, HangUp(c) \/ WriteSucceeds(c) \/ WriterLeaves(c)
      PROVE  HubInv'
  BY <1>1, <1>9 DEF HangUp, WriteSucceeds, WriterLeaves, channels, run, pumps
<1>10. ASSUME NEW c \in Clients, ReadFails(c) PROVE HubInv'
  BY <1>10 DEF ReadFails, run, HubInv, RegisteredOnce, NeverClosedTwice
<1>11. CASE UNCHANGED vars
  BY <1>1, <1>11 DEF vars, channels, run, pumps
<1> QED  BY <1>2, <1>3, <1>4, <1>5, <1>6, <1>7, <1>8, <1>9, <1>10, <1>11 DEF Next, Run, Pumps

\* No client in the hub's set has a closed channel, so that neither a send nor
\* a close of the hub panics (ws.go:91-95, 127-134), for any number of clients.
THEOREM HubNeverClosesTwice == Spec => []NeverClosedTwice
<1>1. HubInv => NeverClosedTwice  BY DEF HubInv
<1> QED  BY <1>1, InitHub, NextHub, PTL DEF Spec
-----------------------------------------------------------------------------
(* Types. *)

Views == [prices : Prices, trades : Seq(1 .. MaxTrades)]

\* TypeOK, with what makes it inductive: send and view are functions of the
\* clients, and only throttled events are ever held back.
HubTypes ==
    /\ TypeOK
    /\ send \in [Clients -> Seq(Event)]
    /\ view \in [Clients -> Views]
    /\ pending # Nothing => pending.type = "price_update"

\* An event as what a queue of events may be extended with.
LEMMA AppendEvent ==
  ASSUME NEW q \in Seq(Event), NEW ev \in Event
  PROVE  Append(q, ev) \in Seq(Event) /\ Len(Append(q, ev)) = Len(q) + 1
  OBVIOUS

LEMMA HeadAndTail ==
  ASSUME NEW S, NEW q \in Seq(S), q # <<>>
  PROVE  /\ Head(q) \in S /\ Tail(q) \in Seq(S)
         /\ Len(q) \in Nat /\ Len(Tail(q)) = Len(q) - 1
  OBVIOUS

LEMMA PublishedTypes ==
  ASSUME HubTypes, NEW ev \in Event, publish' = Published(publish, ev)
  PROVE  publish' \in Seq(Event) /\ Len(publish') <= PublishCap
  BY HubConstants, AppendEvent DEF HubTypes, TypeOK, Published

LEMMA LoopTypes ==
  ASSUME HubTypes, Loop
  PROVE  HubTypes'
<1>1. ASSUME NEW e \in Exchanges, PublishUpdate(e) PROVE HubTypes'
  <2> DEFINE ev == [type |-> "price_update", exchange |-> e, price |-> latest[e] + 1]
  <2>1. latest[e] \in 0 .. MaxPrices /\ latest[e] < MaxPrices
    BY <1>1 DEF PublishUpdate, HubTypes, TypeOK, Prices
  <2>2. latest[e] + 1 \in 1 .. MaxPrices /\ latest[e] + 1 \in 0 .. MaxPrices
    BY <2>1, HubConstants
  <2>3. ev \in Event
    BY <2>2 DEF Event
  <2>4. publish' \in Seq(Event) /\ Len(publish') <= PublishCap
    BY <1>1, <2>3, PublishedTypes DEF PublishUpdate
  <2>5. latest' \in Prices
    <3>1. latest' = [latest EXCEPT ![e] = latest[e] + 1] /\ latest \in [Exchanges -> 0 .. MaxPrices]
      BY <1>1 DEF PublishUpdate, HubTypes, TypeOK, Prices
    <3> QED  BY <2>2, <3>1 DEF Prices
  <2> QED  BY <1>1, <2>4, <2>5 DEF PublishUpdate, run, pumps, HubTypes, TypeOK
<1>2. CASE PublishTradeExecuted
  <2> DEFINE ev == [type |-> "trade_executed", trade |-> made + 1]
  <2>1. made + 1 \in 1 .. MaxTrades
    BY <1>2, HubConstants DEF PublishTradeExecuted, HubTypes, TypeOK
  <2>2. ev \in Event
    BY <2>1 DEF Event
  <2>3. publish' \in Seq(Event) /\ Len(publish') <= PublishCap
    BY <1>2, <2>2, PublishedTypes DEF PublishTradeExecuted
  <2> QED  BY <1>2, <2>1, <2>3 DEF PublishTradeExecuted, run, pumps, HubTypes, TypeOK
<1>3. CASE PublishPriceSnapshot
  <2>1. [type |-> "price_snapshot", prices |-> latest] \in Event
    BY DEF Event, HubTypes, TypeOK
  <2>2. publish' \in Seq(Event) /\ Len(publish') <= PublishCap
    BY <1>3, <2>1, PublishedTypes DEF PublishPriceSnapshot
  <2> QED  BY <1>3, <2>2 DEF PublishPriceSnapshot, run, pumps, market, HubTypes, TypeOK
<1> QED  BY <1>1, <1>2, <1>3 DEF Loop

\* What is broadcast is appended to buffers with room.
LEMMA BroadcastTypes ==
  ASSUME HubTypes, NEW ev \in Event, Broadcast(ev)
  PROVE  /\ send' \in [Clients -> Seq(Event)]
         /\ \A c \in Clients : Len(send'[c]) <= SendCap
         /\ clients' \subseteq Clients /\ closed' \subseteq Clients
<1>1. /\ send' = [c \in Clients |-> IF c \in clients /\ ~Full(c) THEN Append(send[c], ev)
                                    ELSE send[c]]
      /\ clients' = {c \in clients : ~Full(c)}
      /\ closed' = closed \cup {c \in clients : Full(c)}
  BY DEF Broadcast
<1>2. ASSUME NEW c \in Clients
      PROVE  send'[c] \in Seq(Event) /\ Len(send'[c]) <= SendCap
  BY <1>1, AppendEvent, HubConstants DEF HubTypes, TypeOK, Full
<1> QED  BY <1>1, <1>2 DEF HubTypes, TypeOK

LEMMA DeliverTypes ==
  ASSUME HubTypes, Deliver
  PROVE  HubTypes'
<1> DEFINE ev == Head(publish)
<1>1. ev \in Event /\ publish' \in Seq(Event) /\ Len(publish') <= PublishCap
  <2>1. publish \in Seq(Event) /\ publish # <<>> /\ Len(publish) <= PublishCap
        /\ publish' = Tail(publish)
    BY DEF Deliver, HubTypes, TypeOK
  <2>2. /\ Head(publish) \in Event /\ Tail(publish) \in Seq(Event)
        /\ Len(publish) \in Nat /\ Len(Tail(publish)) = Len(publish) - 1
    BY <2>1, HeadAndTail
  <2> QED  BY <2>1, <2>2, HubConstants
<1>2. /\ send' \in [Clients -> Seq(Event)]
      /\ \A c \in Clients : Len(send'[c]) <= SendCap
      /\ clients' \subseteq Clients /\ closed' \subseteq Clients
  BY <1>1, BroadcastTypes DEF Deliver
<1>3. aired' \in Seq(1 .. MaxTrades)
  <2>1. ev.type = "trade_executed" => ev.trade \in 1 .. MaxTrades
    BY <1>1 DEF Event
  <2>2. aired \in Seq(1 .. MaxTrades)
    BY DEF HubTypes, TypeOK
  <2>3. aired' = IF ev.type = "trade_executed" THEN Append(aired, ev.trade) ELSE aired
    BY DEF Deliver
  <2>4. CASE ev.type = "trade_executed"
    <3>1. aired' = Append(aired, ev.trade) /\ ev.trade \in 1 .. MaxTrades
      BY <2>1, <2>3, <2>4
    <3> HIDE DEF ev
    <3> QED  BY <2>2, <3>1
  <2>5. CASE ev.type # "trade_executed"
    BY <2>2, <2>3, <2>5
  <2> QED  BY <2>4, <2>5
<1> QED  BY <1>1, <1>2, <1>3 DEF Deliver, pumps, market, HubTypes, TypeOK

LEMMA RunTypes ==
  ASSUME HubTypes, Run
  PROVE  HubTypes'
<1>1. CASE Register
  <2>1. Head(register) \in Clients /\ register' \in Seq(Clients) /\ Len(register') <= RegisterCap
    BY <1>1, HeadAndTail, HubConstants DEF Register, HubTypes, TypeOK
  <2>2. clients' \subseteq Clients /\ joined' \in [Clients -> Nat]
    BY <1>1, <2>1 DEF Register, HubTypes, TypeOK
  <2> QED  BY <1>1, <2>1, <2>2 DEF Register, pumps, market, HubTypes, TypeOK
<1>2. CASE Unregister
  <2>1. Head(unregister) \in Clients /\ unregister' \in Seq(Clients)
        /\ Len(unregister') <= RegisterCap
    BY <1>2, HeadAndTail, HubConstants DEF Unregister, HubTypes, TypeOK
  <2>2. clients' \subseteq Clients /\ closed' \subseteq Clients
    BY <1>2, <2>1 DEF Unregister, HubTypes, TypeOK
  <2> QED  BY <1>2, <2>1, <2>2 DEF Unregister, pumps, market, HubTypes, TypeOK
<1>3. CASE HoldBack
  <2>1. Head(publish) \in Event /\ publish' \in Seq(Event) /\ Len(publish') <= PublishCap
    <3>1. publish \in Seq(Event) /\ publish # <<>> /\ Len(publish) <= PublishCap
          /\ publish' = Tail(publish)
      BY <1>3 DEF HoldBack, HubTypes, TypeOK
    <3>2. /\ Head(publish) \in Event /\ Tail(publish) \in Seq(Event)
          /\ Len(publish) \in Nat /\ Len(Tail(publish)) = Len(publish) - 1
      BY <3>1, HeadAndTail
    <3> QED  BY <3>1, <3>2, HubConstants
  <2> QED  BY <1>3, <2>1 DEF HoldBack, ThrottledEventTypes, pumps, market, HubTypes, TypeOK
<1>4. CASE Deliver
  BY <1>4, DeliverTypes
<1>5. CASE Flush
  <2>1. pending \in Event
    BY <1>5 DEF Flush, HubTypes, TypeOK
  <2>2. /\ send' \in [Clients -> Seq(Event)]
        /\ \A c \in Clients : Len(send'[c]) <= SendCap
        /\ clients' \subseteq Clients /\ closed' \subseteq Clients
    BY <1>5, <2>1, BroadcastTypes DEF Flush
  <2> QED  BY <1>5, <2>2 DEF Flush, channels, pumps, market, HubTypes, TypeOK
<1> QED  BY <1>1, <1>2, <1>3, <1>4, <1>5 DEF Run

\* What a browser makes of an event.
LEMMA ShownTypes ==
  ASSUME NEW v \in Views, NEW ev \in Event
  PROVE  /\ Shown(v, ev) \in Views
         /\ Shown(v, ev).trades = IF ev.type = "trade_executed" THEN Append(v.trades, ev.trade)
                                  ELSE v.trades
<1>1. CASE ev.type = "price_update"
  <2>1. ev.exchange \in Exchanges /\ ev.price \in 0 .. MaxPrices
    BY <1>1, HubConstants DEF Event
  <2>2. Shown(v, ev) = [v EXCEPT !.prices[ev.exchange] = ev.price]
    BY <1>1 DEF Shown
  <2> QED  BY <1>1, <2>1, <2>2 DEF Views, Prices
<1>2. CASE ev.type = "price_snapshot"
  <2>1. ev.prices \in Prices
    BY <1>2 DEF Event
  <2>2. Shown(v, ev) = [v EXCEPT !.prices = [e \in Exchanges |-> IF ev.prices[e] # 0
                                                THEN ev.prices[e] ELSE v.prices[e]]]
    BY <1>2 DEF Shown
  <2>3. [e \in Exchanges |-> IF ev.prices[e] # 0 THEN ev.prices[e] ELSE v.prices[e]] \in Prices
    BY <2>1 DEF Views, Prices
  <2> QED  BY <1>2, <2>2, <2>3 DEF Views
<1>3. CASE ev.type = "trade_executed"
  <2>1. ev.trade \in 1 .. MaxTrades
    BY <1>3 DEF Event
  <2>2. Shown(v, ev) = [v EXCEPT !.trades = Append(v.trades, ev.trade)]
    BY <1>3 DEF Shown
  <2>3. Append(v.trades, ev.trade) \in Seq(1 .. MaxTrades)
    BY <2>1 DEF Views
  <2> QED  BY <1>3, <2>2, <2>3 DEF Views
<1> QED  BY <1>1, <1>2, <1>3 DEF Event

LEMMA ClientTypes ==
  ASSUME HubTypes, NEW c \in Clients, ServeWS(c) \/ HangUp(c) \/ Pumps(c)
  PROVE  HubTypes'
<1>1. CASE ServeWS(c)
  <2>1. register' \in Seq(Clients) /\ Len(register') <= RegisterCap
    BY <1>1, HubConstants DEF ServeWS, HubTypes, TypeOK
  <2> QED  BY <1>1, <2>1 DEF ServeWS, run, market, HubTypes, TypeOK
<1>2. CASE HangUp(c)
  BY <1>2 DEF HangUp, channels, run, market, HubTypes, TypeOK
<1>3. CASE ReadFails(c)
  <2>1. unregister' \in Seq(Clients) /\ Len(unregister') <= RegisterCap
    BY <1>3, HubConstants DEF ReadFails, HubTypes, TypeOK
  <2> QED  BY <1>3, <2>1 DEF ReadFails, run, market, HubTypes, TypeOK
<1>4. CASE WriteSucceeds(c)
  <2>1. /\ Head(send[c]) \in Event /\ Tail(send[c]) \in Seq(Event)
        /\ Len(Tail(send[c])) <= SendCap
    BY <1>4, HeadAndTail, HubConstants DEF WriteSucceeds, HubTypes, TypeOK
  <2>2. Shown(view[c], Head(send[c])) \in Views
    BY <2>1, ShownTypes DEF HubTypes
  <2>3. /\ send' \in [Clients -> Seq(Event)] /\ view' \in [Clients -> Views]
        /\ \A x \in Clients : Len(send'[x]) <= SendCap
    BY <1>4, <2>1, <2>2 DEF WriteSucceeds, HubTypes, TypeOK
  <2> QED  BY <1>4, <2>3 DEF WriteSucceeds, channels, run, pumps, market, HubTypes, TypeOK, Views
<1>5. CASE WriterLeaves(c)
  <2>1. /\ send' \in [Clients -> Seq(Event)]
        /\ \A x \in Clients : Len(send'[x]) <= SendCap
    BY <1>5, HeadAndTail, HubConstants DEF WriterLeaves, HubTypes, TypeOK
  <2> QED  BY <1>5, <2>1 DEF WriterLeaves, channels, run, market, HubTypes, TypeOK
<1> QED  BY <1>1, <1>2, <1>3, <1>4, <1>5 DEF Pumps

LEMMA InitHubTypes == Init => HubTypes
<1> SUFFICES ASSUME Init PROVE HubTypes
  OBVIOUS
<1>1. latest \in Prices /\ [e \in Exchanges |-> 0] \in Prices
  BY HubConstants DEF Init, Prices
<1>2. view \in [Clients -> Views] /\ \A c \in Clients : view[c] \in Views
  BY <1>1 DEF Init, Views
<1>3. /\ send \in [Clients -> Seq(Event)] /\ \A c \in Clients : Len(send[c]) <= SendCap
      /\ publish \in Seq(Event) /\ Len(publish) <= PublishCap
      /\ register \in Seq(Clients) /\ Len(register) <= RegisterCap
      /\ unregister \in Seq(Clients) /\ Len(unregister) <= RegisterCap
      /\ aired \in Seq(1 .. MaxTrades)
  BY HubConstants DEF Init
<1>4. /\ pending = Nothing /\ made \in 0 .. MaxTrades
      /\ clients = {} /\ closed = {}
  BY HubConstants DEF Init
<1>5. /\ reader \in [Clients -> {"new", "reading", "gone"}]
      /\ writer \in [Clients -> {"new", "writing", "gone"}]
      /\ online \in [Clients -> BOOLEAN]
      /\ joined \in [Clients -> Nat]
  BY DEF Init
<1> QED  BY <1>1, <1>2, <1>3, <1>4, <1>5 DEF HubTypes, TypeOK, Views

LEMMA NextHubTypes == HubTypes /\ [Next]_vars => HubTypes'
<1> SUFFICES ASSUME HubTypes, [Next]_vars PROVE HubTypes'
  OBVIOUS
<1>1. CASE UNCHANGED vars
  BY <1>1 DEF vars, channels, run, pumps, market, HubTypes, TypeOK
<1> QED  BY <1>1, LoopTypes, RunTypes, ClientTypes DEF Next

\* The queues and buffers stay within their capacities and the variables keep
\* their types, for any capacities and any number of clients and exchanges.
THEOREM TypeCorrect == Spec => []TypeOK
<1>1. HubTypes => TypeOK  BY DEF HubTypes
<1> QED  BY <1>1, InitHubTypes, NextHubTypes, PTL DEF Spec
-----------------------------------------------------------------------------
(* No trade is missed. *)

LEMMA TradesToFinite ==
  ASSUME NEW q \in Seq(Event), NEW i
  PROVE  /\ IsFiniteSet(TradesTo(q, i)) /\ Cardinality(TradesTo(q, i)) \in Nat
         /\ TradesTo(q, i) \subseteq 1 .. Len(q)
<1>1. IsFiniteSet(1 .. Len(q)) /\ TradesTo(q, i) \subseteq 1 .. Len(q)
  BY FS_Interval DEF TradesTo
<1> QED  BY <1>1, FS_Subset, FS_CardinalityType

\* Appending an event adds its place to the places of trades, if it is one.
LEMMA TradesToAppend ==
  ASSUME NEW q \in Seq(Event), NEW ev \in Event
  PROVE  /\ \A i \in 1 .. Len(q) : TradesTo(Append(q, ev), i) = TradesTo(q, i)
         /\ TradesTo(Append(q, ev), Len(q) + 1) =
              TradesTo(q, Len(q)) \cup
                 (IF ev.type = "trade_executed" THEN {Len(q) + 1} ELSE {})
  BY DEF TradesTo

\* Sets whose elements are the same but for a shift by one are as large.
LEMMA ShiftedAsLarge ==
  ASSUME NEW S \in SUBSET Nat, NEW T \in SUBSET Nat, IsFiniteSet(S),
         \A i \in T : i + 1 \in S, \A i \in S : i - 1 \in T
  PROVE  Cardinality(S) = Cardinality(T)
<1> DEFINE f == [i \in S |-> i - 1]
<1>1. f \in Bijection(S, T)
  <2>1. f \in [S -> T]
    OBVIOUS
  <2>2. \A i, j \in S : f[i] = f[j] => i = j
    OBVIOUS
  <2>3. \A t \in T : \E i \in S : f[i] = t
    <3> SUFFICES ASSUME NEW t \in T PROVE f[t + 1] = t /\ t + 1 \in S
      OBVIOUS
    <3> QED  OBVIOUS
  <2> QED  BY <2>1, <2>2, <2>3, Fun_IsBij
<1> QED  BY <1>1, FS_Bijection DEF ExistsBijection

\* Taking the head off moves the places of trades, and takes one away if the
\* head is a trade.
LEMMA TradesToTail ==
  ASSUME NEW q \in Seq(Event), q # <<>>, NEW i \in Nat, i < Len(q)
  PROVE  Cardinality(TradesTo(q, i + 1)) =
           Cardinality(TradesTo(Tail(q), i))
             + (IF Head(q).type = "trade_executed" THEN 1 ELSE 0)
<1> DEFINE S == TradesTo(q, i + 1)  T == TradesTo(Tail(q), i)
<1>1. /\ IsFiniteSet(S) /\ S \subseteq 1 .. Len(q)
      /\ Tail(q) \in Seq(Event) /\ Len(Tail(q)) = Len(q) - 1 /\ Len(q) \in Nat \ {0}
      /\ \A j \in 1 .. Len(q) - 1 : Tail(q)[j] = q[j + 1]
      /\ Head(q) = q[1]
  BY TradesToFinite
<1>2. /\ 1 \in S <=> Head(q).type = "trade_executed"
      /\ \A j \in T : j \in Nat /\ j + 1 \in S \ {1}
      /\ \A j \in S \ {1} : j - 1 \in T
  BY <1>1 DEF TradesTo
<1>3. IsFiniteSet(S \ {1}) /\ S \ {1} \in SUBSET Nat /\ T \in SUBSET Nat
  BY <1>1, <1>2, FS_RemoveElement
<1>4. Cardinality(S \ {1}) = Cardinality(T)
  BY <1>2, <1>3, ShiftedAsLarge
<1>5. Cardinality(S \ {1}) = IF 1 \in S THEN Cardinality(S) - 1 ELSE Cardinality(S)
  BY <1>1, FS_RemoveElement
<1>6. Cardinality(S) \in Nat
  BY TradesToFinite
<1> QED  BY <1>2, <1>4, <1>5, <1>6

\* An event that is broadcast reaches the end of the queue, and a trade that
\* is, at the same time the end of the trades aired.
LEMMA ContinueAppend ==
  ASSUME NEW shown \in Seq(1 .. MaxTrades), NEW q \in Seq(Event),
         NEW all \in Seq(1 .. MaxTrades), NEW n \in Nat, NEW ev \in Event,
         Continue(shown, q, all, n)
  PROVE  Continue(shown, Append(q, ev),
                  IF ev.type = "trade_executed" THEN Append(all, ev.trade) ELSE all, n)
<1> DEFINE trade == ev.type = "trade_executed"
           p == Append(q, ev)
           more == IF trade THEN Append(all, ev.trade) ELSE all
           last == n + Len(shown)
           count(i) == Cardinality(TradesTo(q, i))
<1> SUFFICES Continue(shown, p, more, n)
  OBVIOUS
<1>1. /\ Len(q) \in Nat /\ Len(p) = Len(q) + 1 /\ last \in Nat /\ Len(shown) \in Nat
      /\ \A i \in 1 .. Len(q) : p[i] = q[i]
      /\ p[Len(q) + 1] = ev
      /\ trade => ev.trade \in 1 .. MaxTrades
  BY DEF Event
<1>2. /\ \A i \in 1 .. Len(q) : TradesTo(p, i) = TradesTo(q, i)
      /\ TradesTo(p, Len(p)) = TradesTo(q, Len(q)) \cup (IF trade THEN {Len(p)} ELSE {})
  BY <1>1, TradesToAppend
<1>3. /\ \A i : count(i) \in Nat
      /\ IsFiniteSet(TradesTo(q, Len(q))) /\ Len(p) \notin TradesTo(q, Len(q))
      /\ TradesTo(q, Len(q)) \subseteq 1 .. Len(q)
  BY <1>1, TradesToFinite
<1>4. /\ \A k \in DOMAIN shown : shown[k] = all[n + k]
      /\ \A i \in TradesTo(q, Len(q)) : q[i].trade = all[last + count(i)]
      /\ last + count(Len(q)) = Len(all)
  BY DEF Continue
<1>5. \A i \in TradesTo(q, Len(q)) : count(i) <= count(Len(q)) /\ count(i) >= 1
  <2> SUFFICES ASSUME NEW i \in TradesTo(q, Len(q)) PROVE count(i) <= count(Len(q)) /\ count(i) >= 1
    OBVIOUS
  <2>1. TradesTo(q, i) \subseteq TradesTo(q, Len(q)) /\ i \in TradesTo(q, i)
    BY <1>1, <1>3 DEF TradesTo
  <2>2. count(i) <= count(Len(q)) /\ count(i) # 0
    BY <1>3, <2>1, FS_Subset, FS_EmptySet
  <2> QED  BY <1>3, <2>2
<1>6. Len(all) \in Nat /\ \A k \in 1 .. Len(all) : more[k] = all[k]
  BY <1>1
<1>7. Cardinality(TradesTo(p, Len(p))) = count(Len(q)) + (IF trade THEN 1 ELSE 0)
  <2> DEFINE S == TradesTo(q, Len(q))
  <2>1. IsFiniteSet(S) /\ Len(p) \notin S /\ S \cup {} = S
    BY <1>3
  <2>2. Cardinality(S \cup {Len(p)}) = Cardinality(S) + 1
    BY <2>1, FS_AddElement
  <2> HIDE DEF S
  <2>3. CASE trade
    BY <1>2, <2>2, <2>3 DEF S
  <2>4. CASE ~trade
    BY <1>2, <1>3, <2>1, <2>4 DEF S
  <2> QED  BY <2>3, <2>4
<1>8. Len(more) = Len(all) + (IF trade THEN 1 ELSE 0)
  BY <1>1
<1>9. ASSUME NEW k \in DOMAIN shown PROVE shown[k] = more[n + k]
  <2>1. n + k \in 1 .. Len(all)
    BY <1>1, <1>3, <1>4
  <2> QED  BY <1>4, <1>6, <2>1
<1>10. ASSUME NEW i \in TradesTo(p, Len(p))
       PROVE  p[i].trade = more[last + Cardinality(TradesTo(p, i))]
  <2>1. CASE i \in TradesTo(q, Len(q))
    <3>1. last + count(i) \in 1 .. Len(all)
      BY <1>1, <1>3, <1>4, <1>5, <2>1
    <3>2. p[i] = q[i] /\ TradesTo(p, i) = TradesTo(q, i)
      BY <1>1, <1>2, <1>3, <2>1
    <3> QED  BY <1>4, <1>6, <2>1, <3>1, <3>2
  <2>2. CASE trade /\ i = Len(p)
    <3>1. Cardinality(TradesTo(p, i)) = count(Len(q)) + 1
      <4> HIDE DEF p, count, trade
      <4> QED  BY <1>7, <2>2
    <3>2. last + Cardinality(TradesTo(p, i)) = Len(all) + 1
      <4>1. last \in Nat /\ count(Len(q)) \in Nat /\ last + count(Len(q)) = Len(all)
        BY <1>1, <1>3, <1>4
      <4> HIDE DEF p, count, last
      <4> QED  BY <3>1, <4>1
    <3>3. more[Len(all) + 1] = ev.trade
      BY <1>1, <1>6, <2>2
    <3> QED  BY <1>1, <2>2, <3>2, <3>3
  <2> QED  BY <1>2, <2>1, <2>2
<1>11. last + Cardinality(TradesTo(p, Len(p))) = Len(more)
  BY <1>1, <1>3, <1>4, <1>6, <1>7, <1>8
<1> HIDE DEF p, more, trade
<1> QED  BY <1>9, <1>10, <1>11 DEF Continue

\* What the browser is shown is taken off the queue.
LEMMA ContinueShown ==
  ASSUME NEW shown \in Seq(1 .. MaxTrades), NEW q \in Seq(Event), q # <<>>,
         NEW all \in Seq(1 .. MaxTrades), NEW n \in Nat,
         Continue(shown, q, all, n)
  PROVE  Continue(IF Head(q).type = "trade_executed" THEN Append(shown, Head(q).trade)
                  ELSE shown, Tail(q), all, n)
<1> DEFINE ev == Head(q)
           trade == ev.type = "trade_executed"
           one == IF trade THEN 1 ELSE 0
           p == Tail(q)
           now == IF trade THEN Append(shown, ev.trade) ELSE shown
           last == n + Len(shown)
<1> SUFFICES Continue(now, p, all, n)
  OBVIOUS
<1>1. /\ Len(q) \in Nat \ {0} /\ p \in Seq(Event) /\ Len(p) = Len(q) - 1
      /\ \A i \in 1 .. Len(p) : p[i] = q[i + 1]
      /\ ev = q[1] /\ ev \in Event /\ Len(shown) \in Nat
      /\ trade => ev.trade \in 1 .. MaxTrades
  <2>1. ev \in Event /\ ev = q[1]
    OBVIOUS
  <2>2. /\ Len(q) \in Nat \ {0} /\ p \in Seq(Event) /\ Len(p) = Len(q) - 1
        /\ \A i \in 1 .. Len(p) : p[i] = q[i + 1]
        /\ Len(shown) \in Nat
    OBVIOUS
  <2>3. trade => ev.trade \in 1 .. MaxTrades
    <3> HIDE DEF ev
    <3> QED  BY <2>1 DEF Event
  <2> QED  BY <2>1, <2>2, <2>3
<1>2. /\ Len(now) = Len(shown) + one
      /\ \A k \in 1 .. Len(shown) : now[k] = shown[k]
      /\ trade => now[Len(shown) + 1] = ev.trade
  BY <1>1
<1>3. \A i \in 0 .. Len(p) :
         /\ Cardinality(TradesTo(q, i + 1)) = Cardinality(TradesTo(p, i)) + one
         /\ Cardinality(TradesTo(p, i)) \in Nat
  <2> TAKE i \in 0 .. Len(p)
  <2>1. i \in Nat /\ i < Len(q)
    BY <1>1
  <2> QED  BY <1>1, <2>1, TradesToTail, TradesToFinite
<1>4. /\ \A k \in DOMAIN shown : shown[k] = all[n + k]
      /\ \A i \in TradesTo(q, Len(q)) :
           q[i].trade = all[last + Cardinality(TradesTo(q, i))]
      /\ last + Cardinality(TradesTo(q, Len(q))) = Len(all)
  BY DEF Continue
<1>5. trade => ev.trade = all[last + 1]
  <2> SUFFICES ASSUME trade PROVE ev.trade = all[last + 1]
    OBVIOUS
  <2>1. 1 \in TradesTo(q, Len(q))
    BY <1>1 DEF TradesTo
  <2>2. TradesTo(q, 1) = {1}
    BY <1>1 DEF TradesTo
  <2>3. Cardinality({1}) = 1
    BY FS_Singleton
  <2>4. q[1].trade = all[last + Cardinality(TradesTo(q, 1))]
    BY <1>4, <2>1
  <2> QED  BY <1>1, <2>2, <2>3, <2>4
<1>6. ASSUME NEW k \in DOMAIN now PROVE now[k] = all[n + k]
  <2>1. k \in 1 .. Len(shown) \/ (trade /\ k = Len(shown) + 1)
    BY <1>1, <1>2
  <2> QED  BY <1>1, <1>2, <1>4, <1>5, <2>1
<1>7. ASSUME NEW i \in TradesTo(p, Len(p))
      PROVE  p[i].trade = all[n + Len(now) + Cardinality(TradesTo(p, i))]
  <2>1. i \in 1 .. Len(p) /\ i + 1 \in TradesTo(q, Len(q)) /\ p[i] = q[i + 1]
    BY <1>1, <1>7 DEF TradesTo
  <2>2. last + Cardinality(TradesTo(q, i + 1)) = n + Len(now) + Cardinality(TradesTo(p, i))
    BY <1>1, <1>2, <1>3, <2>1
  <2> QED  BY <1>4, <2>1, <2>2
<1>8. n + Len(now) + Cardinality(TradesTo(p, Len(p))) = Len(all)
  BY <1>1, <1>2, <1>3, <1>4
<1> HIDE DEF p, now
<1> QED  BY <1>6, <1>7, <1>8 DEF Continue

\* A client the hub has not met yet has been sent nothing.
Untouched == \A c \in Clients \ (clients \cup closed) : send[c] = <<>> /\ view[c].trades = <<>>

TradeInv == HubInv /\ HubTypes /\ Untouched /\ TradesComplete

LEMMA TradeInvTypes ==
  ASSUME TradeInv, NEW c \in Clients
  PROVE  /\ view[c].trades \in Seq(1 .. MaxTrades) /\ send[c] \in Seq(Event)
         /\ aired \in Seq(1 .. MaxTrades) /\ joined[c] \in Nat
         /\ clients \subseteq Clients
  BY DEF TradeInv, HubTypes, TypeOK

\* The hub appends the same event to every queue it goes on using.
LEMMA BroadcastTrades ==
  ASSUME TradeInv, NEW ev \in Event, Broadcast(ev),
         UNCHANGED <<joined, writer, online, view>>,
         aired' = IF ev.type = "trade_executed" THEN Append(aired, ev.trade) ELSE aired
  PROVE  Untouched' /\ TradesComplete'
<1>1. Untouched'
  BY TradeInvTypes DEF TradeInv, Untouched, Broadcast
<1>2. ASSUME NEW c \in clients', online'[c] /\ writer'[c] = "writing"
      PROVE  Continue(view'[c].trades, send'[c], aired', joined'[c])
  <2>1. c \in clients /\ c \in Clients /\ send'[c] = Append(send[c], ev)
    BY <1>2, TradeInvTypes DEF Broadcast, TradeInv, HubTypes, TypeOK
  <2>2. Continue(view[c].trades, send[c], aired, joined[c])
    BY <1>2, <2>1 DEF TradeInv, TradesComplete
  <2>3. Continue(view[c].trades, Append(send[c], ev), aired', joined[c])
    BY <2>1, <2>2, TradeInvTypes, ContinueAppend
  <2> QED  BY <2>1, <2>3
<1> QED  BY <1>1, <1>2 DEF TradesComplete

\* A client joins with an empty queue at the end of the trades aired.
LEMMA RegisterTrades ==
  ASSUME TradeInv, Register
  PROVE  Untouched' /\ TradesComplete'
<1> DEFINE r == Head(register)
<1>1. /\ clients' = clients \cup {r} /\ joined' = [joined EXCEPT ![r] = Len(aired)]
      /\ UNCHANGED <<closed, aired, send, writer, online, view>>
  BY DEF Register, pumps
<1>2. r \in Clients /\ r \notin clients \cup closed
  <2>1. r = register[1] /\ 1 \in DOMAIN register
    BY DEF Register, TradeInv, HubInv
  <2> QED  BY <2>1 DEF TradeInv, HubInv, RegisteredOnce
<1>3. send[r] = <<>> /\ view[r].trades = <<>>
  BY <1>2 DEF TradeInv, Untouched
<1>4. Continue(<<>>, <<>>, aired, Len(aired))
  <2> SUFFICES ASSUME NEW q, q = <<>> PROVE Continue(q, q, aired, Len(aired))
    OBVIOUS
  <2>1. Len(q) = 0 /\ TradesTo(q, Len(q)) = {} /\ DOMAIN q = {}
    BY DEF TradesTo
  <2>2. Len(aired) \in Nat /\ Cardinality({}) = 0
    BY <1>2, TradeInvTypes, FS_EmptySet
  <2> DEFINE waiting == TradesTo(q, Len(q))
  <2> HIDE DEF waiting
  <2>3. waiting = {}
    BY <2>1 DEF waiting
  <2>4. /\ \A k \in DOMAIN q : q[k] = aired[Len(aired) + k]
        /\ \A i \in waiting : q[i].trade = aired[Len(aired) + Len(q) + Cardinality(TradesTo(q, i))]
        /\ Len(aired) + Len(q) + Cardinality(waiting) = Len(aired)
    BY <2>1, <2>2, <2>3
  <2> QED  BY <2>4, Zenon DEF Continue, waiting
<1>5. Untouched'
  BY <1>1 DEF TradeInv, Untouched
<1>6. ASSUME NEW c \in clients', online'[c] /\ writer'[c] = "writing"
      PROVE  Continue(view'[c].trades, send'[c], aired', joined'[c])
  <2>1. CASE c = r
    <3>1. joined'[r] = Len(aired)
      BY <1>1, <1>2 DEF TradeInv, HubTypes, TypeOK
    <3> QED  BY <1>1, <1>3, <1>4, <2>1, <3>1
  <2>2. CASE c # r
    <3>1. c \in clients /\ joined'[c] = joined[c]
      BY <1>1, <1>2, <1>6, <2>2, TradeInvTypes DEF TradeInv, HubTypes, TypeOK
    <3> QED  BY <1>1, <1>6, <3>1 DEF TradeInv, TradesComplete
  <2> QED  BY <2>1, <2>2
<1> QED  BY <1>5, <1>6 DEF TradesComplete

LEMMA WriteTrades ==
  ASSUME TradeInv, NEW c \in Clients, WriteSucceeds(c)
  PROVE  Untouched' /\ TradesComplete'
<1> DEFINE ev == Head(send[c])
<1>1. /\ writer[c] = "writing" /\ online[c] /\ send[c] # <<>>
      /\ view' = [view EXCEPT ![c] = Shown(view[c], ev)]
      /\ send' = [send EXCEPT ![c] = Tail(send[c])]
      /\ UNCHANGED <<clients, closed, aired, joined, writer, online>>
  BY DEF WriteSucceeds, run, pumps
<1>2. c \in clients \cup closed
  BY <1>1 DEF TradeInv, Untouched
<1>3. /\ view' = [view EXCEPT ![c] = view'[c]] /\ view'[c] = Shown(view[c], ev)
      /\ send' = [send EXCEPT ![c] = send'[c]] /\ send'[c] = Tail(send[c])
      /\ DOMAIN view = Clients /\ DOMAIN send = Clients
  BY <1>1 DEF TradeInv, HubTypes
<1>4. Untouched'
  BY <1>1, <1>2, <1>3 DEF TradeInv, Untouched
<1>5. view'[c].trades = IF ev.type = "trade_executed" THEN Append(view[c].trades, ev.trade)
                        ELSE view[c].trades
  <2>1. view[c] \in Views
    BY DEF TradeInv, HubTypes
  <2>2. ev \in Event
    BY <1>1, TradeInvTypes, HeadAndTail
  <2> HIDE DEF ev
  <2>3. CASE ev.type = "price_update"
    BY <1>3, <2>1, <2>3 DEF Shown, Views
  <2>4. CASE ev.type = "price_snapshot"
    BY <1>3, <2>1, <2>4 DEF Shown, Views
  <2>5. CASE ev.type = "trade_executed"
    BY <1>3, <2>1, <2>5 DEF Shown, Views
  <2> QED  BY <2>2, <2>3, <2>4, <2>5 DEF Event
<1>6. ASSUME NEW d \in clients', online'[d] /\ writer'[d] = "writing"
      PROVE  Continue(view'[d].trades, send'[d], aired', joined'[d])
  <2>1. /\ d \in clients /\ d \in Clients
        /\ Continue(view[d].trades, send[d], aired, joined[d])
    BY <1>1, <1>6, TradeInvTypes DEF TradeInv, TradesComplete
  <2>2. CASE d # c
    BY <1>1, <1>3, <2>1, <2>2
  <2>3. CASE d = c
    <3>1. Continue(IF ev.type = "trade_executed" THEN Append(view[c].trades, ev.trade)
                   ELSE view[c].trades, Tail(send[c]), aired, joined[c])
      BY <1>1, <2>1, <2>3, TradeInvTypes, ContinueShown
    <3> QED  BY <1>1, <1>3, <1>5, <2>3, <3>1
  <2> QED  BY <2>2, <2>3
<1> QED  BY <1>4, <1>6 DEF TradesComplete

LEMMA PumpsTrades ==
  ASSUME TradeInv, NEW c \in Clients, ServeWS(c) \/ HangUp(c) \/ Pumps(c)
  PROVE  Untouched' /\ TradesComplete'
<1>1. CASE ServeWS(c)
  <2>1. /\ c \notin clients
        /\ writer' = [writer EXCEPT ![c] = "writing"] /\ online' = [online EXCEPT ![c] = TRUE]
        /\ UNCHANGED <<clients, closed, aired, joined, send, view>>
    BY <1>1 DEF ServeWS, run, TradeInv, HubInv
  <2>2. \A d \in clients : writer'[d] = writer[d] /\ online'[d] = online[d]
    BY <2>1, TradeInvTypes DEF TradeInv, HubTypes, TypeOK
  <2> QED  BY <2>1, <2>2 DEF TradeInv, Untouched, TradesComplete
<1>2. CASE HangUp(c)
  <2>1. /\ online' = [online EXCEPT ![c] = FALSE]
        /\ UNCHANGED <<clients, closed, aired, joined, send, view, writer>>
    BY <1>2 DEF HangUp, run
  <2>2. \A d \in clients : online'[d] => online[d]
    BY <2>1, TradeInvTypes DEF TradeInv, HubTypes, TypeOK
  <2> QED  BY <2>1, <2>2 DEF TradeInv, Untouched, TradesComplete
<1>3. CASE ReadFails(c)
  BY <1>3 DEF ReadFails, run, TradeInv, Untouched, TradesComplete
<1>4. CASE WriteSucceeds(c)
  BY <1>4, WriteTrades
<1>5. CASE WriterLeaves(c)
  <2>1. /\ send' = [send EXCEPT ![c] = IF send[c] = <<>> THEN <<>> ELSE Tail(send[c])]
        /\ writer' = [writer EXCEPT ![c] = "gone"]
        /\ online' = [online EXCEPT ![c] = FALSE]
        /\ c \in closed \/ send[c] # <<>>
        /\ UNCHANGED <<clients, closed, aired, joined, view>>
    BY <1>5 DEF WriterLeaves, run
  <2>2. c \in clients \cup closed
    BY <2>1 DEF TradeInv, Untouched
  <2>3. \A d \in clients : online'[d] => d # c /\ online[d] /\ send'[d] = send[d]
                                         /\ writer'[d] = writer[d]
    BY <2>1, TradeInvTypes DEF TradeInv, HubTypes, TypeOK
  <2>4. Untouched'
    BY <2>1, <2>2 DEF TradeInv, Untouched, HubTypes
  <2> QED  BY <2>1, <2>3, <2>4 DEF TradeInv, TradesComplete
<1> QED  BY <1>1, <1>2, <1>3, <1>4, <1>5 DEF Pumps

LEMMA RunTrades ==
  ASSUME TradeInv, Run
  PROVE  Untouched' /\ TradesComplete'
<1>1. CASE Register
  BY <1>1, RegisterTrades
<1>2. CASE Unregister
  <2>1. /\ clients' \subseteq clients /\ clients \cup closed = clients' \cup closed'
        /\ UNCHANGED <<aired, joined, send, writer, online, view>>
    BY <1>2 DEF Unregister, pumps
  <2> QED  BY <2>1 DEF TradeInv, Untouched, TradesComplete
<1>3. CASE HoldBack
  BY <1>3 DEF HoldBack, pumps, TradeInv, Untouched, TradesComplete
<1>4. CASE Deliver
  <2>1. Head(publish) \in Event
    BY <1>4, HeadAndTail DEF Deliver, TradeInv, HubTypes, TypeOK
  <2> QED  BY <1>4, <2>1, BroadcastTrades DEF Deliver, pumps
<1>5. CASE Flush
  <2>1. pending \in Event /\ pending.type = "price_update"
    BY <1>5 DEF Flush, TradeInv, HubTypes, TypeOK
  <2> QED  BY <1>5, <2>1, BroadcastTrades DEF Flush, pumps
<1> QED  BY <1>1, <1>2, <1>3, <1>4, <1>5 DEF Run

LEMMA InitTrades == Init => TradeInv
<1> SUFFICES ASSUME Init PROVE Untouched /\ TradesComplete
  BY InitHub, InitHubTypes DEF TradeInv
<1> QED  BY DEF Init, Untouched, TradesComplete

LEMMA NextTrades == TradeInv /\ [Next]_vars => TradeInv'
<1> SUFFICES ASSUME TradeInv, [Next]_vars PROVE Untouched' /\ TradesComplete'
  BY NextHub, NextHubTypes DEF TradeInv
<1>1. CASE Loop \/ UNCHANGED vars
  <2>1. UNCHANGED <<clients, closed, aired, joined, send, writer, online, view>>
    BY <1>1 DEF Loop, PublishUpdate, PublishTradeExecuted, PublishPriceSnapshot, vars, run, pumps
  <2> QED  BY <2>1 DEF TradeInv, Untouched, TradesComplete
<1> QED  BY <1>1, RunTrades, PumpsTrades DEF Next

\* A connected client's trades, shown and on their way, are those aired since
\* it was registered, in order: the hub drops clients and never single events
\* (ws.go:127-134), for any capacities and any number of clients.
THEOREM TradesCompleteHolds == Spec => []TradesComplete
<1>1. TradeInv => TradesComplete  BY DEF TradeInv
<1> QED  BY <1>1, InitTrades, NextTrades, PTL DEF Spec
=============================================================================
