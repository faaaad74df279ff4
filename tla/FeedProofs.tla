------------------------------ MODULE FeedProofs ------------------------------
(***************************************************************************)
(* For any capacities, numbers of quotes and schedules of the ten          *)
(* connectors, their drains and the loop: quotes stay in order, and only   *)
(* two connections can have two writers.                                   *)
(***************************************************************************)
EXTENDS Feed, TLAPS

Update == [exchange : Exchanges, quote : Nat]

FeedTypes ==
    /\ sent \in [Exchanges -> Nat] /\ prices \in [Exchanges -> Nat]
    /\ books \in [Exchanges -> Nat] /\ holding \in [Exchanges -> Nat]
    /\ received \in [Exchanges -> Nat]
    /\ ch \in [Exchanges -> Seq(Nat)] /\ bookCh \in [Exchanges -> Seq(Nat)]
    /\ out \in Seq(Update)

\* A queue whose elements increase, from above low up to high.
Rising(q, low, high) ==
    /\ low <= high
    /\ \A i \in DOMAIN q : low < q[i] /\ q[i] <= high
    /\ \A i, j \in DOMAIN q : i < j => q[i] < q[j]

\* Along the path of a quote, whatever is further on is older.
InOrder ==
    /\ \A e \in Exchanges :
         /\ Rising(ch[e], prices[e], sent[e])
         /\ Rising(bookCh[e], books[e], sent[e])
         /\ holding[e] # 0 => holding[e] = prices[e]
         /\ received[e] <= prices[e]
    /\ \A i \in DOMAIN out : /\ received[out[i].exchange] <= out[i].quote
                             /\ out[i].quote <= prices[out[i].exchange]
    /\ \A i, j \in DOMAIN out : i < j /\ out[i].exchange = out[j].exchange
                                  => out[i].quote <= out[j].quote

FeedInv == FeedTypes /\ InOrder

LEMMA InitFeed == Init => FeedInv
  BY DEF Init, FeedInv, FeedTypes, InOrder, Rising

LEMMA RisingHead ==
  ASSUME NEW q \in Seq(Nat), q # <<>>, NEW low \in Nat, NEW high \in Nat,
         Rising(q, low, high)
  PROVE  /\ Head(q) \in Nat /\ low < Head(q) /\ Head(q) <= high
         /\ Tail(q) \in Seq(Nat)
         /\ Rising(Tail(q), Head(q), high)
<1>1. /\ Head(q) = q[1] /\ 1 \in DOMAIN q /\ Tail(q) \in Seq(Nat)
      /\ \A i \in DOMAIN Tail(q) : i + 1 \in DOMAIN q /\ i \in Nat /\ 1 < i + 1
                                   /\ Tail(q)[i] = q[i + 1]
  OBVIOUS
<1>2. q[1] \in Nat
  BY <1>1
<1> QED  BY <1>1, <1>2 DEF Rising

LEMMA RisingOffered ==
  ASSUME NEW q \in Seq(Nat), NEW low \in Nat, NEW high \in Nat, NEW cap \in Nat,
         Rising(q, low, high)
  PROVE  /\ Offered(q, high + 1, cap) \in Seq(Nat)
         /\ Rising(q, low, high + 1)
         /\ Rising(Offered(q, high + 1, cap), low, high + 1)
<1>0. \A i \in DOMAIN q : q[i] \in Nat
  OBVIOUS
<1>1. Rising(q, low, high + 1)
  BY <1>0 DEF Rising
<1> DEFINE p == Append(q, high + 1)
<1>2. /\ p \in Seq(Nat)
      /\ \A i \in DOMAIN p : /\ i \in Nat
                             /\ \/ i \in DOMAIN q /\ p[i] = q[i] /\ i < Len(q) + 1
                                \/ i = Len(q) + 1 /\ p[i] = high + 1
  OBVIOUS
<1>3. Rising(p, low, high + 1)
  <2> HIDE DEF p
  <2>1. /\ low <= high + 1 /\ Len(q) \in Nat
        /\ \A i \in DOMAIN q : i \in Nat /\ i <= Len(q) /\ low < q[i] /\ q[i] < high + 1
    BY <1>0 DEF Rising
  <2>2. \A i \in DOMAIN p : low < p[i] /\ p[i] <= high + 1
    BY <1>0, <1>2, <2>1 DEF Rising
  <2>3. ASSUME NEW i \in DOMAIN p, NEW j \in DOMAIN p, i < j
        PROVE  p[i] < p[j]
    <3>1. i \in DOMAIN q /\ p[i] = q[i]
      BY <1>2, <2>1, <2>3
    <3>2. CASE j \in DOMAIN q /\ p[j] = q[j]
      BY <2>3, <3>1, <3>2 DEF Rising
    <3>3. CASE p[j] = high + 1
      BY <2>1, <3>1, <3>3
    <3> QED  BY <1>2, <3>2, <3>3
  <2> QED  BY <2>1, <2>2, <2>3 DEF Rising
<1> QED  BY <1>1, <1>2, <1>3 DEF Offered

LEMMA OutTypes ==
  ASSUME FeedTypes
  PROVE  \A i \in DOMAIN out : out[i].exchange \in Exchanges /\ out[i].quote \in Nat
<1>1. \A i \in DOMAIN out : out[i] \in Update
  BY DEF FeedTypes
<1> QED  BY <1>1 DEF Update

LEMMA ReadFrameFeed ==
  ASSUME FeedInv, NEW e \in Exchanges, ReadFrame(e)
  PROVE  FeedInv'
<1> DEFINE c == Offered(ch[e], sent[e] + 1, ChCap)
           b == Offered(bookCh[e], sent[e] + 1, ChCap)
<1>1. /\ sent' = [sent EXCEPT ![e] = sent[e] + 1]
      /\ UNCHANGED <<prices, books, holding, out, received>>
      /\ ch' = ch \/ ch' = [ch EXCEPT ![e] = c]
      /\ bookCh' = bookCh \/ bookCh' = [bookCh EXCEPT ![e] = b]
  BY DEF ReadFrame, aggregator
<1>2. /\ ch[e] \in Seq(Nat) /\ bookCh[e] \in Seq(Nat) /\ ChCap \in Nat
      /\ sent[e] \in Nat /\ prices[e] \in Nat /\ books[e] \in Nat
      /\ Rising(ch[e], prices[e], sent[e]) /\ Rising(bookCh[e], books[e], sent[e])
  BY FeedConstants DEF FeedInv, FeedTypes, InOrder
<1>3. /\ c \in Seq(Nat) /\ Rising(c, prices[e], sent[e] + 1)
      /\ Rising(ch[e], prices[e], sent[e] + 1)
  BY <1>2, RisingOffered
<1>4. /\ b \in Seq(Nat) /\ Rising(b, books[e], sent[e] + 1)
      /\ Rising(bookCh[e], books[e], sent[e] + 1)
  BY <1>2, RisingOffered
<1> HIDE DEF c, b
<1>0. sent' \in [Exchanges -> Nat]
  BY <1>1, <1>2 DEF FeedInv, FeedTypes
<1>5. ch' \in [Exchanges -> Seq(Nat)]
  BY <1>1, <1>2, <1>3 DEF FeedInv, FeedTypes
<1>6. bookCh' \in [Exchanges -> Seq(Nat)]
  BY <1>1, <1>2, <1>4 DEF FeedInv, FeedTypes
<1>7. \A x \in Exchanges : Rising(ch'[x], prices[x], sent'[x])
  BY <1>1, <1>2, <1>3 DEF FeedInv, FeedTypes, InOrder
<1>8. \A x \in Exchanges : Rising(bookCh'[x], books[x], sent'[x])
  BY <1>1, <1>2, <1>4 DEF FeedInv, FeedTypes, InOrder
<1> QED  BY <1>0, <1>1, <1>5, <1>6, <1>7, <1>8 DEF FeedInv, FeedTypes, InOrder

LEMMA DrainStoreFeed ==
  ASSUME FeedInv, NEW e \in Exchanges, DrainStore(e)
  PROVE  FeedInv' /\ prices'[e] > prices[e]
<1> DEFINE n == Head(ch[e])
<1>1. /\ ch[e] # <<>> /\ ch' = [ch EXCEPT ![e] = Tail(ch[e])]
      /\ prices' = [prices EXCEPT ![e] = n] /\ holding' = [holding EXCEPT ![e] = n]
      /\ UNCHANGED <<sent, bookCh, books, out, received>>
  BY DEF DrainStore, connectors
<1>2. /\ n \in Nat /\ prices[e] < n /\ n <= sent[e]
      /\ Tail(ch[e]) \in Seq(Nat)
      /\ Rising(Tail(ch[e]), n, sent[e])
  BY <1>1, RisingHead DEF FeedInv, FeedTypes, InOrder
<1> HIDE DEF n
<1>3. FeedTypes'
  BY <1>1, <1>2 DEF FeedInv, FeedTypes
<1>4. \A x \in Exchanges : Rising(ch'[x], prices'[x], sent[x])
  BY <1>1, <1>2 DEF FeedInv, FeedTypes, InOrder
<1>0. \A x \in Exchanges : holding'[x] # 0 => holding'[x] = prices'[x]
  BY <1>1, <1>2 DEF FeedInv, FeedTypes, InOrder
<1>5. \A x \in Exchanges : /\ prices[x] \in Nat /\ prices'[x] \in Nat /\ received[x] \in Nat
                           /\ prices[x] <= prices'[x]
  <2>1. \A x \in Exchanges : prices[x] \in Nat /\ received[x] \in Nat
    BY DEF FeedInv, FeedTypes
  <2>2. \A x \in Exchanges : prices'[x] = IF x = e THEN n ELSE prices[x]
    BY <1>1 DEF FeedInv, FeedTypes
  <2> QED  BY <1>2, <2>1, <2>2
<1>6. \A i \in DOMAIN out : out[i].exchange \in Exchanges /\ out[i].quote \in Nat
  BY OutTypes DEF FeedInv
<1>7. \A i \in DOMAIN out : /\ received[out[i].exchange] <= out[i].quote
                            /\ out[i].quote <= prices'[out[i].exchange]
  BY <1>5, <1>6 DEF FeedInv, InOrder
<1>8. \A x \in Exchanges : received[x] <= prices'[x]
  BY <1>5 DEF FeedInv, InOrder
<1>9. prices'[e] > prices[e]
  BY <1>1, <1>2 DEF FeedInv, FeedTypes
<1> QED  BY <1>0, <1>1, <1>3, <1>4, <1>5, <1>7, <1>8, <1>9 DEF FeedInv, InOrder

\* An update offered to the loop is at least as new as those before it.
LEMMA DrainOfferFeed ==
  ASSUME FeedInv, NEW e \in Exchanges, DrainOffer(e)
  PROVE  FeedInv'
<1> DEFINE u == [exchange |-> e, quote |-> holding[e]]
           new == Append(out, u)
<1>1. /\ holding[e] # 0 /\ holding' = [holding EXCEPT ![e] = 0]
      /\ out' = out \/ out' = new
      /\ UNCHANGED <<sent, ch, bookCh, prices, books, received>>
  BY DEF DrainOffer, Offered, connectors
<1>2. holding[e] = prices[e] /\ holding[e] \in Nat
  BY <1>1 DEF FeedInv, FeedTypes, InOrder
<1>3. u \in Update /\ u.exchange = e /\ u.quote = prices[e]
  BY <1>2 DEF Update
<1>4. \A i \in DOMAIN out : /\ out[i].exchange \in Exchanges /\ out[i].quote \in Nat
                            /\ out[i].quote <= prices[out[i].exchange]
  BY OutTypes DEF FeedInv, InOrder
<1> HIDE DEF u
<1>5. /\ new \in Seq(Update)
      /\ \A i \in DOMAIN new : /\ i \in Nat
                               /\ \/ i \in DOMAIN out /\ new[i] = out[i]
                                  \/ i = Len(out) + 1 /\ new[i] = u
  BY <1>3 DEF FeedInv, FeedTypes
<1>6. Len(out) \in Nat /\ \A i \in DOMAIN out : i \in Nat /\ i <= Len(out)
  BY DEF FeedInv, FeedTypes
<1> HIDE DEF new
<1>7. CASE out' = out
  BY <1>1, <1>2, <1>7 DEF FeedInv, FeedTypes, InOrder
<1>8. CASE out' = new
  <2>1. FeedTypes'
    BY <1>1, <1>5, <1>8 DEF FeedInv, FeedTypes
  <2>2. received[e] <= prices[e] /\ prices[e] \in Nat
    BY DEF FeedInv, FeedTypes, InOrder
  <2>3. \A i \in DOMAIN new : /\ received[new[i].exchange] <= new[i].quote
                              /\ new[i].quote <= prices[new[i].exchange]
    BY <1>3, <1>5, <2>2 DEF FeedInv, InOrder
  <2>4. ASSUME NEW i \in DOMAIN new, NEW j \in DOMAIN new, i < j,
               new[i].exchange = new[j].exchange
        PROVE  new[i].quote <= new[j].quote
    <3>1. i \in DOMAIN out /\ new[i] = out[i]
      BY <1>5, <1>6, <2>4
    <3>2. CASE j \in DOMAIN out /\ new[j] = out[j]
      BY <2>4, <3>1, <3>2 DEF FeedInv, InOrder
    <3>3. CASE new[j] = u
      BY <1>3, <1>4, <2>4, <3>1, <3>3
    <3> QED  BY <1>5, <3>2, <3>3
  <2>5. \A x \in Exchanges : holding'[x] # 0 => holding'[x] = prices[x]
    BY <1>1 DEF FeedInv, FeedTypes, InOrder
  <2> QED  BY <1>1, <1>8, <2>1, <2>3, <2>4, <2>5 DEF FeedInv, InOrder
<1> QED  BY <1>1, <1>7, <1>8

LEMMA DrainBookFeed ==
  ASSUME FeedInv, NEW e \in Exchanges, DrainBook(e)
  PROVE  FeedInv' /\ books'[e] > books[e]
<1> DEFINE n == Head(bookCh[e])
<1>1. /\ bookCh[e] # <<>> /\ bookCh' = [bookCh EXCEPT ![e] = Tail(bookCh[e])]
      /\ books' = [books EXCEPT ![e] = n]
      /\ UNCHANGED <<sent, ch, prices, holding, out, received>>
  BY DEF DrainBook, connectors
<1>2. /\ n \in Nat /\ books[e] < n /\ n <= sent[e]
      /\ Tail(bookCh[e]) \in Seq(Nat)
      /\ Rising(Tail(bookCh[e]), n, sent[e])
  BY <1>1, RisingHead DEF FeedInv, FeedTypes, InOrder
<1> HIDE DEF n
<1>3. FeedTypes'
  BY <1>1, <1>2 DEF FeedInv, FeedTypes
<1>4. \A x \in Exchanges : Rising(bookCh'[x], books'[x], sent[x])
  BY <1>1, <1>2 DEF FeedInv, FeedTypes, InOrder
<1> QED  BY <1>1, <1>2, <1>3, <1>4 DEF FeedInv, FeedTypes, InOrder

LEMMA TakeUpdateFeed ==
  ASSUME FeedInv, TakeUpdate
  PROVE  FeedInv' /\ \A x \in Exchanges : received'[x] >= received[x]
<1> DEFINE u == Head(out)
           rest == Tail(out)
<1>1. /\ out # <<>> /\ out' = rest
      /\ received' = [received EXCEPT ![u.exchange] = u.quote]
      /\ UNCHANGED <<sent, ch, bookCh, prices, books, holding>>
  BY DEF TakeUpdate, connectors
<1>2. /\ u = out[1] /\ 1 \in DOMAIN out
      /\ rest \in Seq(Update)
      /\ \A i \in DOMAIN rest : /\ i + 1 \in DOMAIN out /\ i \in Nat /\ 1 < i + 1
                                /\ rest[i] = out[i + 1]
  BY <1>1 DEF FeedInv, FeedTypes
<1>3. /\ u.exchange \in Exchanges /\ u.quote \in Nat
      /\ received[u.exchange] <= u.quote /\ u.quote <= prices[u.exchange]
  BY <1>2, OutTypes DEF FeedInv, InOrder
<1> HIDE DEF u, rest
<1>4. FeedTypes'
  BY <1>1, <1>2, <1>3 DEF FeedInv, FeedTypes
<1>5. \A x \in Exchanges : received'[x] >= received[x] /\ received'[x] <= prices[x]
  BY <1>1, <1>3 DEF FeedInv, FeedTypes, InOrder
<1>6. \A i \in DOMAIN rest : /\ rest[i].exchange \in Exchanges
                             /\ rest[i].exchange = u.exchange => u.quote <= rest[i].quote
                             /\ received[rest[i].exchange] <= rest[i].quote
                             /\ rest[i].quote <= prices[rest[i].exchange]
  BY <1>2, OutTypes DEF FeedInv, InOrder
<1>7. \A x \in Exchanges : received'[x] = IF x = u.exchange THEN u.quote ELSE received[x]
  BY <1>1 DEF FeedInv, FeedTypes
<1>8. ASSUME NEW i \in DOMAIN rest, NEW j \in DOMAIN rest, i < j,
             rest[i].exchange = rest[j].exchange
      PROVE  rest[i].quote <= rest[j].quote
  <2>1. i + 1 \in DOMAIN out /\ j + 1 \in DOMAIN out /\ i + 1 < j + 1
    BY <1>2, <1>8
  <2> QED  BY <1>2, <1>8, <2>1 DEF FeedInv, InOrder
<1>9. \A i \in DOMAIN rest : received'[rest[i].exchange] <= rest[i].quote
  BY <1>6, <1>7
<1> QED  BY <1>1, <1>4, <1>5, <1>6, <1>8, <1>9 DEF FeedInv, InOrder

LEMMA NextFeed == FeedInv /\ [Next]_vars => FeedInv' /\
    \A x \in Exchanges :
      prices'[x] >= prices[x] /\ books'[x] >= books[x] /\ received'[x] >= received[x]
<1> SUFFICES ASSUME FeedInv, [Next]_vars
             PROVE  FeedInv' /\ \A x \in Exchanges : /\ prices'[x] >= prices[x]
                                                     /\ books'[x] >= books[x]
                                                     /\ received'[x] >= received[x]
  OBVIOUS
<1>1. \A x \in Exchanges : prices[x] >= prices[x] /\ books[x] >= books[x] /\ received[x] >= received[x]
  BY DEF FeedInv, FeedTypes
<1>2. CASE UNCHANGED <<sent, ch, bookCh, aggregator, received>>
  BY <1>1, <1>2 DEF FeedInv, FeedTypes, InOrder, Rising, aggregator
<1>3. ASSUME NEW e \in Exchanges, Connector(e)
      PROVE  ReadFrame(e) \/ UNCHANGED <<sent, ch, bookCh, aggregator, received>>
  BY <1>3 DEF Connector, Connect, SetUp, Disconnect, Reconnect, BeginWrite, Clash, EndWrite,
              connectors
<1>4. ASSUME NEW e \in Exchanges, ReadFrame(e)
      PROVE  FeedInv' /\ UNCHANGED <<prices, books, received>>
  BY <1>4, ReadFrameFeed DEF ReadFrame, aggregator
<1>5. ASSUME NEW e \in Exchanges, DrainStore(e)
      PROVE  /\ FeedInv' /\ UNCHANGED <<books, received>>
             /\ \A x \in Exchanges : prices'[x] >= prices[x]
  <2>1. FeedInv' /\ prices'[e] > prices[e]
    BY <1>5, DrainStoreFeed
  <2>2. /\ UNCHANGED <<books, received>>
        /\ \A x \in Exchanges \ {e} : prices'[x] = prices[x]
    BY <1>5 DEF DrainStore, FeedInv, FeedTypes
  <2>3. prices'[e] >= prices[e]
    BY <2>1 DEF FeedInv, FeedTypes
  <2> QED  BY <1>1, <2>1, <2>2, <2>3
<1>6. ASSUME NEW e \in Exchanges, DrainOffer(e)
      PROVE  FeedInv' /\ UNCHANGED <<prices, books, received>>
  BY <1>6, DrainOfferFeed DEF DrainOffer
<1>7. ASSUME NEW e \in Exchanges, DrainBook(e)
      PROVE  /\ FeedInv' /\ UNCHANGED <<prices, received>>
             /\ \A x \in Exchanges : books'[x] >= books[x]
  <2>1. FeedInv' /\ books'[e] > books[e]
    BY <1>7, DrainBookFeed
  <2>2. /\ UNCHANGED <<prices, received>>
        /\ \A x \in Exchanges \ {e} : books'[x] = books[x]
    BY <1>7 DEF DrainBook, FeedInv, FeedTypes
  <2>3. books'[e] >= books[e]
    BY <2>1 DEF FeedInv, FeedTypes
  <2> QED  BY <1>1, <2>1, <2>2, <2>3
<1>8. CASE TakeUpdate
  BY <1>1, <1>8, TakeUpdateFeed DEF TakeUpdate
<1>9. CASE UNCHANGED vars
  BY <1>2, <1>9 DEF vars, connectors
<1> QED  BY <1>1, <1>2, <1>3, <1>4, <1>5, <1>6, <1>7, <1>8, <1>9 DEF Next, Drain

\* Whatever the capacities and the number of quotes: a loop that takes an
\* update finds no older price in the snapshot (aggregator.go:116-135).
THEOREM SnapshotCovers == Spec => []SnapshotCoversUpdate
<1>1. FeedInv => SnapshotCoversUpdate
  BY DEF FeedInv, InOrder, SnapshotCoversUpdate
<1>2. FeedInv /\ [Next]_vars => FeedInv'
  BY NextFeed
<1> QED  BY <1>1, <1>2, InitFeed, PTL DEF Spec

\* Neither the snapshot, nor the books, nor the loop ever go back.
THEOREM FeedNeverOlder == Spec => NeverOlder
<1>1. FeedInv /\ [Next]_vars => [\A e \in Exchanges : /\ prices'[e] >= prices[e]
                                                      /\ books'[e] >= books[e]
                                                      /\ received'[e] >= received[e]]_vars
  BY NextFeed
<1>2. FeedInv /\ [Next]_vars => FeedInv'
  BY NextFeed
<1> QED  BY <1>1, <1>2, InitFeed, PTL DEF Spec, NeverOlder

-----------------------------------------------------------------------------
(* Who writes on a connection. *)

WritersInv ==
    /\ writing \in [Exchanges -> SUBSET {"pinger", "reader"}]
    /\ \A e \in Exchanges : /\ "pinger" \in writing[e] => Protocol[e].pings
                            /\ "reader" \in writing[e] => Protocol[e].answers
    /\ panicked # Nothing /\ panicked.cause = "write"
         => /\ panicked.exchange \in Exchanges
            /\ Protocol[panicked.exchange].pings /\ Protocol[panicked.exchange].answers

\* The table of protocols.
LEMMA TwoWriters ==
  \A e \in Exchanges : Protocol[e].pings /\ Protocol[e].answers => e \in {"mexc", "bitget"}
  BY DEF Exchanges, Protocol, Binance, Kraken, Bybit, OKX, Gate, MEXC, Bitget, HTX, CryptoCom,
         KuCoin

LEMMA ClashWriters ==
  ASSUME WritersInv, NEW e \in Exchanges, NEW who \in {"pinger", "reader"}, Clash(e, who)
  PROVE  WritersInv'
<1>1. /\ writing' = writing /\ panicked' = [cause |-> "write", exchange |-> e]
      /\ writing[e] # {} /\ who \notin writing[e]
      /\ who = "pinger" => Protocol[e].pings
      /\ who = "reader" => Protocol[e].answers
  BY DEF Clash, WriteDue, connectors
<1>2. writing[e] \subseteq {"pinger", "reader"}
  BY DEF WritersInv
<1>3. Protocol[e].pings /\ Protocol[e].answers
  BY <1>1, <1>2 DEF WritersInv
<1> QED  BY <1>1, <1>3 DEF WritersInv

LEMMA NextWriters == WritersInv /\ [Next]_vars => WritersInv'
<1> SUFFICES ASSUME WritersInv, [Next]_vars PROVE WritersInv'
  OBVIOUS
<1>1. CASE UNCHANGED <<writing, panicked>>
  BY <1>1 DEF WritersInv
<1>2. ASSUME NEW e \in Exchanges, Disconnect(e) PROVE WritersInv'
  BY <1>2 DEF Disconnect, WritersInv
<1>3. ASSUME NEW e \in Exchanges, NEW who \in {"pinger", "reader"}, BeginWrite(e, who)
      PROVE  WritersInv'
  BY <1>3 DEF BeginWrite, WriteDue, WritersInv
<1>4. ASSUME NEW e \in Exchanges, NEW who \in {"pinger", "reader"}, EndWrite(e, who)
      PROVE  WritersInv'
  BY <1>4 DEF EndWrite, WritersInv
<1>5. ASSUME NEW e \in Exchanges, Connector(e) PROVE WritersInv'
  BY <1>1, <1>2, <1>3, <1>4, <1>5, ClashWriters
  DEF Connector, Connect, SetUp, Reconnect, ReadFrame
<1>6. ASSUME NEW e \in Exchanges, Drain(e) \/ DrainBook(e) PROVE WritersInv'
  BY <1>1, <1>6 DEF Drain, DrainStore, DrainOffer, DrainBook, connectors
<1>7. CASE TakeUpdate
  BY <1>1, <1>7 DEF TakeUpdate, connectors
<1>8. CASE UNCHANGED vars
  BY <1>1, <1>8 DEF vars, connectors
<1> QED  BY <1>5, <1>6, <1>7, <1>8 DEF Next

\* Two goroutines meet in a write on MEXC's and Bitget's connections only.
THEOREM OnlyTwoClash == Spec => []ClashOnlyAtTwo
<1>1. Init => WritersInv
  BY DEF Init, WritersInv
<1>2. WritersInv => ClashOnlyAtTwo
  BY TwoWriters DEF WritersInv, ClashOnlyAtTwo
<1> QED  BY <1>1, <1>2, NextWriters, PTL DEF Spec
-----------------------------------------------------------------------------
(* Types and capacities. *)

FeedBounds ==
    /\ TypeOK
    /\ stage \in [Exchanges -> Int]
    /\ ch \in [Exchanges -> Seq(Quotes)] /\ bookCh \in [Exchanges -> Seq(Quotes)]

\* A queue that is offered an element grows by it or, when it is full, not.
LEMMA OfferedTypes ==
  ASSUME NEW S, NEW q \in Seq(S), NEW x \in S, NEW cap \in Nat, Len(q) <= cap
  PROVE  Offered(q, x, cap) \in Seq(S) /\ Len(Offered(q, x, cap)) <= cap
  BY DEF Offered

LEMMA HeadTailTypes ==
  ASSUME NEW S, NEW q \in Seq(S), q # <<>>
  PROVE  Head(q) \in S /\ Tail(q) \in Seq(S) /\ Len(Tail(q)) = Len(q) - 1 /\ Len(q) \in Nat
  OBVIOUS

LEMMA QueuesTypes ==
  ASSUME NEW S, NEW f \in [Exchanges -> Seq(S)], NEW cap \in Nat,
         \A x \in Exchanges : Len(f[x]) <= cap,
         NEW e \in Exchanges, NEW q \in Seq(S), Len(q) <= cap
  PROVE  /\ [f EXCEPT ![e] = q] \in [Exchanges -> Seq(S)]
         /\ \A x \in Exchanges : Len([f EXCEPT ![e] = q][x]) <= cap
  OBVIOUS

LEMMA SetupLengths == \A e \in Exchanges : Len(Protocol[e].setup) \in Nat
  BY DEF Exchanges, Protocol, Binance, Kraken, Bybit, OKX, Gate, MEXC, Bitget, HTX, CryptoCom,
         KuCoin

LEMMA StageTypes ==
  ASSUME FeedBounds, NEW e \in Exchanges, NEW k \in 0 .. Len(Protocol[e].setup) + 1,
         stage' = [stage EXCEPT ![e] = k]
  PROVE  /\ stage' \in [Exchanges -> Int]
         /\ \A x \in Exchanges : stage'[x] \in Idle .. Len(Protocol[x].setup) + 1
<1>1. stage \in [Exchanges -> Int] /\ k \in Int
  BY SetupLengths DEF FeedBounds
<1>2. k \in Idle .. Len(Protocol[e].setup) + 1
  BY SetupLengths DEF Idle
<1>3. \A x \in Exchanges : stage'[x] = IF x = e THEN k ELSE stage[x]
  BY <1>1
<1> QED  BY <1>1, <1>2, <1>3 DEF FeedBounds, TypeOK

LEMMA ReadFrameBounds ==
  ASSUME FeedBounds, NEW e \in Exchanges, ReadFrame(e)
  PROVE  FeedBounds'
<1> DEFINE c == Offered(ch[e], sent[e] + 1, ChCap)
           b == Offered(bookCh[e], sent[e] + 1, ChCap)
<1>1. /\ sent' = [sent EXCEPT ![e] = sent[e] + 1] /\ sent[e] < MaxQuotes
      /\ UNCHANGED <<stage, attempt, writing, prices, books, holding, out, received, panicked>>
      /\ ch' = ch \/ ch' = [ch EXCEPT ![e] = c]
      /\ bookCh' = bookCh \/ bookCh' = [bookCh EXCEPT ![e] = b]
  BY DEF ReadFrame, aggregator
<1>2. sent[e] + 1 \in Quotes /\ sent' \in [Exchanges -> 0 .. MaxQuotes]
  BY <1>1, FeedConstants DEF FeedBounds, TypeOK, Quotes
<1>3. c \in Seq(Quotes) /\ Len(c) <= ChCap /\ b \in Seq(Quotes) /\ Len(b) <= ChCap
  BY <1>2, OfferedTypes, FeedConstants DEF FeedBounds, TypeOK
<1> HIDE DEF c, b
<1>4. /\ ch' \in [Exchanges -> Seq(Quotes)] /\ \A x \in Exchanges : Len(ch'[x]) <= ChCap
      /\ bookCh' \in [Exchanges -> Seq(Quotes)] /\ \A x \in Exchanges : Len(bookCh'[x]) <= ChCap
  <2>1. /\ ChCap \in Nat
        /\ ch \in [Exchanges -> Seq(Quotes)] /\ \A x \in Exchanges : Len(ch[x]) <= ChCap
        /\ bookCh \in [Exchanges -> Seq(Quotes)] /\ \A x \in Exchanges : Len(bookCh[x]) <= ChCap
    BY FeedConstants DEF FeedBounds, TypeOK
  <2>2. /\ [ch EXCEPT ![e] = c] \in [Exchanges -> Seq(Quotes)]
        /\ \A x \in Exchanges : Len([ch EXCEPT ![e] = c][x]) <= ChCap
    BY <1>3, <2>1, QueuesTypes
  <2>3. /\ [bookCh EXCEPT ![e] = b] \in [Exchanges -> Seq(Quotes)]
        /\ \A x \in Exchanges : Len([bookCh EXCEPT ![e] = b][x]) <= ChCap
    BY <1>3, <2>1, QueuesTypes
  <2> QED  BY <1>1, <2>1, <2>2, <2>3, Zenon
<1> QED  BY <1>1, <1>2, <1>4 DEF FeedBounds, TypeOK

LEMMA ConnectorBounds ==
  ASSUME FeedBounds, NEW e \in Exchanges, Connector(e)
  PROVE  FeedBounds'
<1> DEFINE steps == Len(Protocol[e].setup)
<1>1. steps \in Nat
  BY SetupLengths
<1>2. CASE Connect(e) \/ SetUp(e)
  <2>1. \E k \in 0 .. steps + 1 : stage' = [stage EXCEPT ![e] = k]
    <3>1. CASE Connect(e)
      <4>1. 1 \in 0 .. steps + 1
        BY <1>1
      <4> QED  BY <3>1, <4>1 DEF Connect
    <3>2. CASE SetUp(e)
      <4>1. stage[e] >= 1 /\ stage[e] # steps + 1 /\ stage[e] \in Idle .. steps + 1
        BY <3>2 DEF SetUp, Reading, FeedBounds, TypeOK
      <4>2. stage[e] + 1 \in 0 .. steps + 1
        BY <1>1, <4>1 DEF Idle
      <4> QED  BY <3>2, <4>2 DEF SetUp
    <3> QED  BY <1>2, <3>1, <3>2
  <2>2. UNCHANGED <<attempt, writing, sent, ch, bookCh, aggregator, received, panicked>>
    BY <1>2 DEF Connect, SetUp
  <2>3. /\ stage' \in [Exchanges -> Int]
        /\ \A x \in Exchanges : stage'[x] \in Idle .. Len(Protocol[x].setup) + 1
    BY <2>1, StageTypes
  <2> QED  BY <2>2, <2>3 DEF FeedBounds, TypeOK, aggregator
<1>3. CASE Disconnect(e) \/ Reconnect(e)
  <2>1. \E k \in 0 .. steps + 1 : stage' = [stage EXCEPT ![e] = k]
    <3>1. 0 \in 0 .. steps + 1 /\ 1 \in 0 .. steps + 1
      BY <1>1
    <3> QED  BY <1>3, <3>1 DEF Disconnect, Reconnect, Waiting
  <2>2. /\ stage' \in [Exchanges -> Int]
        /\ \A x \in Exchanges : stage'[x] \in Idle .. Len(Protocol[x].setup) + 1
    BY <2>1, StageTypes
  <2>3. attempt' \in [Exchanges -> 0 .. MaxAttempts]
    <3>1. attempt[e] \in 0 .. MaxAttempts /\ attempt \in [Exchanges -> 0 .. MaxAttempts]
      BY DEF FeedBounds, TypeOK
    <3>2. CASE Disconnect(e)
      BY <3>1, <3>2 DEF Disconnect
    <3>3. CASE Reconnect(e)
      <4>1. attempt[e] + 1 \in 0 .. MaxAttempts
        BY <3>1, <3>3, FeedConstants DEF Reconnect
      <4> QED  BY <3>1, <3>3, <4>1 DEF Reconnect
    <3> QED  BY <1>3, <3>2, <3>3
  <2>4. writing' \in [Exchanges -> SUBSET {"pinger", "reader"}]
    BY <1>3 DEF Disconnect, Reconnect, FeedBounds, TypeOK
  <2>5. panicked' \in {Nothing} \cup [cause : {"backoff", "write"}, exchange : Exchanges]
    BY <1>3 DEF Disconnect, Reconnect, FeedBounds, TypeOK
  <2>6. UNCHANGED <<sent, ch, bookCh, aggregator, received>>
    BY <1>3 DEF Disconnect, Reconnect
  <2> QED  BY <2>2, <2>3, <2>4, <2>5, <2>6 DEF FeedBounds, TypeOK, aggregator
<1>4. ASSUME NEW who \in {"pinger", "reader"}, BeginWrite(e, who) \/ Clash(e, who) \/ EndWrite(e, who)
      PROVE  FeedBounds'
  <2>1. /\ UNCHANGED <<stage, attempt, sent, ch, bookCh, aggregator, received>>
        /\ writing' \in [Exchanges -> SUBSET {"pinger", "reader"}]
        /\ panicked' \in {Nothing} \cup [cause : {"backoff", "write"}, exchange : Exchanges]
    <3>1. writing \in [Exchanges -> SUBSET {"pinger", "reader"}]
          /\ panicked \in {Nothing} \cup [cause : {"backoff", "write"}, exchange : Exchanges]
      BY DEF FeedBounds, TypeOK
    <3>2. CASE BeginWrite(e, who)
      BY <3>1, <3>2 DEF BeginWrite
    <3>3. CASE Clash(e, who)
      BY <3>1, <3>3 DEF Clash, connectors
    <3>4. CASE EndWrite(e, who)
      BY <3>1, <3>4 DEF EndWrite
    <3> QED  BY <1>4, <3>2, <3>3, <3>4
  <2> QED  BY <2>1 DEF FeedBounds, TypeOK, aggregator
<1> QED  BY <1>2, <1>3, <1>4, ReadFrameBounds DEF Connector

LEMMA DrainBounds ==
  ASSUME FeedBounds, NEW e \in Exchanges, Drain(e) \/ DrainBook(e)
  PROVE  FeedBounds'
<1>1. CASE DrainStore(e)
  <2>1. Head(ch[e]) \in Quotes /\ Tail(ch[e]) \in Seq(Quotes) /\ Len(Tail(ch[e])) <= ChCap
    BY <1>1, HeadTailTypes, FeedConstants DEF DrainStore, FeedBounds, TypeOK
  <2>2. Head(ch[e]) \in 0 .. MaxQuotes
    BY <2>1, FeedConstants DEF Quotes
  <2>3. /\ prices' \in [Exchanges -> 0 .. MaxQuotes] /\ holding' \in [Exchanges -> 0 .. MaxQuotes]
        /\ ch' \in [Exchanges -> Seq(Quotes)] /\ \A x \in Exchanges : Len(ch'[x]) <= ChCap
        /\ UNCHANGED <<connectors, bookCh, books, out, received, panicked>>
    BY <1>1, <2>1, <2>2 DEF DrainStore, FeedBounds, TypeOK
  <2> QED  BY <2>3 DEF FeedBounds, TypeOK, connectors
<1>2. CASE DrainOffer(e)
  <2> DEFINE u == [exchange |-> e, quote |-> holding[e]]
  <2>1. u \in [exchange : Exchanges, quote : Quotes]
    <3>1. holding[e] \in Quotes
      BY <1>2, FeedConstants DEF DrainOffer, FeedBounds, TypeOK, Quotes
    <3> QED  BY <3>1
  <2>2. /\ Offered(out, u, OutCap) \in Seq([exchange : Exchanges, quote : Quotes])
        /\ Len(Offered(out, u, OutCap)) <= OutCap
    BY <2>1, OfferedTypes, FeedConstants DEF FeedBounds, TypeOK
  <2>3. /\ holding' \in [Exchanges -> 0 .. MaxQuotes] /\ out' = Offered(out, u, OutCap)
        /\ UNCHANGED <<connectors, ch, bookCh, prices, books, received, panicked>>
    BY <1>2, FeedConstants DEF DrainOffer, FeedBounds, TypeOK
  <2> HIDE DEF u
  <2> QED  BY <2>2, <2>3 DEF FeedBounds, TypeOK, connectors
<1>3. CASE DrainBook(e)
  <2>1. Head(bookCh[e]) \in Quotes /\ Tail(bookCh[e]) \in Seq(Quotes) /\ Len(Tail(bookCh[e])) <= ChCap
    BY <1>3, HeadTailTypes, FeedConstants DEF DrainBook, FeedBounds, TypeOK
  <2>2. Head(bookCh[e]) \in 0 .. MaxQuotes
    BY <2>1, FeedConstants DEF Quotes
  <2>3. /\ books' \in [Exchanges -> 0 .. MaxQuotes]
        /\ bookCh' \in [Exchanges -> Seq(Quotes)] /\ \A x \in Exchanges : Len(bookCh'[x]) <= ChCap
        /\ UNCHANGED <<connectors, ch, prices, holding, out, received, panicked>>
    BY <1>3, <2>1, <2>2 DEF DrainBook, FeedBounds, TypeOK
  <2> QED  BY <2>3 DEF FeedBounds, TypeOK, connectors
<1> QED  BY <1>1, <1>2, <1>3 DEF Drain

LEMMA NextBounds == FeedBounds /\ [Next]_vars => FeedBounds'
<1> SUFFICES ASSUME FeedBounds, [Next]_vars PROVE FeedBounds'
  OBVIOUS
<1>1. CASE TakeUpdate
  <2> DEFINE U == [exchange : Exchanges, quote : Quotes]
  <2>1. Head(out) \in U /\ Tail(out) \in Seq(U) /\ Len(Tail(out)) <= OutCap
    <3>1. out \in Seq(U) /\ out # <<>> /\ Len(out) <= OutCap /\ OutCap \in Nat
      BY <1>1, FeedConstants DEF TakeUpdate, FeedBounds, TypeOK
    <3> HIDE DEF U
    <3>2. Head(out) \in U /\ Tail(out) \in Seq(U) /\ Len(Tail(out)) = Len(out) - 1 /\ Len(out) \in Nat
      BY <3>1, HeadTailTypes
    <3> QED  BY <3>1, <3>2
  <2>2. Head(out).exchange \in Exchanges /\ Head(out).quote \in 0 .. MaxQuotes
    BY <2>1, FeedConstants DEF Quotes
  <2>3. /\ received' \in [Exchanges -> 0 .. MaxQuotes] /\ out' = Tail(out)
        /\ UNCHANGED <<connectors, ch, bookCh, prices, books, holding, panicked>>
    BY <1>1, <2>2 DEF TakeUpdate, FeedBounds, TypeOK
  <2> QED  BY <2>1, <2>3 DEF FeedBounds, TypeOK, connectors
<1>2. CASE UNCHANGED vars
  BY <1>2 DEF vars, connectors, aggregator, FeedBounds, TypeOK
<1> QED  BY <1>1, <1>2, ConnectorBounds, DrainBounds DEF Next

\* The channels of the connectors and of the aggregator stay within their
\* capacities and no quote is made up on the way: for any capacities, numbers
\* of quotes and sets of exchanges that run together.
THEOREM TypeCorrect == Spec => []TypeOK
<1>1. Init => FeedBounds
  <2> SUFFICES ASSUME Init PROVE FeedBounds
    OBVIOUS
  <2>1. /\ stage \in [Exchanges -> Int]
        /\ \A e \in Exchanges : stage[e] \in Idle .. Len(Protocol[e].setup) + 1
    BY SetupLengths DEF Init, Idle
  <2>2. 0 \in 0 .. MaxQuotes /\ 0 \in 0 .. MaxAttempts /\ 0 <= ChCap /\ 0 <= OutCap
    BY FeedConstants
  <2> QED  BY <2>1, <2>2 DEF Init, FeedBounds, TypeOK
<1>2. FeedBounds => TypeOK
  BY DEF FeedBounds
<1> QED  BY <1>1, <1>2, NextBounds, PTL DEF Spec
=============================================================================
