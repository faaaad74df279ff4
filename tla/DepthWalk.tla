----------------------------- MODULE DepthWalk -----------------------------
(***************************************************************************)
(* internal/depth/depth.go: the synthetic books and the walk of a book,    *)
(* one action for each pass of the walk's loop; and the executor's choice  *)
(* of the book to walk.                                                    *)
(*                                                                         *)
(* Prices and quantities are integers.  Walk returns costSum / filled, and *)
(* its caller multiplies by filled again: the cost is kept instead.        *)
(***************************************************************************)
EXTENDS BookFills, Sequences, Functions

CONSTANTS
    MinPrice, MaxPrice,  \* range of the prices in books
    Quotes,              \* best prices a made-up book may start from
    N, Step,             \* Config.N, and the price step of one level
    MinQty, MaxQty,      \* Config.MinQtyBTC and MaxQtyBTC
    RealBooks,           \* by side, the books the aggregator may hold, best first
    Targets              \* volumes to fill

Sides == {"ask", "bid"}
Prices == MinPrice .. MaxPrice
Level == [price : Prices, qty : Nat]

ASSUME WalkConstants ==
    /\ MinPrice \in Nat /\ MaxPrice \in Nat
    /\ Quotes \subseteq Prices
    /\ N \in Nat \ {0} /\ Step \in Nat
    /\ MinQty \in Nat /\ MaxQty \in Nat
    /\ RealBooks \in [Sides -> SUBSET Seq(Level)]
    /\ Targets \subseteq Nat
    /\ \A bbo \in Quotes : bbo + Step * (N - 1) \in Prices /\ bbo - Step * (N - 1) \in Prices

VARIABLES
    side,
    levels,  \* the book
    target,
    next,    \* the level the loop comes to next
    filled,
    costSum,
    pc       \* "loop" or "done"

vars == <<side, levels, target, next, filled, costSum, pc>>

Quantities == [1 .. N -> MinQty .. MaxQty]

\* The books AskLevels may make up: each level a step worse than the last.
AskLevels(bbo) ==
    {[k \in 1 .. N |-> [price |-> bbo + Step * (k - 1), qty |-> qty[k]]] : qty \in Quantities}

BidLevelsOneBelow(bbo) ==
    {[k \in 1 .. N |-> [price |-> bbo - Step * k, qty |-> qty[k]]] : qty \in Quantities}
BidLevelsRising(bbo) ==
    {[k \in 1 .. N |-> [price |-> bbo + Step * (k - 1), qty |-> qty[k]]] : qty \in Quantities}
BidLevels(bbo) ==
    {[k \in 1 .. N |-> [price |-> bbo - Step * (k - 1), qty |-> qty[k]]] : qty \in Quantities}

\* getAskLevels and getBidLevels: the real book, or a made-up one when the
\* aggregator has none.
LevelsFor(s, bbo) ==
    LET real == RealBooks[s] \ {<<>>}
    IN real \cup (IF s = "ask" THEN AskLevels(bbo) ELSE BidLevels(bbo))

Init ==
    /\ side \in Sides
    /\ \E bbo \in Quotes : levels \in LevelsFor(side, bbo)
    /\ target \in Targets
    /\ next = 1
    /\ filled = 0
    /\ costSum = 0
    /\ pc = "loop"

RemainingUncounted == target
Remaining == target - filled

Take ==
    /\ pc = "loop"
    /\ next <= Len(levels)
    /\ Remaining > 0
    /\ LET qty == levels[next].qty
           take == IF qty <= Remaining THEN qty ELSE Remaining
       IN /\ filled' = filled + take
          /\ costSum' = costSum + take * levels[next].price
    /\ next' = next + 1
    /\ UNCHANGED <<side, levels, target, pc>>

ReturnAtLastLevel ==
    /\ pc = "loop"
    /\ next >= Len(levels) \/ Remaining <= 0
    /\ pc' = "done"
    /\ UNCHANGED <<side, levels, target, next, filled, costSum>>

Return ==
    /\ pc = "loop"
    /\ next > Len(levels) \/ Remaining <= 0
    /\ pc' = "done"
    /\ UNCHANGED <<side, levels, target, next, filled, costSum>>

partial == filled < target

Next == Take \/ Return

Spec == Init /\ [][Next]_vars

-----------------------------------------------------------------------------
TypeOK ==
    /\ side \in Sides
    /\ levels \in Seq(Level)
    /\ target \in Nat
    /\ next \in 1 .. Len(levels) + 1
    /\ filled \in Nat
    /\ costSum \in Nat
    /\ pc \in {"loop", "done"}

\* The walk hands its caller what the executor's accounting rests on: never
\* more than was asked for, and a cost within the prices of the book
\* (executor.go:161, 184).
ReturnsFill == [filled |-> filled, cost |-> costSum] \in Fills(target, MinPrice, MaxPrice)

\* A partial fill is reported exactly when the book is too thin: the walk
\* never gives up while liquidity is left, nor claims more than there is.
Total(amounts) == SumFunction(amounts)
PartialMeansThin ==
    LET depth == Total([k \in DOMAIN levels |-> levels[k].qty])
    IN pc = "done" =>
         /\ partial <=> depth < target
         /\ partial => filled = depth

\* No other way to fill the same volume from this book is cheaper (asks) or
\* brings in more (bids): real and made-up books alike are walked best first.
OtherWays ==
    {w \in [DOMAIN levels -> 0 .. target] :
       /\ \A k \in DOMAIN levels : w[k] <= levels[k].qty
       /\ Total(w) = filled}
Value(w) == Total([k \in DOMAIN levels |-> w[k] * levels[k].price])
BestPrice ==
    pc = "done" => \A w \in OtherWays :
        IF side = "ask" THEN Value(w) >= costSum ELSE Value(w) <= costSum

=============================================================================
