----------------------------- MODULE BookFills -----------------------------
(***************************************************************************)
(* What a caller may expect of a walk of an order book: it fills at most   *)
(* what was asked for, at an average price no better and no worse than the *)
(* prices of the book.  Shared by DepthWalk, which shows it of the walk,   *)
(* and Executor, which relies on it.                                       *)
(***************************************************************************)
EXTENDS Integers

Fills(volume, minPrice, maxPrice) ==
    UNION {{[filled |-> q, cost |-> c] : c \in q * minPrice .. q * maxPrice} :
             q \in 0 .. volume}

=============================================================================
