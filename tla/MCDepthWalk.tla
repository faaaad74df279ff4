---------------------------- MODULE MCDepthWalk ----------------------------
(* A small instance of DepthWalk for TLC: every book of up to three levels. *)
EXTENDS DepthWalk

Books(Better(_, _)) ==
    {book \in UNION {[1 .. n -> [price : 1 .. 3, qty : 0 .. 2]] : n \in 0 .. 3} :
       \A j, k \in DOMAIN book : j < k => Better(book[j].price, book[k].price)}
MCRealBooks == [ask |-> Books(<), bid |-> Books(>)]
=============================================================================
