------------------------------- MODULE OppHeap -------------------------------
(***************************************************************************)
(* internal/engine/heap.go: oppHeap, and what container/heap's Push and    *)
(* Pop make of it.  Go's indices start at 0, a sequence's at 1; the field  *)
(* "index" of an item keeps Go's value.                                    *)
(*                                                                         *)
(* A sift is a loop: a pass, as a function of the loop's state, that        *)
(* changes nothing once the loop has broken off, is repeated.               *)
(***************************************************************************)
EXTENDS Integers, Sequences, SequencesExt

Opportunity == [id : Nat, score : Int, detectedAt : Nat]
Item == [opp : Opportunity, index : Int]

Repeat(pass, s, times) ==
    LET after[k \in 0 .. times] == IF k = 0 THEN s ELSE pass[after[k - 1]]
    IN after[times]

-----------------------------------------------------------------------------
\* oppHeap.Less: the greater score comes first.
Less(h, i, j) == h[i].opp.score > h[j].opp.score

\* oppHeap.Swap.
SwapForgetsIndex(h, i, j) == [h EXCEPT ![i] = h[j], ![j] = h[i]]
Swap(h, i, j) ==
    [h EXCEPT ![i] = [opp |-> h[j].opp, index |-> i - 1],
              ![j] = [opp |-> h[i].opp, index |-> j - 1]]

\* container/heap: up and down, on a heap and the position of what is sifted.
Sifting == [heap : Seq(Item), at : Nat]

UpPass(s) ==
    LET parent == s.at \div 2 IN
    IF s.at = 1 \/ ~Less(s.heap, s.at, parent) THEN s
    ELSE [heap |-> Swap(s.heap, s.at, parent), at |-> parent]

Up(h, j) == Repeat([s \in Sifting |-> UpPass(s)], [heap |-> h, at |-> j], j).heap

DownPassLeftOnly(s, n) ==
    LET child == 2 * s.at IN
    IF child > n \/ ~Less(s.heap, child, s.at) THEN s
    ELSE [heap |-> Swap(s.heap, s.at, child), at |-> child]

DownPass(s, n) ==
    LET left == 2 * s.at
        child == IF left < n /\ Less(s.heap, left + 1, left) THEN left + 1 ELSE left
    IN IF left > n \/ ~Less(s.heap, child, s.at) THEN s
       ELSE [heap |-> Swap(s.heap, s.at, child), at |-> child]

Down(h, i, n) == Repeat([s \in Sifting |-> DownPass(s, n)], [heap |-> h, at |-> i], n).heap

\* heap.Push and oppHeap.Push.
Push(h, opp) ==
    Up(Append(h, [opp |-> opp, index |-> Len(h)]), Len(h) + 1)

\* heap.Pop and oppHeap.Pop: the heap that stays behind once h[1] is taken.
PopRest(h) ==
    LET n == Len(h) IN Front(Down(Swap(h, 1, n), 1, n - 1))
=============================================================================
