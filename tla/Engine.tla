------------------------------- MODULE Engine -------------------------------
(***************************************************************************)
(* internal/engine: opportunities of all strategies in one binary max-heap *)
(* (container/heap over oppHeap), drained by DequeueTop.  The processing   *)
(* loop is the only goroutine that touches the heap, so ProcessUpdate and  *)
(* DequeueTop are one action each.                                         *)
(*                                                                         *)
(* What a strategy detects is an input: an update yields a list of scores, *)
(* in the order the strategies return them.                                *)
(***************************************************************************)
EXTENDS OppHeap

CONSTANTS
    Scores,      \* values of Opportunity.Score
    TTL,         \* Config.OpportunityTTL
    MaxDetected, \* bound: opportunities one update yields
    MaxOpps,     \* bound: opportunities detected in all
    Horizon,     \* bound: the clock stops there
    Nothing

ASSUME EngineConstants ==
    /\ Scores \subseteq Int
    /\ TTL \in Nat /\ MaxDetected \in Nat /\ MaxOpps \in Nat /\ Horizon \in Nat

VARIABLES
    pq,        \* oppHeap: items with an opportunity and its index
    detected,  \* number of opportunities detected so far: the next ID
    handed,    \* what the step just made returned, or Nothing
    now

vars == <<pq, detected, handed, now>>

-----------------------------------------------------------------------------
Init ==
    /\ pq = <<>>
    /\ detected = 0
    /\ handed = Nothing
    /\ now = 0

Opp(id, score) == [id |-> id, score |-> score, detectedAt |-> now]

PushPass(s, scores) ==
    IF s.pushed = Len(scores) THEN s
    ELSE LET k == s.pushed + 1
         IN [heap |-> Push(s.heap, Opp(detected + k, scores[k])), pushed |-> k]

ProcessUpdate(scores) ==
    /\ detected + Len(scores) <= MaxOpps
    /\ pq' = Repeat([s \in [heap : Seq(Item), pushed : Nat] |-> PushPass(s, scores)],
                    [heap |-> pq, pushed |-> 0], Len(scores)).heap
    /\ detected' = detected + Len(scores)
    /\ handed' = Nothing
    /\ UNCHANGED now

\* The loop of DequeueTop throws away what is too old.
TooOld(h) == now - h[1].opp.detectedAt > TTL
DiscardPass(h) == IF h # <<>> /\ TooOld(h) THEN PopRest(h) ELSE h

DequeueTop ==
    /\ LET rest == Repeat([h \in Seq(Item) |-> DiscardPass(h)], pq, Len(pq)) IN
         /\ pq' = IF rest = <<>> THEN rest ELSE PopRest(rest)
         /\ handed' = IF rest = <<>> THEN Nothing ELSE rest[1].opp
    /\ UNCHANGED <<detected, now>>

Tick ==
    /\ now < Horizon
    /\ now' = now + 1
    /\ handed' = Nothing
    /\ UNCHANGED <<pq, detected>>

Next ==
    \/ \E k \in 1 .. MaxDetected : \E scores \in [1 .. k -> Scores] : ProcessUpdate(scores)
    \/ DequeueTop
    \/ Tick

Spec == Init /\ [][Next]_vars

-----------------------------------------------------------------------------
\* Every item's index is its position, through every sift of every push and
\* pop (heap.go Swap, Push, Pop): container/heap's Fix and Remove would act
\* on the wrong item otherwise.
IndexIsPosition == \A i \in DOMAIN pq : pq[i].index = i - 1

(***************************************************************************)
(* The heap implements the queue: the refinement contains the heap order,  *)
(* for a sift that leaves it would some later DequeueTop hand out the      *)
(* wrong opportunity.                                                      *)
(***************************************************************************)
Queue == INSTANCE OpportunityQueue
    WITH pending <- {pq[i].opp : i \in DOMAIN pq}

\* DequeueTop hands out a best fresh opportunity and drops only stale ones
\* (engine.go:91-105 with heap.go).
ImplementsQueue == Queue!Spec

=============================================================================
