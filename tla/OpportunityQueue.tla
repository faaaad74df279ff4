-------------------------- MODULE OpportunityQueue --------------------------
(***************************************************************************)
(* What the engine's queue promises, whatever structure holds it:          *)
(* DequeueTop hands out a best-scored opportunity among those detected at  *)
(* most TTL ago, and throws away only opportunities that are too old.      *)
(***************************************************************************)
EXTENDS Integers

CONSTANTS
    TTL,     \* engine.Config.OpportunityTTL
    Nothing  \* what DequeueTop hands out when it finds no opportunity

VARIABLES
    pending,  \* the opportunities in the queue, records with score and detectedAt
    handed,   \* what the step just made handed out, or Nothing
    now

vars == <<pending, handed, now>>

TooOld(opp) == now - opp.detectedAt > TTL
Fresh == {opp \in pending : ~TooOld(opp)}

Init ==
    /\ pending = {}
    /\ handed = Nothing
    /\ now = 0

Enqueue ==
    /\ \A opp \in pending : opp \in pending'
    /\ \A opp \in pending' \ pending : opp.detectedAt = now
    /\ handed' = Nothing
    /\ UNCHANGED now

\* Everything scored above the opportunity handed out was too old and is
\* gone; opportunities scored below it stay, however old.
HandOut(opp) ==
    /\ \A other \in Fresh : other.score <= opp.score
    /\ handed' = opp
    /\ opp \notin pending'
    /\ pending' \subseteq pending
    /\ \A gone \in pending \ (pending' \cup {opp}) :
         TooOld(gone) /\ gone.score >= opp.score
    /\ \A kept \in pending' : kept.score <= opp.score
    /\ UNCHANGED now

FindNothing ==
    /\ Fresh = {}
    /\ pending' = {}
    /\ handed' = Nothing
    /\ UNCHANGED now

DequeueTop == FindNothing \/ \E opp \in Fresh : HandOut(opp)

TimePasses ==
    /\ now' > now
    /\ handed' = Nothing
    /\ UNCHANGED pending

Next == Enqueue \/ DequeueTop \/ TimePasses

Spec == Init /\ [][Next]_vars

=============================================================================
