--------------------------- MODULE CircuitBreaker ---------------------------
(***************************************************************************)
(* What the risk manager promises, without its lazy state machine: a       *)
(* breaker with a timer.  While the timer runs every trade is refused and  *)
(* no result counts; otherwise results count towards the streak, and the   *)
(* loss that brings the streak to the limit starts the timer.  The timer   *)
(* ends by itself: nobody has to call the breaker for it to open again.    *)
(*                                                                         *)
(* What a loss is, and that losses are counted, is the code's promise      *)
(* (risk.go:104-130): a result below the threshold, by itself.  Two        *)
(* documents promise another one, a breaker that compares the sum of the   *)
(* streak's losses (docs/configuracion.md:74, docs/dashboard.md:246).      *)
(***************************************************************************)
EXTENDS Integers

CONSTANT PauseDuration   \* how long the breaker refuses trades once tripped

VARIABLES
    streak,         \* losses in a row since the last win or the last trip
    limit,          \* losses in a row that trip the breaker
    blockedUntil,   \* the instant the timer ends
    now,            \* the clock
    answer          \* whether the step just made told a trade to go ahead

vars == <<streak, limit, blockedUntil, now, answer>>

Blocked == now < blockedUntil

Init ==
    /\ streak = 0
    /\ limit \in Int
    /\ blockedUntil = 0
    /\ now = 0
    /\ answer = FALSE

Win ==
    /\ ~Blocked
    /\ streak' = 0
    /\ answer' = FALSE
    /\ UNCHANGED <<limit, blockedUntil, now>>

CountLoss ==
    /\ ~Blocked
    /\ streak + 1 < limit
    /\ streak' = streak + 1
    /\ answer' = FALSE
    /\ UNCHANGED <<limit, blockedUntil, now>>

Trip ==
    /\ ~Blocked
    /\ streak + 1 >= limit
    /\ streak' = 0
    /\ blockedUntil' = now + PauseDuration
    /\ answer' = FALSE
    /\ UNCHANGED <<limit, now>>

Ask ==
    /\ answer' \in {FALSE, ~Blocked}
    /\ UNCHANGED <<streak, limit, blockedUntil, now>>

Retune ==
    /\ limit' \in Int
    /\ answer' = FALSE
    /\ UNCHANGED <<streak, blockedUntil, now>>

TimePasses ==
    /\ now' > now
    /\ answer' = FALSE
    /\ UNCHANGED <<streak, limit, blockedUntil>>

Next == Win \/ CountLoss \/ Trip \/ Ask \/ Retune \/ TimePasses

Spec == Init /\ [][Next]_vars

=============================================================================
