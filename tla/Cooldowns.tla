------------------------------ MODULE Cooldowns ------------------------------
(***************************************************************************)
(* What internal/strategy/funding and internal/strategy/triangular have in *)
(* common: once it has emitted an opportunity, each waits for its          *)
(* EmitCooldown before it emits another one like it.                       *)
(***************************************************************************)
EXTENDS FundingStrategy, TriangularStrategy

\* Two emissions of a directed pair, from the lowest rate to the highest, are a
\* cooldown apart, whatever was emitted in between and however often the rates
\* were polled (funding.go:151, 166-172).
FundingSpaced ==
    \A i, j \in DOMAIN fundingOpps :
      i < j /\ fundingOpps[i].pair = fundingOpps[j].pair
        => fundingOpps[j].at - fundingOpps[i].at >= FundingCooldown

\* Two emissions of a market are a cooldown apart, whatever was emitted in
\* between and however often its prices drifted (triangular.go:189-198).
CyclesSpaced ==
    \A i, j \in DOMAIN cycleOpps :
      i < j /\ cycleOpps[i].market = cycleOpps[j].market
        => cycleOpps[j].at - cycleOpps[i].at >= CycleCooldown

\* No strategy floods the queue with the opportunity it has just emitted.  The
\* same two venues the other way round are another opportunity to the code; to
\* funding.go:150, funding.go:24 and docs/configuracion.md:53 they are not.
EmissionsSpaced == FundingSpaced /\ CyclesSpaced
=============================================================================
