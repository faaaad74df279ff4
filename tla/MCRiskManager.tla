---------------------------- MODULE MCRiskManager ----------------------------
(* A small instance of RiskManager for TLC. *)
EXTENDS RiskManager

MCNetPcts == {-1, 0, 1}
MCPositions == {1, 2}
MCLossNs == {0, 1, 2, 3}
=============================================================================
