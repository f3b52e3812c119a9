------------------------- MODULE MCVoltageAnalysis -------------------------
(***************************************************************************)
(* VoltageAnalysis for TLC: one or two of the three sensors, readings      *)
(* below, on and above the limits of 207 V and 253 V.                      *)
(***************************************************************************)
EXTENDS VoltageAnalysis

CONSTANTS l1, l2

OnePhase == <<l1>>
TwoPhases == <<l1, l2>>
=============================================================================
