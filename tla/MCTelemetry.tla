---------------------------- MODULE MCTelemetry ----------------------------
(***************************************************************************)
(* Two processes over a month boundary: three days, the third of which is  *)
(* in the second month; up to two calls a day, the second over the cap.    *)
(* Receipts are kept for a day, so on the third those of the first go.     *)
(***************************************************************************)
EXTENDS Telemetry, TLC

CONSTANTS p1, p2

MCProcs == {p1, p2}
MCSymmetry == Permutations(MCProcs)
=============================================================================
