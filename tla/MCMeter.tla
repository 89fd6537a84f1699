------------------------------ MODULE MCMeter ------------------------------
(***************************************************************************)
(* Two overlapping requests and two windows a week.  The clock runs over   *)
(* one and a half weeks, so that windows age out while others are open.    *)
(***************************************************************************)
EXTENDS Meter, TLC

CONSTANTS r1, r2

MCRequests == {r1, r2}
MCSymmetry == Permutations(MCRequests)
=============================================================================
