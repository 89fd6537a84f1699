---------------------------- MODULE MCUpdateCheck -----------------------------
(* Two processes, two versions, days of two ticks and a soak of two. *)
EXTENDS UpdateCheck, TLC

CONSTANTS p1, p2

MCProcesses == {p1, p2}
MCSymmetry == Permutations(MCProcesses)
=============================================================================
