------------------------------ MODULE MCLicence -------------------------------
(* Two requests of the app, two checkouts, two Stripe events, tokens of two *)
(* ticks.                                                                     *)
EXTENDS Licence, TLC

CONSTANTS r1, r2, h1

MCRequests == {r1, r2}
MCHooks == {h1}
Symmetry == Permutations(MCRequests)
=============================================================================
