----------------------------- MODULE MCAccounts -----------------------------
(***************************************************************************)
(* One address, with a limit of one request a window; two overlapping      *)
(* invocations, three requests, two users and one crash.                   *)
(***************************************************************************)
EXTENDS Accounts, TLC

CONSTANTS w1, w2

MCSlots == {w1, w2}
MCSymmetry == Permutations(MCSlots)
=============================================================================
