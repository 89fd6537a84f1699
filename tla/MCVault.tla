------------------------------ MODULE MCVault ------------------------------
(***************************************************************************)
(* Two overlapping invocations, two users, two networks and two data keys, *)
(* so that a deleted user can connect again during a rotation; two walks.  *)
(***************************************************************************)
EXTENDS Vault, TLC

CONSTANTS s1, s2, alice, bob, awin, cj

MCSlots == {s1, s2}
MCUsers == {alice, bob}
MCNetworks == {awin, cj}
MCSymmetry ==
    Permutations(MCSlots) \cup Permutations(MCUsers) \cup Permutations(MCNetworks)
=============================================================================
