------------------------------- MODULE MCOAuth -------------------------------
(***************************************************************************)
(* Two overlapping invocations, two users and two clients with a redirect  *)
(* URI each.                                                               *)
(***************************************************************************)
EXTENDS OAuth, TLC

CONSTANTS s1, s2, alice, bob, app, cli

MCSlots == {s1, s2}
MCUsers == {alice, bob}
MCClients == {app, cli}
\* Each client registered one URI, named like the client.
MCUris == MCClients
MCRegistered == [c \in MCClients |-> {c}]
MCSymmetry ==
    Permutations(MCSlots) \cup Permutations(MCUsers) \cup Permutations(MCClients)
=============================================================================
