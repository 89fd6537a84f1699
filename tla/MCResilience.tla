---------------------------- MODULE MCResilience ----------------------------
(***************************************************************************)
(* Three overlapping calls on one breaker key.  The retry budget, the      *)
(* threshold and the cooldown are all above 1, so that a call can retry    *)
(* while another opens the circuit and a third finds it cooling down.      *)
(***************************************************************************)
EXTENDS Resilience

CONSTANTS c1, c2, c3

MCCalls == {c1, c2, c3}
MCRetryOn == {"429", "503"}
=============================================================================
