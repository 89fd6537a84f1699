----------------------------- MODULE MCPipeline -----------------------------
(***************************************************************************)
(* Three overlapping calls of two users; two networks against a cap of one.*)
(***************************************************************************)
EXTENDS Pipeline, TLC

CONSTANTS c1, c2, c3, ann, bob

MCCalls == {c1, c2, c3}
MCUsers == {ann, bob}
MCSymmetry == Permutations(MCCalls) \cup Permutations(MCUsers)
=============================================================================
