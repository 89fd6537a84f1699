--------------------------- MODULE MCSubscription ---------------------------
(***************************************************************************)
(* Two overlapping webhook invocations and one crash, and three of:        *)
(* Stripe's events, the deletion, rosters of the digest.  The pro          *)
(* subscription names the user in its metadata; the solo one is found      *)
(* through the reverse index; the third comes from a payment link, without *)
(* our metadata.                                                           *)
(***************************************************************************)
EXTENDS Subscription, TLC

CONSTANTS h1, h2

MCHooks == {h1, h2}
MCSubs == {"sub_pro", "sub_solo", "sub_link"}
MCTierOf == [sub \in MCSubs |->
    CASE sub = "sub_pro" -> "pro" [] sub = "sub_solo" -> "solo" [] sub = "sub_link" -> "none"]
MCTagged == {"sub_pro"}
MCSymmetry == Permutations(MCHooks)
=============================================================================
