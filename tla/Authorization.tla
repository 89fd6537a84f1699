---------------------------- MODULE Authorization ----------------------------
(***************************************************************************)
(* What the OAuth authorization server promises: the holder of a request's *)
(* PKCE verifier gets tokens of a user only if that user approved that     *)
(* very request.                                                           *)
(***************************************************************************)
CONSTANTS Users, Requests

VARIABLES
    asked,      \* authorization requests made so far
    approved,   \* <<user, request>>: the user approved the request
    granted     \* <<user, request>>: the request's owner was given tokens of the user

vars == <<asked, approved, granted>>

Init ==
    /\ asked = {}
    /\ approved = {}
    /\ granted = {}

Ask ==
    /\ \E q \in Requests \ asked : asked' = asked \cup {q}
    /\ UNCHANGED <<approved, granted>>

Approve ==
    /\ \E u \in Users, q \in asked : approved' = approved \cup {<<u, q>>}
    /\ UNCHANGED <<asked, granted>>

Grant ==
    /\ \E g \in approved : granted' = granted \cup {g}
    /\ UNCHANGED <<asked, approved>>

Next == Ask \/ Approve \/ Grant

Spec == Init /\ [][Next]_vars
=============================================================================
