------------------------------ MODULE Pipeline ------------------------------
(***************************************************************************)
(* One hosted tool call from the gates to the adapter                      *)
(* (src/hosted-transport/pipeline.ts, executeHostedToolCall), in a         *)
(* Node process that serves many calls and users, whose adapters share the *)
(* token cache (TokenCache).                                               *)
(*                                                                         *)
(* The hosted Worker is external: it says what tier the user has, whether  *)
(* the meter allows the report (modelled in Meter), which networks are     *)
(* connected and what credentials are stored (modelled in Vault), and any  *)
(* of these requests may fail.  The token buckets (rate-limiter.ts) may    *)
(* refuse any call.  Unknown tools and the brand-data gate end the call    *)
(* before it shares anything, and are left out.                            *)
(***************************************************************************)
EXTENDS TokenCache

CONSTANTS
    Networks,   \* the networks on offer; "rakuten" is one of them
    Cap         \* SOLO_NETWORK_CAP

ASSUME NetworksAssumption == "rakuten" \in Networks /\ "meta" \notin Networks
ASSUME CapAssumption == Cap \in Nat

VARIABLE
    stored      \* stored[u][n]: version of the credentials in the vault, 0: none

vars == <<call, tokens, stored>>

NoCall == [Over EXCEPT !.pc = "idle"]

Init ==
    /\ InitTokens
    /\ call = [c \in Calls |-> NoCall]
    /\ stored = [u \in Users |-> [n \in Networks |-> 0]]

Connected(u) == {n \in Networks : stored[u][n] > 0}
NetworksOf(op) == IF op = "data" THEN Networks ELSE IF op = "verify" THEN {"rakuten"} ELSE {"meta"}

-----------------------------------------------------------------------------
(* The gates, in order.  Each line that awaits ends a step. *)

Begin(c, u, op, net) ==
    /\ call[c] = NoCall
    /\ net \in NetworksOf(op)
    /\ call' = [call EXCEPT ![c] = [NoCall EXCEPT !.pc = "entitlement", !.user = u,
                                                  !.op = op, !.net = net]]
    /\ UNCHANGED <<tokens, stored>>

\* checkRateLimit, and what follows it up to the next await.
Admit(c, tier) ==
    \/ Finish(c)
    \/ Set(c, [pc |-> IF tier = "solo" /\ call[c].net # "meta" THEN "cap" ELSE "overlay"])

Entitlement(c, tier) ==
    /\ call[c].pc = "entitlement"
    /\ CASE tier \in {"unavailable", "none"} -> Finish(c)
         [] tier = "free" /\ call[c].net # "meta" -> Set(c, [pc |-> "meter"])
         [] OTHER -> Admit(c, tier)
    /\ UNCHANGED <<tokens, stored>>

Meter(c, decision) ==
    /\ call[c].pc = "meter"
    /\ IF decision = "allowed" THEN Admit(c, "free") ELSE Finish(c)
    /\ UNCHANGED <<tokens, stored>>

\* checkNetworkCap on the list of connected networks.
NetworkCap(c) ==
    /\ call[c].pc = "cap"
    /\ \/ Finish(c)
       \/ /\ call[c].net \in Connected(call[c].user) \/ Cardinality(Connected(call[c].user)) < Cap
          /\ Set(c, [pc |-> "overlay"])
       \/ /\ call[c].net \notin Connected(call[c].user)
          /\ Cardinality(Connected(call[c].user)) >= Cap
          /\ Finish(c)
    /\ UNCHANGED <<tokens, stored>>

\* Bug variant: a missing record is not replaced by an empty one, and is no version.
OverlayUndefaulted(c) ==
    /\ call[c].pc = "overlay"
    /\ Set(c, [pc |-> "dispatched",
               version |-> IF call[c].net # "meta" /\ call[c].net \in Connected(call[c].user)
                           THEN stored[call[c].user][call[c].net] ELSE MaxVersion + 1])
    /\ UNCHANGED <<tokens, stored>>

Version(c) == IF call[c].net = "meta" THEN 0 ELSE stored[call[c].user][call[c].net]

\* resolveCredentialOverlay, then dispatch.  A network that is not connected has an
\* empty overlay and is dispatched all the same; so is run_diagnostic, which probes
\* every adapter.  A call that does not reach the token cache is over for this model.
Overlay(c) ==
    /\ call[c].pc = "overlay"
    /\ \/ Finish(c)
       \/ /\ call[c].net \in {"rakuten", "meta"}
          /\ Set(c, [pc |-> IF call[c].op = "data" THEN "dispatched" ELSE "verify",
                     version |-> Version(c)])
    /\ UNCHANGED <<tokens, stored>>

Gate(c) ==
    \/ \E tier \in {"unavailable", "none", "free", "solo", "pro"} : Entitlement(c, tier)
    \/ \E decision \in {"unavailable", "spent", "allowed"} : Meter(c, decision)
    \/ NetworkCap(c)
    \/ Overlay(c)

Adapter(c) ==
    /\ \/ GetAccessToken(c)
       \/ VerifyAuth(c)
       \/ Answer(c)
       \/ Retry(c)
       \/ Unauthorised(c)
    /\ UNCHANGED stored

-----------------------------------------------------------------------------
(* The user connects and disconnects (version 0) networks, at any time. *)

Connect(u, n, version) ==
    /\ stored[u][n] # version
    /\ stored' = [stored EXCEPT ![u][n] = version]
    /\ UNCHANGED <<call, tokens>>

Next ==
    \/ \E c \in Calls, u \in Users, op \in {"data", "verify", "meta"}, n \in Networks \cup {"meta"} :
          Begin(c, u, op, n)
    \/ \E c \in Calls : Gate(c) \/ Adapter(c)
    \/ \E i \in DOMAIN exchanges, accepted \in BOOLEAN : Settle(i, accepted) /\ UNCHANGED stored
    \/ \E u \in Users : Expire(u) /\ UNCHANGED stored
    \/ \E u \in Users, n \in Networks, version \in 0..MaxVersion : Connect(u, n, version)

Spec == Init /\ [][Next]_vars

-----------------------------------------------------------------------------
(* Properties. *)

CallType ==
    [pc : {"idle", "entitlement", "meter", "cap", "overlay", "dispatched", "verify", "token",
           "request", "done"},
     user : Users \cup {"none"}, net : Networks \cup {"none", "meta"},
     op : {"none", "data", "verify", "meta"},
     version : 0..MaxVersion, token : 0..MaxExchanges, promise : 0..MaxExchanges,
     retried : BOOLEAN]

TypeOK ==
    /\ call \in [Calls -> CallType]
    /\ cache \in [Users -> [token : 0..MaxExchanges, fresh : BOOLEAN]]
    /\ inflight \in [Users -> 0..MaxExchanges]
    /\ exchanges \in Seq([user : Users, version : 0..MaxVersion, running : BOOLEAN])
    /\ resets \in Nat
    /\ stored \in [Users -> [Networks -> 0..MaxVersion]]

\* The token a call presents to Rakuten was exchanged for the user who made the
\* call, whether it came from the cache, from a refresh of its own or from a
\* refresh another call had in flight.
TokenIsCallers ==
    \A c \in Calls :
        call[c].pc = "request" => exchanges[call[c].token].user = call[c].user

Running(u) == {i \in DOMAIN exchanges : exchanges[i].user = u /\ exchanges[i].running}

\* Callers of one identity share one exchange.  verifyAuth forgets the refreshes in
\* flight, and each time it does one more may run beside the others, but no more,
\* even though a forgotten one deletes its successor's entry when it settles.
ExchangesShared == \A u \in Users : Cardinality(Running(u)) <= 1 + resets

\* A refresh that is still in the table when it has settled is one that began
\* without credentials.
OnlyMissingCredentialsStick ==
    \A u \in Users :
        inflight[u] # 0 /\ ~exchanges[inflight[u]].running => exchanges[inflight[u]].version = 0
=============================================================================
