----------------------------- MODULE TokenCache -----------------------------
(***************************************************************************)
(* The Rakuten adapter's OAuth token cache in one Node process             *)
(* (src/networks/rakuten/auth.ts and client.ts): tokens and refreshes      *)
(* in flight, both keyed by the identity of the request                    *)
(* (src/shared/request-context.ts).  Of the networks the hosted            *)
(* connector offers it is the one that keeps a token between calls.        *)
(*                                                                         *)
(* A request carries a version of its user's credentials, 0 for none.  A   *)
(* promise and the token it yields are named by the exchange behind them.  *)
(* The callers of a promise resume as soon as it settles, before any other *)
(* event, so settling and resuming are one step.  withResilience is        *)
(* modelled in Resilience; here a failed attempt may be retried, and one   *)
(* that times out runs on beside its retry, which is then another call of  *)
(* the same user.                                                          *)
(***************************************************************************)
EXTENDS Naturals, Sequences, FiniteSets

CONSTANTS
    Users,        \* request identities
    Calls,        \* tool calls the process serves
    MaxVersion,   \* bound: credentials a user has
    MaxExchanges  \* bound: token exchanges

ASSUME TokenBoundsAssumption == MaxVersion \in Nat /\ MaxExchanges \in Nat

VARIABLES
    call,       \* call[c]: where call c is, and what it holds
    cache,      \* cacheByIdentity
    inflight,   \* inFlightRefreshByIdentity: an exchange, 0 for none
    exchanges,  \* every token exchange so far
    resets      \* ghost: times _resetTokenCache ran

tokens == <<cache, inflight, exchanges, resets>>

Empty == [token |-> 0, fresh |-> FALSE]

InitTokens ==
    /\ cache = [u \in Users |-> Empty]
    /\ inflight = [u \in Users |-> 0]
    /\ exchanges = <<>>
    /\ resets = 0

Set(c, fields) ==
    call' = [call EXCEPT ![c] = [f \in DOMAIN call[c] |->
                                    IF f \in DOMAIN fields THEN fields[f] ELSE call[c][f]]]

\* A call that returned or threw holds nothing any more.
Over == [user |-> "none", net |-> "none", op |-> "none", pc |-> "done",
         version |-> 0, token |-> 0, promise |-> 0, retried |-> FALSE]

Finish(c) == call' = [call EXCEPT ![c] = Over]

-----------------------------------------------------------------------------
(* refreshToken.  A call that comes here after a 401 has had its retry. *)

InFlight(c) == inflight[call[c].user]

Wait(c, i) ==
    Set(c, [pc |-> "token", promise |-> i, retried |-> call[c].pc = "request"])

Start(c, running) ==
    /\ Len(exchanges) < MaxExchanges
    /\ exchanges' = Append(exchanges, [user |-> call[c].user, version |-> call[c].version,
                                       running |-> running])
    /\ IF running
       THEN Wait(c, Len(exchanges'))
       ELSE Finish(c)

\* Another caller's refresh is in flight: wait for the same promise.  One that has
\* already been rejected rejects at once.
Join(c) ==
    /\ InFlight(c) # 0
    /\ IF exchanges[InFlight(c)].running
       THEN Wait(c, InFlight(c))
       ELSE Finish(c)
    /\ UNCHANGED tokens

\* Bug variant: a caller does not look for a refresh in flight.
RefreshUnshared(c) ==
    /\ Start(c, call[c].version > 0)
    /\ inflight' = [inflight EXCEPT ![call[c].user] = Len(exchanges')]
    /\ UNCHANGED <<cache, resets>>

\* Without credentials requireCredential throws before the first await: the finally
\* block runs, and only then is the rejected promise stored.
RefreshToken(c) ==
    \/ Join(c)
    \/ /\ InFlight(c) = 0
       /\ Start(c, call[c].version > 0)
       /\ inflight' = [inflight EXCEPT ![call[c].user] = Len(exchanges')]
       /\ UNCHANGED <<cache, resets>>

-----------------------------------------------------------------------------
(* The exchange settles, and everyone waiting for it resumes. *)

Waiting(i) == {c \in Calls : call[c].pc = "token" /\ call[c].promise = i}

Resume(c, i) ==
    IF call[c].op = "verify" THEN Over
                             ELSE [call[c] EXCEPT !.pc = "request", !.token = i, !.promise = 0]

\* Bug variant: the token is cached for the process, not for its identity.
StoreForAll(i) == [u \in Users |-> [token |-> i, fresh |-> TRUE]]

Store(i) == [cache EXCEPT ![exchanges[i].user] = [token |-> i, fresh |-> TRUE]]

\* Bug variant: a refresh that fails stays in the table.
SettleKeepsFailure(i, accepted) ==
    /\ exchanges[i].running
    /\ exchanges' = [exchanges EXCEPT ![i].running = FALSE]
    /\ inflight' = IF accepted THEN [inflight EXCEPT ![exchanges[i].user] = 0] ELSE inflight
    /\ cache' = IF accepted THEN Store(i) ELSE cache
    /\ call' = [c \in Calls |->
                   IF c \notin Waiting(i) THEN call[c]
                   ELSE IF accepted THEN Resume(c, i)
                   ELSE Over]
    /\ UNCHANGED resets

Settle(i, accepted) ==
    /\ exchanges[i].running
    /\ exchanges' = [exchanges EXCEPT ![i].running = FALSE]
    /\ inflight' = [inflight EXCEPT ![exchanges[i].user] = 0]
    /\ cache' = IF accepted THEN Store(i) ELSE cache
    /\ call' = [c \in Calls |->
                   IF c \notin Waiting(i) THEN call[c]
                   ELSE IF accepted THEN Resume(c, i)
                   ELSE Over]
    /\ UNCHANGED resets

-----------------------------------------------------------------------------
(* doRequestWith401Refresh *)

GetAccessToken(c) ==
    LET entry == cache[call[c].user]
    IN  /\ call[c].pc = "dispatched"
        /\ IF entry.fresh
           THEN Set(c, [pc |-> "request", token |-> entry.token]) /\ UNCHANGED tokens
           ELSE RefreshToken(c)

\* The data endpoint answers, or fails for good.
Answer(c) ==
    /\ call[c].pc = "request"
    /\ Finish(c)
    /\ UNCHANGED tokens

\* withResilience starts the request anew after a failure other than a 401.
Retry(c) ==
    /\ call[c].pc = "request"
    /\ Set(c, [pc |-> "dispatched", token |-> 0, retried |-> FALSE])
    /\ UNCHANGED tokens

\* 401: force a refresh and retry once.
Unauthorised(c) ==
    /\ call[c].pc = "request"
    /\ IF call[c].retried THEN Finish(c) /\ UNCHANGED tokens
                              ELSE RefreshToken(c)

\* verifyAuth: _resetTokenCache for every identity, then a refresh.
VerifyAuth(c) ==
    /\ call[c].pc = "verify"
    /\ Start(c, call[c].version > 0)
    /\ cache' = [u \in Users |-> Empty]
    /\ inflight' = [[u \in Users |-> 0] EXCEPT ![call[c].user] = Len(exchanges')]
    /\ resets' = resets + 1

-----------------------------------------------------------------------------
\* Time (external): fewer than PROACTIVE_REFRESH_MARGIN_MS are left on a token.
Expire(u) ==
    /\ cache[u].fresh
    /\ cache' = [cache EXCEPT ![u].fresh = FALSE]
    /\ UNCHANGED <<call, inflight, exchanges, resets>>
=============================================================================
