--------------------------- MODULE PipelineProofs ---------------------------
(***************************************************************************)
(* Proofs about the request pipeline on the shared token cache, for any    *)
(* number of users, calls and networks: no call ever presents another      *)
(* user's token, and how many exchanges of one user may run at a time.     *)
(***************************************************************************)
EXTENDS Pipeline, FiniteSetTheorems, SequenceTheorems, TLAPS

-----------------------------------------------------------------------------
(***************************************************************************)
(* The inductive invariant                                                 *)
(***************************************************************************)
\* The bound on the exchanges bounds their numbers.
ExchangesBounded == Len(exchanges) <= MaxExchanges

\* Exchange i was made for user u.
MadeFor(i, u) == i \in DOMAIN exchanges /\ exchanges[i].user = u

\* A call that was begun is somebody's until it is over.
CallsOwned == \A c \in Calls : call[c].pc \notin {"idle", "done"} => call[c].user \in Users

\* Whatever leads a call to a token was made for the user of the call: the cached
\* token, the refresh in flight, the promise waited for, the token held.
TokensOwned ==
    /\ \A u \in Users : cache[u].fresh => MadeFor(cache[u].token, u)
    /\ \A u \in Users : inflight[u] # 0 => MadeFor(inflight[u], u)
    /\ \A c \in Calls : call[c].pc = "token" => MadeFor(call[c].promise, call[c].user)
    /\ \A c \in Calls : call[c].pc = "request" => MadeFor(call[c].token, call[c].user)

\* The refresh in the table is the one a caller would join.
Joinable(u) == inflight[u] # 0 /\ exchanges[inflight[u]].running

\* A user's running exchanges are the one in the table and at most one for every
\* time the table was emptied.
RunningCounted ==
    \A u \in Users : Cardinality(Running(u)) <= resets + (IF Joinable(u) THEN 1 ELSE 0)

IndInv ==
    TypeOK /\ ExchangesBounded /\ CallsOwned /\ TokensOwned /\ RunningCounted
        /\ OnlyMissingCredentialsStick

-----------------------------------------------------------------------------
(***************************************************************************)
(* What the helpers do to a call                                           *)
(***************************************************************************)
\* Call c keeps its user, network and operation, and takes these for the rest.
Becomes(c, pc, version, token, promise, retried) ==
    call' = [call EXCEPT ![c] = [pc |-> pc, user |-> call[c].user, net |-> call[c].net,
                                 op |-> call[c].op, version |-> version, token |-> token,
                                 promise |-> promise, retried |-> retried]]

Fields == {"pc", "user", "net", "op", "version", "token", "promise", "retried"}

LEMMA SetIs ==
    ASSUME TypeOK, NEW c \in Calls, NEW fields, Set(c, fields), DOMAIN fields \subseteq Fields,
           {"user", "net", "op"} \cap DOMAIN fields = {}
    PROVE  LET New(f) == IF f \in DOMAIN fields THEN fields[f] ELSE call[c][f]
           IN  Becomes(c, New("pc"), New("version"), New("token"), New("promise"), New("retried"))
<1> DEFINE New(f) == IF f \in DOMAIN fields THEN fields[f] ELSE call[c][f]
           g == [f \in DOMAIN call[c] |-> New(f)]
           h == [pc |-> New("pc"), user |-> call[c].user, net |-> call[c].net,
                 op |-> call[c].op, version |-> New("version"), token |-> New("token"),
                 promise |-> New("promise"), retried |-> New("retried")]
<1>1. DOMAIN call[c] = Fields
  BY DEF TypeOK, CallType, Fields
<1>2. call' = [call EXCEPT ![c] = g]
  BY DEF Set
<1>3. g = [f \in Fields |-> New(f)]
  BY <1>1
<1>4. h = [f \in Fields |-> New(f)]
  BY DEF Fields
<1> QED
  BY <1>2, <1>3, <1>4 DEF Becomes

\* The five ways the code uses it.
LEMMA Sets ==
    ASSUME TypeOK, NEW c \in Calls, NEW pc, NEW x, NEW y
    PROVE  /\ Set(c, [pc |-> pc]) =>
                 Becomes(c, pc, call[c].version, call[c].token, call[c].promise, call[c].retried)
           /\ Set(c, [pc |-> pc, version |-> x]) =>
                 Becomes(c, pc, x, call[c].token, call[c].promise, call[c].retried)
           /\ Set(c, [pc |-> pc, token |-> x]) =>
                 Becomes(c, pc, call[c].version, x, call[c].promise, call[c].retried)
           /\ Set(c, [pc |-> pc, token |-> x, retried |-> y]) =>
                 Becomes(c, pc, call[c].version, x, call[c].promise, y)
           /\ Set(c, [pc |-> pc, promise |-> x, retried |-> y]) =>
                 Becomes(c, pc, call[c].version, call[c].token, x, y)
<1>1. ASSUME Set(c, [pc |-> pc])
      PROVE  Becomes(c, pc, call[c].version, call[c].token, call[c].promise, call[c].retried)
  BY <1>1, SetIs DEF Fields
<1>2. ASSUME Set(c, [pc |-> pc, version |-> x])
      PROVE  Becomes(c, pc, x, call[c].token, call[c].promise, call[c].retried)
  BY <1>2, SetIs DEF Fields
<1>3. ASSUME Set(c, [pc |-> pc, token |-> x])
      PROVE  Becomes(c, pc, call[c].version, x, call[c].promise, call[c].retried)
  BY <1>3, SetIs DEF Fields
<1>4. ASSUME Set(c, [pc |-> pc, token |-> x, retried |-> y])
      PROVE  Becomes(c, pc, call[c].version, x, call[c].promise, y)
  BY <1>4, SetIs DEF Fields
<1>5. ASSUME Set(c, [pc |-> pc, promise |-> x, retried |-> y])
      PROVE  Becomes(c, pc, call[c].version, call[c].token, x, y)
  BY <1>5, SetIs DEF Fields
<1> QED
  BY <1>1, <1>2, <1>3, <1>4, <1>5

Pcs == {"idle", "entitlement", "meter", "cap", "overlay", "dispatched", "verify", "token",
        "request", "done"}

\* One field of a call at a time.
LEMMA ExceptTyped ==
    ASSUME NEW r \in CallType
    PROVE  /\ \A x \in Pcs : LET t == [r EXCEPT !.pc = x]
                             IN  t \in CallType /\ t.pc = x /\ t.user = r.user /\ t.token = r.token
           /\ \A x \in Users : LET t == [r EXCEPT !.user = x]
                               IN  t \in CallType /\ t.pc = r.pc /\ t.user = x
           /\ \A x \in Networks \cup {"meta"} : LET t == [r EXCEPT !.net = x]
                                                IN  t \in CallType /\ t.pc = r.pc /\ t.user = r.user
           /\ \A x \in {"data", "verify", "meta"} :
                  LET t == [r EXCEPT !.op = x]
                  IN  t \in CallType /\ t.pc = r.pc /\ t.user = r.user
           /\ \A x \in 0..MaxExchanges :
                  LET t == [r EXCEPT !.token = x]
                  IN  t \in CallType /\ t.pc = r.pc /\ t.user = r.user /\ t.token = x
           /\ \A x \in 0..MaxExchanges :
                  LET t == [r EXCEPT !.promise = x]
                  IN  t \in CallType /\ t.pc = r.pc /\ t.user = r.user /\ t.token = r.token
  BY DEF CallType, Pcs

LEMMA ResumeTyped ==
    ASSUME NEW c \in Calls, call[c] \in CallType, NEW i \in 0..MaxExchanges, call[c].op # "verify"
    PROVE  /\ Resume(c, i) \in CallType /\ Resume(c, i).user = call[c].user
           /\ Resume(c, i).pc = "request" /\ Resume(c, i).token = i
<1> DEFINE r == call[c]
           r1 == [r EXCEPT !.pc = "request"]
           r2 == [r1 EXCEPT !.token = i]
<1>1. "request" \in Pcs /\ 0 \in 0..MaxExchanges
  BY TokenBoundsAssumption DEF Pcs
<1>2. r1 \in CallType /\ r1.pc = "request" /\ r1.user = r.user
  BY DEF CallType
<1>3. r2 \in CallType /\ r2.pc = "request" /\ r2.user = r.user /\ r2.token = i
  <2> HIDE DEF r1
  <2> QED
    BY <1>2 DEF CallType
<1>4. Resume(c, i) = [r2 EXCEPT !.promise = 0]
  BY DEF Resume
<1> HIDE DEF r2
<1> QED
  BY <1>1, <1>3, <1>4 DEF CallType

\* Only call c has changed.
Only(c) == call' \in [Calls -> CallType] /\ \A d \in Calls \ {c} : call'[d] = call[d]

LEMMA BecomesOnly ==
    ASSUME TypeOK, NEW c \in Calls, NEW pc \in Pcs, NEW version \in 0..MaxVersion,
           NEW token \in 0..MaxExchanges, NEW promise \in 0..MaxExchanges, NEW retried \in BOOLEAN,
           Becomes(c, pc, version, token, promise, retried)
    PROVE  /\ Only(c)
           /\ call'[c].user = call[c].user /\ call'[c].pc = pc
           /\ call'[c].token = token /\ call'[c].promise = promise
<1> DEFINE r == [pc |-> pc, user |-> call[c].user, net |-> call[c].net, op |-> call[c].op,
                 version |-> version, token |-> token, promise |-> promise, retried |-> retried]
<1>1. call \in [Calls -> CallType] /\ call[c] \in CallType
  BY DEF TypeOK
<1>2. r \in CallType
  BY <1>1 DEF CallType, Pcs
<1>3. call' = [call EXCEPT ![c] = r]
  BY DEF Becomes
<1> QED
  <2>1. r.user = call[c].user /\ r.pc = pc /\ r.token = token /\ r.promise = promise
    OBVIOUS
  <2> HIDE DEF r
  <2> QED
    BY <1>1, <1>2, <1>3, <2>1 DEF Only

LEMMA OverTyped == ASSUME TokenBoundsAssumption PROVE Over \in CallType
  BY TokenBoundsAssumption DEF Over, CallType

LEMMA FinishOnly ==
    ASSUME TypeOK, NEW c \in Calls, Finish(c)
    PROVE  Only(c) /\ call'[c] = Over
  BY OverTyped, TokenBoundsAssumption DEF Finish, Only, TypeOK

\* What a step may do to the refreshes.
Starts(c) ==
    /\ call[c].user \in Users
    /\ Len(exchanges) < MaxExchanges
    /\ exchanges' = Append(exchanges, [user |-> call[c].user, version |-> call[c].version,
                                       running |-> call[c].version > 0])

Refreshes(c) ==
    /\ Starts(c)
    /\ InFlight(c) = 0
    /\ inflight' = [inflight EXCEPT ![call[c].user] = Len(exchanges')]
    /\ UNCHANGED <<cache, resets>>

Verifies(c) ==
    /\ Starts(c)
    /\ cache' = [u \in Users |-> Empty]
    /\ inflight' = [[u \in Users |-> 0] EXCEPT ![call[c].user] = Len(exchanges')]
    /\ resets' = resets + 1

TokenSteps ==
    \/ UNCHANGED tokens
    \/ \E u \in Users : Expire(u)
    \/ \E c \in Calls : Refreshes(c) \/ Verifies(c)
    \/ \E i \in DOMAIN exchanges, accepted \in BOOLEAN : Settle(i, accepted)

\* Where a step may lead a call: to its end, on through the gates, to a promise or to
\* a token.
Promised(c) ==
    \/ inflight[call[c].user] # 0 /\ call'[c].promise = inflight[call[c].user]
    \/ Starts(c) /\ call'[c].promise = Len(exchanges')

Given(c) ==
    \/ cache[call[c].user].fresh /\ call'[c].token = cache[call[c].user].token
    \/ call[c].pc = "token" /\ call'[c].token = call[c].promise

Follows(c) ==
    \/ call'[c] = call[c]
    \/ call'[c] = Over
    \/ call'[c].user \in Users /\ call'[c].pc \notin {"token", "request"}
    \/ /\ call[c].user \in Users /\ call'[c].user = call[c].user
       /\ \/ call'[c].pc = "token" /\ Promised(c)
          \/ call'[c].pc = "request" /\ Given(c)

CallSteps == call' \in [Calls -> CallType] /\ \A c \in Calls : Follows(c)

LEMMA OneFollows == ASSUME NEW c \in Calls, Only(c), Follows(c) PROVE CallSteps
  BY DEF Only, CallSteps, Follows

LEMMA FinishFollows == ASSUME TypeOK, NEW c \in Calls, Finish(c) PROVE CallSteps
  BY FinishOnly, OneFollows DEF Follows

\* On through the gates.
LEMMA SetFollows ==
    ASSUME TypeOK, CallsOwned, NEW c \in Calls, call[c].pc \notin {"idle", "done"},
           NEW pc \in Pcs \ {"token", "request"}, Set(c, [pc |-> pc])
    PROVE  CallSteps
<1>1. call[c] \in CallType /\ call[c].user \in Users
  BY DEF TypeOK, CallsOwned
<1>2. Becomes(c, pc, call[c].version, call[c].token, call[c].promise, call[c].retried)
  BY Sets
<1>3. Only(c) /\ call'[c].user = call[c].user /\ call'[c].pc = pc
  BY <1>1, <1>2, BecomesOnly DEF CallType
<1> QED
  BY <1>1, <1>3, OneFollows DEF Follows

\* A call that starts a refresh, or joins one, waits for it or is over.
LEMMA StartFollows ==
    ASSUME TypeOK, CallsOwned, NEW c \in Calls, call[c].pc \notin {"idle", "done"},
           NEW running \in BOOLEAN, Start(c, running), running = (call[c].version > 0)
    PROVE  CallSteps /\ Starts(c)
<1>1. call[c] \in CallType /\ call[c].user \in Users
  BY DEF TypeOK, CallsOwned
<1>2. Starts(c)
  BY <1>1 DEF Start, Starts
<1>3. CASE Finish(c)
  BY <1>2, <1>3, FinishFollows
<1>4. CASE Wait(c, Len(exchanges'))
  <2>1. Len(exchanges') \in 0..MaxExchanges
    BY <1>2, TokenBoundsAssumption, AppendProperties, LenProperties DEF Starts, TypeOK
  <2> DEFINE retried == call[c].pc = "request"
  <2>0. retried \in BOOLEAN
    OBVIOUS
  <2>2. Becomes(c, "token", call[c].version, call[c].token, Len(exchanges'), retried)
    BY <1>4, Sets DEF Wait
  <2>3. Only(c) /\ call'[c].user = call[c].user /\ call'[c].pc = "token" /\ call'[c].promise = Len(exchanges')
    <3>1. /\ "token" \in Pcs /\ call[c].version \in 0..MaxVersion
          /\ call[c].token \in 0..MaxExchanges
      BY <1>1 DEF CallType, Pcs
    <3> HIDE DEF retried
    <3> QED
      BY <2>0, <2>1, <2>2, <3>1, BecomesOnly
  <2> QED
    BY <1>1, <1>2, <2>3, OneFollows DEF Follows, Promised
<1> QED
  BY <1>3, <1>4 DEF Start

LEMMA RefreshFollows ==
    ASSUME TypeOK, CallsOwned, NEW c \in Calls, call[c].pc \notin {"idle", "done"}, RefreshToken(c)
    PROVE  CallSteps /\ TokenSteps
<1>1. call[c] \in CallType /\ call[c].user \in Users
  BY DEF TypeOK, CallsOwned
<1>2. CASE Join(c) /\ Finish(c)
  BY <1>2, FinishFollows DEF Join, TokenSteps
<1>3. CASE Join(c) /\ Wait(c, InFlight(c))
  <2>1. InFlight(c) \in 0..MaxExchanges /\ InFlight(c) # 0
    BY <1>1, <1>3 DEF TypeOK, InFlight, Join
  <2> DEFINE retried == call[c].pc = "request"
  <2>0. retried \in BOOLEAN
    OBVIOUS
  <2>2. Becomes(c, "token", call[c].version, call[c].token, InFlight(c), retried)
    BY <1>3, Sets DEF Wait
  <2>3. Only(c) /\ call'[c].user = call[c].user /\ call'[c].pc = "token" /\ call'[c].promise = InFlight(c)
    <3>1. /\ "token" \in Pcs /\ call[c].version \in 0..MaxVersion
          /\ call[c].token \in 0..MaxExchanges
      BY <1>1 DEF CallType, Pcs
    <3> HIDE DEF retried
    <3> QED
      BY <2>0, <2>1, <2>2, <3>1, BecomesOnly
  <2>4. Follows(c)
    BY <1>1, <2>1, <2>3 DEF Follows, Promised, InFlight
  <2> QED
    BY <1>3, <2>3, <2>4, OneFollows DEF TokenSteps, Join
<1>4. CASE ~Join(c)
  <2>1. /\ InFlight(c) = 0
        /\ Start(c, call[c].version > 0)
        /\ inflight' = [inflight EXCEPT ![call[c].user] = Len(exchanges')]
        /\ UNCHANGED <<cache, resets>>
    BY <1>4 DEF RefreshToken
  <2>2. CallSteps /\ Starts(c)
    <3> DEFINE running == call[c].version > 0
    <3>1. running \in BOOLEAN /\ Start(c, running)
      BY <2>1
    <3> HIDE DEF running
    <3>2. running = (call[c].version > 0)
      BY DEF running
    <3> QED
      BY <3>1, <3>2, StartFollows
  <2> QED
    BY <2>1, <2>2 DEF TokenSteps, Refreshes
<1> QED
  BY <1>2, <1>3, <1>4 DEF Join

\* Every step is one of these, for the calls and for the refreshes.
LEMMA StepKinds == TypeOK /\ CallsOwned /\ [Next]_vars => CallSteps /\ TokenSteps
<1> SUFFICES ASSUME TypeOK, CallsOwned, [Next]_vars PROVE CallSteps /\ TokenSteps
  OBVIOUS
<1>0. call \in [Calls -> CallType]
  BY DEF TypeOK
<1>1. ASSUME NEW c \in Calls, NEW u \in Users, NEW op \in {"data", "verify", "meta"},
             NEW n \in Networks \cup {"meta"}, Begin(c, u, op, n)
      PROVE  CallSteps /\ TokenSteps
  <2> DEFINE r == [NoCall EXCEPT !.pc = "entitlement", !.user = u, !.op = op, !.net = n]
  <2>1. r \in CallType /\ r.user = u /\ r.pc = "entitlement"
    <3> DEFINE r1 == [NoCall EXCEPT !.pc = "entitlement"]
               r2 == [r1 EXCEPT !.user = u]
               r3 == [r2 EXCEPT !.op = op]
    <3>1. NoCall \in CallType /\ "entitlement" \in Pcs
      BY OverTyped, TokenBoundsAssumption, ExceptTyped DEF NoCall, Pcs
    <3>2. r1 \in CallType /\ r1.pc = "entitlement"
      BY <3>1, ExceptTyped
    <3>3. r2 \in CallType /\ r2.pc = "entitlement" /\ r2.user = u
      <4> HIDE DEF r1
      <4> QED
        BY <3>2, ExceptTyped
    <3>4. r3 \in CallType /\ r3.pc = "entitlement" /\ r3.user = u
      <4> HIDE DEF r2
      <4> QED
        BY <3>3, ExceptTyped
    <3>5. r = [r3 EXCEPT !.net = n]
      OBVIOUS
    <3> HIDE DEF r, r3
    <3> QED
      BY <3>4, <3>5, ExceptTyped
  <2>3. call' = [call EXCEPT ![c] = r] /\ UNCHANGED tokens
    BY <1>1 DEF Begin
  <2>4. Only(c) /\ Follows(c)
    <3> HIDE DEF r
    <3> QED
      BY <1>0, <2>1, <2>3 DEF Only, Follows
  <2> QED
    BY <2>3, <2>4, OneFollows DEF TokenSteps
<1>2. ASSUME NEW c \in Calls, call[c].pc \notin {"idle", "done"}, NEW tier, Admit(c, tier) PROVE CallSteps
  <2>1. CASE Finish(c)
    BY <2>1, FinishFollows
  <2>2. CASE ~Finish(c)
    <3>1. PICK pc \in {"cap", "overlay"} : Set(c, [pc |-> pc])
      BY <1>2, <2>2 DEF Admit
    <3> QED
      BY <1>2, <3>1, SetFollows DEF Pcs
  <2> QED
    BY <2>1, <2>2
<1>3. ASSUME NEW c \in Calls, NEW tier \in {"unavailable", "none", "free", "solo", "pro"},
             Entitlement(c, tier)
      PROVE  CallSteps /\ TokenSteps
  <2>1. call[c].pc \notin {"idle", "done"} /\ UNCHANGED tokens
    BY <1>3 DEF Entitlement
  <2>2. Finish(c) \/ Set(c, [pc |-> "meter"]) \/ Admit(c, tier)
    BY <1>3 DEF Entitlement
  <2> QED
    BY <1>2, <2>1, <2>2, FinishFollows, SetFollows DEF Pcs, TokenSteps
<1>4. ASSUME NEW c \in Calls, NEW decision, Meter(c, decision) PROVE CallSteps /\ TokenSteps
  <2>1. call[c].pc \notin {"idle", "done"} /\ UNCHANGED tokens
    BY <1>4 DEF Meter
  <2>2. Finish(c) \/ Admit(c, "free")
    BY <1>4 DEF Meter
  <2> QED
    BY <1>2, <2>1, <2>2, FinishFollows DEF TokenSteps
<1>5. ASSUME NEW c \in Calls, NetworkCap(c) PROVE CallSteps /\ TokenSteps
  <2>1. call[c].pc \notin {"idle", "done"} /\ UNCHANGED tokens
    BY <1>5 DEF NetworkCap
  <2>2. Finish(c) \/ Set(c, [pc |-> "overlay"])
    BY <1>5 DEF NetworkCap
  <2> QED
    BY <2>1, <2>2, FinishFollows, SetFollows DEF Pcs, TokenSteps
<1>6. ASSUME NEW c \in Calls, Overlay(c) PROVE CallSteps /\ TokenSteps
  <2>1. call[c].pc \notin {"idle", "done"} /\ UNCHANGED tokens
    BY <1>6 DEF Overlay
  <2>2. CASE Finish(c)
    BY <2>1, <2>2, FinishFollows DEF TokenSteps
  <2>3. CASE ~Finish(c)
    <3>1. PICK pc \in {"dispatched", "verify"} : Set(c, [pc |-> pc, version |-> Version(c)])
      BY <1>6, <2>3 DEF Overlay
    <3>2. call[c].net \in {"rakuten", "meta"} /\ call[c] \in CallType /\ call[c].user \in Users
      BY <1>0, <1>6, <2>1, <2>3 DEF Overlay, CallsOwned
    <3>3. Version(c) \in 0..MaxVersion
      BY <3>2, NetworksAssumption, TokenBoundsAssumption DEF Version, TypeOK
    <3>4. Becomes(c, pc, Version(c), call[c].token, call[c].promise, call[c].retried)
      BY <3>1, Sets
    <3>5. Only(c) /\ call'[c].user = call[c].user /\ call'[c].pc = pc
      BY <3>2, <3>3, <3>4, BecomesOnly DEF CallType, Pcs
    <3> QED
      BY <2>1, <3>2, <3>5, OneFollows DEF Follows, TokenSteps
  <2> QED
    BY <2>2, <2>3
<1>7. ASSUME NEW c \in Calls, GetAccessToken(c) PROVE CallSteps /\ TokenSteps
  <2>1. call[c] \in CallType /\ call[c].user \in Users /\ call[c].pc \notin {"idle", "done"}
    BY <1>0, <1>7 DEF GetAccessToken, CallsOwned
  <2> DEFINE entry == cache[call[c].user]
  <2>2. CASE entry.fresh
    <3>1. Set(c, [pc |-> "request", token |-> entry.token]) /\ UNCHANGED tokens
      BY <1>7, <2>2 DEF GetAccessToken
    <3>2. Becomes(c, "request", call[c].version, entry.token, call[c].promise, call[c].retried)
      BY <3>1, Sets
    <3>3. entry.token \in 0..MaxExchanges
      BY <2>1 DEF TypeOK
    <3>4. Only(c) /\ call'[c].user = call[c].user /\ call'[c].pc = "request" /\ call'[c].token = entry.token
      BY <2>1, <3>2, <3>3, BecomesOnly DEF CallType, Pcs
    <3> QED
      BY <2>1, <2>2, <3>1, <3>4, OneFollows DEF Follows, Given, TokenSteps
  <2>3. CASE ~entry.fresh
    BY <1>7, <2>1, <2>3, RefreshFollows DEF GetAccessToken
  <2> QED
    BY <2>2, <2>3
<1>8. ASSUME NEW c \in Calls, VerifyAuth(c) PROVE CallSteps /\ TokenSteps
  <2>1. call[c].pc \notin {"idle", "done"}
    BY <1>8 DEF VerifyAuth
  <2>2. CallSteps /\ Starts(c)
    <3> DEFINE running == call[c].version > 0
    <3>1. running \in BOOLEAN /\ Start(c, running)
      BY <1>8 DEF VerifyAuth
    <3> HIDE DEF running
    <3>2. running = (call[c].version > 0)
      BY DEF running
    <3> QED
      BY <2>1, <3>1, <3>2, StartFollows
  <2> QED
    BY <1>8, <2>2 DEF VerifyAuth, Verifies, TokenSteps
<1>9. ASSUME NEW c \in Calls, Answer(c) PROVE CallSteps /\ TokenSteps
  BY <1>9, FinishFollows DEF Answer, TokenSteps
<1>10. ASSUME NEW c \in Calls, Retry(c) PROVE CallSteps /\ TokenSteps
  <2>1. call[c] \in CallType /\ call[c].user \in Users
    BY <1>0, <1>10 DEF Retry, CallsOwned
  <2>2. Becomes(c, "dispatched", call[c].version, 0, call[c].promise, FALSE)
    BY <1>10, Sets DEF Retry
  <2>3. Only(c) /\ call'[c].user = call[c].user /\ call'[c].pc = "dispatched"
    <3>1. /\ "dispatched" \in Pcs /\ call[c].version \in 0..MaxVersion
          /\ call[c].promise \in 0..MaxExchanges /\ 0 \in 0..MaxExchanges /\ FALSE \in BOOLEAN
      BY <2>1, TokenBoundsAssumption DEF CallType, Pcs
    <3> QED
      BY <2>2, <3>1, BecomesOnly
  <2> QED
    BY <1>10, <2>1, <2>3, OneFollows DEF Follows, TokenSteps, Retry
<1>11. ASSUME NEW c \in Calls, Unauthorised(c) PROVE CallSteps /\ TokenSteps
  <2>1. call[c].pc \notin {"idle", "done"}
    BY <1>11 DEF Unauthorised
  <2>2. CASE Finish(c) /\ UNCHANGED tokens
    BY <2>2, FinishFollows DEF TokenSteps
  <2>3. CASE RefreshToken(c)
    BY <2>1, <2>3, RefreshFollows
  <2> QED
    BY <1>11, <2>2, <2>3 DEF Unauthorised
<1>12. ASSUME NEW i \in DOMAIN exchanges, NEW accepted \in BOOLEAN, Settle(i, accepted)
       PROVE  CallSteps /\ TokenSteps
  <2>1. /\ call' = [c \in Calls |-> call'[c]]
        /\ \A c \in Calls : \/ call'[c] = call[c]
                            \/ call'[c] = Over
                            \/ c \in Waiting(i) /\ call'[c] = Resume(c, i)
    BY <1>12 DEF Settle
  <2>2. ASSUME NEW c \in Calls, call[c].pc = "token", call[c].promise = i, call[c].op # "verify"
        PROVE  /\ Resume(c, i) \in CallType
               /\ Resume(c, i).user = call[c].user /\ call[c].user \in Users
               /\ Resume(c, i).pc = "request" /\ Resume(c, i).token = call[c].promise
    <3>1. call[c] \in CallType /\ call[c].user \in Users /\ i \in 0..MaxExchanges
      BY <1>0, <2>2 DEF CallsOwned, CallType
    <3> QED
      BY <2>2, <3>1, ResumeTyped
  <2>3. \A c \in Calls : call'[c] \in CallType /\ Follows(c)
    BY <1>0, <2>1, <2>2, OverTyped, TokenBoundsAssumption DEF Follows, Given, Waiting, Resume
  <2> QED
    BY <1>12, <2>1, <2>3 DEF CallSteps, TokenSteps
<1>13. ASSUME NEW u \in Users, Expire(u) PROVE CallSteps /\ TokenSteps
  BY <1>0, <1>13 DEF Expire, CallSteps, Follows, TokenSteps
<1>14. ASSUME NEW u, NEW n, NEW version, Connect(u, n, version) PROVE CallSteps /\ TokenSteps
  BY <1>0, <1>14 DEF Connect, CallSteps, Follows, TokenSteps
<1>15. CASE UNCHANGED vars
  BY <1>0, <1>15 DEF vars, CallSteps, Follows, TokenSteps
<1> QED
  BY <1>1, <1>3, <1>4, <1>5, <1>6, <1>7, <1>8, <1>9, <1>10, <1>11, <1>12, <1>13, <1>14, <1>15
     DEF Next, Gate, Adapter

-----------------------------------------------------------------------------
(***************************************************************************)
(* The parts of the invariant                                              *)
(***************************************************************************)
Exchanges == [user : Users, version : 0..MaxVersion, running : BOOLEAN]

\* A started exchange is the last one.
LEMMA StartAdds ==
    ASSUME TypeOK, ExchangesBounded, NEW c \in Calls, Starts(c)
    PROVE  /\ exchanges' \in Seq(Exchanges)
           /\ Len(exchanges') = Len(exchanges) + 1 /\ Len(exchanges) \in Nat
           /\ Len(exchanges') \in 1..MaxExchanges
           /\ DOMAIN exchanges' = DOMAIN exchanges \cup {Len(exchanges')}
           /\ Len(exchanges') \notin DOMAIN exchanges
           /\ \A i \in DOMAIN exchanges : exchanges'[i] = exchanges[i]
           /\ exchanges'[Len(exchanges')].user = call[c].user
           /\ exchanges'[Len(exchanges')].version = call[c].version
           /\ exchanges'[Len(exchanges')].running \/ call[c].version = 0
<1> DEFINE e == [user |-> call[c].user, version |-> call[c].version, running |-> call[c].version > 0]
<1>1. exchanges \in Seq(Exchanges) /\ call[c] \in CallType
  BY DEF TypeOK, Exchanges
<1>2. exchanges' = Append(exchanges, e) /\ Len(exchanges) < MaxExchanges /\ call[c].user \in Users
  BY DEF Starts
<1>3. /\ e \in Exchanges /\ e.user = call[c].user /\ e.version = call[c].version
      /\ e.running \/ call[c].version = 0
  <2> DEFINE running == call[c].version > 0
  <2>1. call[c].version \in 0..MaxVersion /\ running \in BOOLEAN
    BY <1>1 DEF CallType
  <2>2. running \/ call[c].version = 0
    BY <2>1, TokenBoundsAssumption
  <2>3. e = [user |-> call[c].user, version |-> call[c].version, running |-> running]
    OBVIOUS
  <2> HIDE DEF running, e
  <2> QED
    BY <1>2, <2>1, <2>2, <2>3 DEF Exchanges
<1> HIDE DEF e
<1> QED
  BY <1>1, <1>2, <1>3, TokenBoundsAssumption, AppendProperties, LenProperties

\* A settled exchange is still the same user's.
LEMMA SettleKeeps ==
    ASSUME TypeOK, NEW i \in DOMAIN exchanges, NEW accepted \in BOOLEAN, Settle(i, accepted)
    PROVE  /\ exchanges' \in Seq(Exchanges)
           /\ Len(exchanges') = Len(exchanges)
           /\ DOMAIN exchanges' = DOMAIN exchanges
           /\ \A j \in DOMAIN exchanges :
                  /\ j # i => exchanges'[j] = exchanges[j]
                  /\ exchanges'[j].user = exchanges[j].user
           /\ ~exchanges'[i].running
           /\ exchanges[i].user \in Users
<1>1. exchanges \in Seq(Exchanges)
  BY DEF TypeOK, Exchanges
<1>2. exchanges[i] \in Exchanges
  BY <1>1, ElementOfSeq, LenProperties
<1>3. [exchanges[i] EXCEPT !.running = FALSE] \in Exchanges
  BY <1>2 DEF Exchanges
<1>4. exchanges' = [exchanges EXCEPT ![i] = [exchanges[i] EXCEPT !.running = FALSE]]
  BY DEF Settle
<1>5. /\ exchanges' \in Seq(Exchanges) /\ Len(exchanges') = Len(exchanges)
      /\ \A j \in 1..Len(exchanges) : exchanges'[j] = IF j = i THEN [exchanges[i] EXCEPT !.running = FALSE] ELSE exchanges[j]
  BY <1>1, <1>3, <1>4, ExceptSeq, LenProperties
<1> QED
  BY <1>1, <1>2, <1>5, LenProperties DEF Exchanges

\* Every step keeps the types, and the bound.
LEMMA StepTypeOK ==
    TypeOK /\ ExchangesBounded /\ CallsOwned /\ [Next]_vars => TypeOK' /\ ExchangesBounded'
<1> SUFFICES ASSUME TypeOK, ExchangesBounded, CallsOwned, [Next]_vars
             PROVE  TypeOK' /\ ExchangesBounded'
  OBVIOUS
<1>1. CallSteps /\ TokenSteps
  BY StepKinds
<1>2. stored' \in [Users -> [Networks -> 0..MaxVersion]]
  <2>1. ASSUME NEW u \in Users, NEW n \in Networks, NEW version \in 0..MaxVersion,
               Connect(u, n, version)
        PROVE  stored' \in [Users -> [Networks -> 0..MaxVersion]]
    BY <2>1 DEF Connect, TypeOK
  <2>2. CASE UNCHANGED stored
    BY <2>2 DEF TypeOK
  <2> QED
    BY <2>1, <2>2 DEF Next, Begin, Gate, Entitlement, Meter, NetworkCap, Overlay, Adapter, vars
<1>3. /\ cache' \in [Users -> [token : 0..MaxExchanges, fresh : BOOLEAN]]
      /\ inflight' \in [Users -> 0..MaxExchanges]
      /\ exchanges' \in Seq(Exchanges)
      /\ resets' \in Nat
      /\ ExchangesBounded'
  <2> DEFINE Entries == [token : 0..MaxExchanges, fresh : BOOLEAN]
             Goal == /\ cache' \in [Users -> Entries]
                     /\ inflight' \in [Users -> 0..MaxExchanges]
                     /\ exchanges' \in Seq(Exchanges)
                     /\ resets' \in Nat
                     /\ ExchangesBounded'
  <2>0. /\ cache \in [Users -> Entries] /\ inflight \in [Users -> 0..MaxExchanges]
        /\ exchanges \in Seq(Exchanges) /\ resets \in Nat /\ Len(exchanges) <= MaxExchanges
    BY DEF TypeOK, Exchanges, ExchangesBounded
  <2>1. CASE UNCHANGED tokens
    BY <2>0, <2>1 DEF tokens, ExchangesBounded
  <2>2. ASSUME NEW u \in Users, Expire(u) PROVE Goal
    BY <2>0, <2>2 DEF Expire, ExchangesBounded
  <2>3. ASSUME NEW c \in Calls, Refreshes(c) PROVE Goal
    <3>1. /\ exchanges' \in Seq(Exchanges) /\ Len(exchanges') \in 0..MaxExchanges
          /\ call[c].user \in Users
      BY <2>3, StartAdds DEF Refreshes, Starts
    <3>2. inflight' \in [Users -> 0..MaxExchanges] /\ UNCHANGED <<cache, resets>>
      BY <2>0, <2>3, <3>1 DEF Refreshes
    <3> QED
      BY <2>0, <3>1, <3>2, TokenBoundsAssumption DEF ExchangesBounded
  <2>4. ASSUME NEW c \in Calls, Verifies(c) PROVE Goal
    <3>1. /\ exchanges' \in Seq(Exchanges) /\ Len(exchanges') \in 0..MaxExchanges
          /\ call[c].user \in Users
      BY <2>4, StartAdds DEF Verifies, Starts
    <3>2. Empty \in Entries /\ 0 \in 0..MaxExchanges
      BY TokenBoundsAssumption DEF Empty
    <3>3. inflight' \in [Users -> 0..MaxExchanges] /\ cache' \in [Users -> Entries] /\ resets' \in Nat
      BY <2>0, <2>4, <3>1, <3>2 DEF Verifies
    <3> QED
      BY <3>1, <3>3, TokenBoundsAssumption DEF ExchangesBounded
  <2>5. ASSUME NEW i \in DOMAIN exchanges, NEW accepted \in BOOLEAN, Settle(i, accepted) PROVE Goal
    <3>1. i \in 0..MaxExchanges /\ 0 \in 0..MaxExchanges
      BY <2>0, TokenBoundsAssumption, LenProperties
    <3>2. /\ cache' = cache \/ cache' = [cache EXCEPT ![exchanges[i].user] = [token |-> i, fresh |-> TRUE]]
          /\ inflight' = [inflight EXCEPT ![exchanges[i].user] = 0]
          /\ resets' = resets
      BY <2>5 DEF Settle, Store
    <3>3. [token |-> i, fresh |-> TRUE] \in Entries
      BY <3>1
    <3>4. exchanges' \in Seq(Exchanges) /\ Len(exchanges') = Len(exchanges)
      BY <2>5, SettleKeeps
    <3>5. inflight' \in [Users -> 0..MaxExchanges] /\ cache' \in [Users -> Entries]
      BY <2>0, <3>1, <3>2, <3>3
    <3> QED
      BY <2>0, <3>2, <3>4, <3>5 DEF ExchangesBounded
  <2> QED
    BY <1>1, <2>1, <2>2, <2>3, <2>4, <2>5 DEF TokenSteps
<1> QED
  BY <1>1, <1>2, <1>3 DEF TypeOK, CallSteps, Exchanges

LEMMA StepCallsOwned == TypeOK /\ CallsOwned /\ [Next]_vars => CallsOwned'
<1> SUFFICES ASSUME TypeOK, CallsOwned, [Next]_vars, NEW c \in Calls,
                    call'[c].pc \notin {"idle", "done"}
             PROVE  call'[c].user \in Users
  BY DEF CallsOwned
<1>1. Follows(c) /\ Over.pc = "done"
  BY StepKinds DEF CallSteps, Over
<1> QED
  BY <1>1 DEF Follows, CallsOwned

\* An exchange stays whose it is.
MadeNext(i, u) == i \in DOMAIN exchanges' /\ exchanges'[i].user = u

LEMMA StepMadeFor ==
    ASSUME TypeOK, ExchangesBounded, TokenSteps, NEW i, NEW u, MadeFor(i, u)
    PROVE  MadeNext(i, u)
<1> USE DEF MadeFor, MadeNext
<1>1. CASE UNCHANGED exchanges
  BY <1>1
<1>2. ASSUME NEW c \in Calls, Starts(c) PROVE MadeNext(i, u)
  BY <1>2, StartAdds
<1>3. ASSUME NEW j \in DOMAIN exchanges, NEW accepted \in BOOLEAN, Settle(j, accepted)
      PROVE  MadeNext(i, u)
  BY <1>3, SettleKeeps
<1> QED
  BY <1>1, <1>2, <1>3 DEF TokenSteps, tokens, Expire, Refreshes, Verifies

LEMMA StepTokensOwned ==
    TypeOK /\ ExchangesBounded /\ CallsOwned /\ TokensOwned /\ [Next]_vars => TokensOwned'
<1> SUFFICES ASSUME TypeOK, ExchangesBounded, CallsOwned, TokensOwned, [Next]_vars
             PROVE  TokensOwned'
  OBVIOUS
<1>1. CallSteps /\ TokenSteps
  BY StepKinds
<1>2. ASSUME NEW c \in Calls, Starts(c) PROVE MadeNext(Len(exchanges'), call[c].user)
  BY <1>2, StartAdds DEF MadeNext
<1>3. ASSUME NEW u \in Users, cache'[u].fresh PROVE MadeNext(cache'[u].token, u)
  <2>1. CASE cache'[u] = cache[u]
    BY <1>1, <1>3, <2>1, StepMadeFor DEF TokensOwned
  <2>2. ASSUME NEW v \in Users, Expire(v) PROVE cache'[u] = cache[u]
    BY <1>3, <2>2 DEF Expire, TypeOK
  <2>3. ASSUME NEW c \in Calls, Verifies(c) PROVE FALSE
    BY <1>3, <2>3 DEF Verifies, Empty
  <2>4. ASSUME NEW i \in DOMAIN exchanges, NEW accepted \in BOOLEAN, Settle(i, accepted),
               cache'[u] # cache[u]
        PROVE  MadeNext(cache'[u].token, u)
    <3>1. u = exchanges[i].user /\ cache'[u].token = i
      BY <2>4 DEF Settle, Store, TypeOK
    <3> QED
      BY <1>1, <3>1, StepMadeFor DEF MadeFor
  <2> QED
    BY <1>1, <2>1, <2>2, <2>3, <2>4 DEF TokenSteps, tokens, Refreshes
<1>4. ASSUME NEW u \in Users, inflight'[u] # 0 PROVE MadeNext(inflight'[u], u)
  <2>1. CASE inflight'[u] = inflight[u]
    BY <1>1, <1>4, <2>1, StepMadeFor DEF TokensOwned
  <2>2. ASSUME NEW c \in Calls, Refreshes(c) \/ Verifies(c), inflight'[u] # inflight[u]
        PROVE  MadeNext(inflight'[u], u)
    <3>1. u = call[c].user /\ inflight'[u] = Len(exchanges') /\ Starts(c)
      BY <1>4, <2>2 DEF Refreshes, Verifies, TypeOK
    <3> QED
      BY <1>2, <3>1
  <2>3. ASSUME NEW i \in DOMAIN exchanges, NEW accepted \in BOOLEAN, Settle(i, accepted)
        PROVE  inflight'[u] = inflight[u]
    BY <1>4, <2>3 DEF Settle, TypeOK
  <2> QED
    BY <1>1, <2>1, <2>2, <2>3 DEF TokenSteps, tokens, Expire
<1>5. ASSUME NEW c \in Calls, call[c].user \in Users, Promised(c)
      PROVE  MadeNext(call'[c].promise, call[c].user)
  BY <1>1, <1>2, <1>5, StepMadeFor DEF Promised, TokensOwned
<1>6. ASSUME NEW c \in Calls, call[c].user \in Users, Given(c)
      PROVE  MadeNext(call'[c].token, call[c].user)
  BY <1>1, <1>6, StepMadeFor DEF Given, TokensOwned
<1>7. ASSUME NEW c \in Calls
      PROVE  /\ call'[c].pc = "token" => MadeNext(call'[c].promise, call'[c].user)
             /\ call'[c].pc = "request" => MadeNext(call'[c].token, call'[c].user)
  <2>1. Follows(c) /\ Over.pc = "done"
    BY <1>1 DEF CallSteps, Over
  <2>2. CASE call'[c] = call[c]
    BY <1>1, <2>2, StepMadeFor DEF TokensOwned
  <2> QED
    BY <1>5, <1>6, <2>1, <2>2 DEF Follows
<1> QED
  BY <1>3, <1>4, <1>7 DEF TokensOwned, MadeFor, MadeNext

\* What is left in the table by a settled refresh began without credentials.
LEMMA StepMissingStick ==
    TypeOK /\ ExchangesBounded /\ CallsOwned /\ TokensOwned /\ OnlyMissingCredentialsStick
        /\ [Next]_vars => OnlyMissingCredentialsStick'
<1> SUFFICES ASSUME TypeOK, ExchangesBounded, CallsOwned, TokensOwned, OnlyMissingCredentialsStick,
                    [Next]_vars, NEW u \in Users, inflight'[u] # 0, ~exchanges'[inflight'[u]].running
             PROVE  exchanges'[inflight'[u]].version = 0
  BY DEF OnlyMissingCredentialsStick
<1>1. TokenSteps
  BY StepKinds
<1>2. CASE UNCHANGED <<inflight, exchanges>>
  BY <1>2 DEF OnlyMissingCredentialsStick
<1>3. ASSUME NEW c \in Calls, Refreshes(c) \/ Verifies(c) PROVE exchanges'[inflight'[u]].version = 0
  <2>1. Starts(c) /\ call[c].version \in 0..MaxVersion
    BY <1>3 DEF Refreshes, Verifies, TypeOK, CallType
  <2>2. CASE inflight'[u] = inflight[u]
    <3>1. MadeFor(inflight[u], u)
      BY <2>2 DEF TokensOwned
    <3> QED
      BY <2>1, <2>2, <3>1, StartAdds DEF MadeFor, OnlyMissingCredentialsStick
  <2>3. CASE inflight'[u] # inflight[u]
    <3>1. inflight'[u] = Len(exchanges')
      BY <1>3, <2>3 DEF Refreshes, Verifies, TypeOK
    <3> QED
      BY <2>1, <3>1, StartAdds
  <2> QED
    BY <2>2, <2>3
<1>4. ASSUME NEW i \in DOMAIN exchanges, NEW accepted \in BOOLEAN, Settle(i, accepted)
      PROVE  exchanges'[inflight'[u]].version = 0
  <2>1. inflight'[u] = inflight[u] /\ u # exchanges[i].user
    BY <1>4 DEF Settle, TypeOK
  <2>2. MadeFor(inflight[u], u)
    BY <2>1 DEF TokensOwned
  <2>3. inflight[u] # i
    BY <2>1, <2>2 DEF MadeFor
  <2> QED
    BY <1>4, <2>1, <2>2, <2>3, SettleKeeps DEF MadeFor, OnlyMissingCredentialsStick
<1> QED
  BY <1>1, <1>2, <1>3, <1>4 DEF TokenSteps, tokens, Expire

Table(u) == IF Joinable(u) THEN 1 ELSE 0

LEMMA FiniteRunning ==
    ASSUME NEW S, NEW q \in Seq(S), NEW R, R \subseteq DOMAIN q
    PROVE  IsFiniteSet(R) /\ Cardinality(R) \in Nat
<1>1. IsFiniteSet(DOMAIN q)
  BY LenProperties, FS_Interval
<1> QED
  BY <1>1, FS_Subset, FS_CardinalityType

\* A refresh is started when the table holds none that runs, or after emptying it: so
\* one more runs only if it is the one in the table, or the table was emptied once
\* more.
LEMMA StepRunningCounted ==
    TypeOK /\ ExchangesBounded /\ CallsOwned /\ TokensOwned /\ RunningCounted /\ [Next]_vars
        => RunningCounted'
<1> SUFFICES ASSUME TypeOK, ExchangesBounded, CallsOwned, TokensOwned, RunningCounted,
                    [Next]_vars, NEW u \in Users
             PROVE  Cardinality(Running(u)') <= resets' + Table(u)'
  BY DEF RunningCounted, Table
<1> DEFINE R == Running(u)
           Q == Running(u)'
<1>0. TokenSteps /\ resets \in Nat
  BY StepKinds DEF TypeOK
<1>1. IsFiniteSet(R) /\ Cardinality(R) \in Nat /\ Cardinality(R) <= resets + Table(u)
  <2>1. R \subseteq DOMAIN exchanges /\ exchanges \in Seq(Exchanges)
    BY DEF Running, TypeOK, Exchanges
  <2>2. Cardinality(R) <= resets + Table(u)
    BY DEF RunningCounted, Table
  <2> HIDE DEF R
  <2> QED
    BY <2>1, <2>2, FiniteRunning
<1>2. Table(u) \in {0, 1} /\ Table(u)' \in {0, 1}
  BY DEF Table
<1>3. CASE UNCHANGED <<inflight, exchanges, resets>>
  BY <1>1, <1>3 DEF Running, Table, Joinable
<1>4. ASSUME NEW c \in Calls, Starts(c), u # call[c].user \/ ~exchanges'[Len(exchanges')].running
      PROVE  Q = R
  BY <1>4, StartAdds DEF Running
<1>5. ASSUME NEW c \in Calls, Starts(c), u = call[c].user, exchanges'[Len(exchanges')].running
      PROVE  Cardinality(Q) = Cardinality(R) + 1
  <2>1. Q = R \cup {Len(exchanges')} /\ Len(exchanges') \notin R
    BY <1>5, StartAdds DEF Running
  <2> HIDE DEF Q, R
  <2> QED
    BY <1>1, <2>1, FS_AddElement
<1>6. ASSUME NEW c \in Calls, Refreshes(c) PROVE Cardinality(Q) <= resets' + Table(u)'
  <2>1. Starts(c) /\ inflight[call[c].user] = 0 /\ resets' = resets
    BY <1>6 DEF Refreshes, InFlight
  <2>2. CASE u # call[c].user
    <3>1. inflight'[u] = inflight[u]
      BY <1>6, <2>2 DEF Refreshes, TypeOK
    <3>2. Table(u)' = Table(u)
      BY <2>1, <3>1, StartAdds DEF Table, Joinable, TokensOwned, MadeFor
    <3> QED
      BY <1>1, <1>4, <2>1, <2>2, <3>2
  <2>3. CASE u = call[c].user /\ ~exchanges'[Len(exchanges')].running
    <3>1. Table(u) = 0
      BY <2>1, <2>3 DEF Table, Joinable
    <3> HIDE DEF Q, R
    <3> QED
      BY <1>0, <1>1, <1>2, <1>4, <2>1, <2>3, <3>1
  <2>4. CASE u = call[c].user /\ exchanges'[Len(exchanges')].running
    <3>1. Table(u) = 0
      BY <2>1, <2>4 DEF Table, Joinable
    <3>2. inflight'[u] = Len(exchanges') /\ Len(exchanges') # 0
      BY <1>6, <2>1, <2>4, StartAdds DEF Refreshes, TypeOK
    <3>3. Table(u)' = 1
      BY <2>4, <3>2 DEF Table, Joinable
    <3> HIDE DEF Q, R
    <3> QED
      BY <1>0, <1>1, <1>5, <2>1, <2>4, <3>1, <3>3
  <2> QED
    BY <2>2, <2>3, <2>4
<1>7. ASSUME NEW c \in Calls, Verifies(c) PROVE Cardinality(Q) <= resets' + Table(u)'
  <2>1. Starts(c) /\ resets' = resets + 1
    BY <1>7 DEF Verifies
  <2>2. CASE u # call[c].user \/ ~exchanges'[Len(exchanges')].running
    <3>1. Q = R
      BY <1>4, <2>1, <2>2
    <3> HIDE DEF Q, R
    <3> QED
      BY <1>0, <1>1, <1>2, <2>1, <3>1
  <2>3. CASE u = call[c].user /\ exchanges'[Len(exchanges')].running
    <3>1. inflight'[u] = Len(exchanges') /\ Len(exchanges') # 0
      BY <1>7, <2>1, <2>3, StartAdds DEF Verifies, TypeOK
    <3>2. Table(u)' = 1
      BY <2>3, <3>1 DEF Table, Joinable
    <3> HIDE DEF Q, R
    <3> QED
      BY <1>0, <1>1, <1>2, <1>5, <2>1, <2>3, <3>2
  <2> QED
    BY <2>2, <2>3
<1>8. ASSUME NEW i \in DOMAIN exchanges, NEW accepted \in BOOLEAN, Settle(i, accepted)
      PROVE  Cardinality(Q) <= resets' + Table(u)'
  <2>1. resets' = resets /\ exchanges[i].running
    BY <1>8 DEF Settle
  <2>2. CASE u = exchanges[i].user
    <3>1. Q = R \ {i} /\ i \in R
      BY <1>8, <2>1, <2>2, SettleKeeps DEF Running, Settle
    <3>2. Cardinality(Q) = Cardinality(R) - 1
      <4> HIDE DEF Q, R
      <4> QED
        BY <1>1, <3>1, FS_RemoveElement
    <3> HIDE DEF Q, R
    <3> QED
      BY <1>0, <1>1, <1>2, <2>1, <3>2
  <2>3. CASE u # exchanges[i].user
    <3>1. Q = R
      BY <1>8, <2>3, SettleKeeps DEF Running
    <3>2. inflight'[u] = inflight[u]
      BY <1>8, <2>3 DEF Settle, TypeOK
    <3>3. inflight[u] # 0 => inflight[u] \in DOMAIN exchanges /\ inflight[u] # i
      BY <2>3 DEF TokensOwned, MadeFor
    <3>4. Table(u)' = Table(u)
      BY <1>8, <3>2, <3>3, SettleKeeps DEF Table, Joinable
    <3> HIDE DEF Q, R
    <3> QED
      BY <1>1, <2>1, <3>1, <3>4
  <2> QED
    BY <2>2, <2>3
<1> QED
  BY <1>0, <1>3, <1>6, <1>7, <1>8 DEF TokenSteps, tokens, Expire

LEMMA InitIndInv == Init => IndInv
<1> SUFFICES ASSUME Init PROVE IndInv
  OBVIOUS
<1> USE TokenBoundsAssumption DEF Init, InitTokens
<1>1. NoCall \in CallType /\ NoCall.pc = "idle"
  BY OverTyped, ExceptTyped DEF NoCall, Pcs, Over
<1>2. exchanges \in Seq([user : Users, version : 0..MaxVersion, running : BOOLEAN]) /\ DOMAIN exchanges = {}
  BY EmptySeq
<1>3. TypeOK
  <2>1. Empty \in [token : 0..MaxExchanges, fresh : BOOLEAN] /\ 0 \in 0..MaxExchanges /\ 0 \in 0..MaxVersion
    BY DEF Empty
  <2> QED
    BY <1>1, <1>2, <2>1 DEF TypeOK
<1>4. ExchangesBounded /\ CallsOwned /\ TokensOwned /\ OnlyMissingCredentialsStick
  BY <1>1, EmptySeq DEF ExchangesBounded, CallsOwned, TokensOwned, OnlyMissingCredentialsStick, Empty
<1>5. RunningCounted
  BY <1>2, FS_EmptySet DEF RunningCounted, Running, Joinable
<1> QED
  BY <1>3, <1>4, <1>5 DEF IndInv

LEMMA IndInvHolds == Spec => []IndInv
<1>1. IndInv /\ [Next]_vars => IndInv'
  BY StepTypeOK, StepCallsOwned, StepTokensOwned, StepMissingStick, StepRunningCounted DEF IndInv
<1> QED
  BY <1>1, InitIndInv, PTL DEF Spec

-----------------------------------------------------------------------------
(***************************************************************************)
(* The theorems                                                            *)
(***************************************************************************)
\* Every variable has its type.
THEOREM TypeCorrect == Spec => []TypeOK
<1>1. IndInv => TypeOK
  BY DEF IndInv
<1> QED
  BY <1>1, IndInvHolds, PTL

\* No interleaving of calls, refreshes, retries and resets hands a call the token of
\* another user.
THEOREM NoTokenCrosses == Spec => []TokenIsCallers
<1>1. IndInv => TokenIsCallers
  BY DEF IndInv, TokensOwned, MadeFor, TokenIsCallers
<1> QED
  BY <1>1, IndInvHolds, PTL

\* Callers of one user share their exchange; each verifyAuth costs at most one more.
THEOREM OneExchangePerReset == Spec => []ExchangesShared
<1>1. IndInv => ExchangesShared
  <2> SUFFICES ASSUME IndInv, NEW u \in Users PROVE Cardinality(Running(u)) <= 1 + resets
    BY DEF ExchangesShared
  <2>1. Running(u) \subseteq DOMAIN exchanges /\ exchanges \in Seq(Exchanges) /\ resets \in Nat
    BY DEF IndInv, TypeOK, Exchanges, Running
  <2>2. Cardinality(Running(u)) \in Nat
    BY <2>1, FiniteRunning
  <2>3. Cardinality(Running(u)) <= resets + Table(u) /\ Table(u) \in {0, 1}
    BY DEF IndInv, RunningCounted, Table
  <2> QED
    BY <2>1, <2>2, <2>3
<1> QED
  BY <1>1, IndInvHolds, PTL

\* A refresh that failed after it was sent is forgotten; one that could not be sent
\* stays, and rejects every later call of its user until the table is emptied.
THEOREM OnlyUnsentRefreshesStick == Spec => []OnlyMissingCredentialsStick
<1>1. IndInv => OnlyMissingCredentialsStick
  BY DEF IndInv
<1> QED
  BY <1>1, IndInvHolds, PTL
=============================================================================
