---------------------------- MODULE LicenceProofs ----------------------------
(***************************************************************************)
(* Proofs about the desktop app's subscription, for any number of          *)
(* overlapping requests, checkouts, webhook invocations and Stripe events: *)
(* premium ends within one token's life of the last paid event the webhook *)
(* stored, and the file holds the key the user settled on.                 *)
(***************************************************************************)
EXTENDS Licence, FiniteSetTheorems, TLAPS

-----------------------------------------------------------------------------
(***************************************************************************)
(* The inductive invariant                                                 *)
(***************************************************************************)
\* A token is of a paid key, or expires within one life of the last paid moment.
InTime(t) ==
    t # NoToken =>
        /\ t.key # 0
        /\ \/ standing[t.key].live
           \/ standing[t.key].until > 0 /\ t.exp <= standing[t.key].until + TTL

\* So is every token in the file, in an answer, or in what a request has read.
TokensInTime ==
    /\ InTime(store.token)
    /\ \A r \in Requests : InTime(request[r].token) /\ InTime(request[r].stored.token)

\* An active record is one that the last event stored called paid for.
RecordsAsHeard == \A k \in Keys : records[k] = "active" => standing[k].live

\* A refresh is sent for the key in the file, which is then the user's.
RefreshesHoldKey == \A r \in Requests : Refreshing(r) => request[r].stored.key # 0
RefreshesFollowUser ==
    \A r \in Requests : Refreshing(r) => tangled \/ request[r].stored.key = intended

IndInv ==
    /\ TypeOK
    /\ IsFiniteSet(events)
    /\ TokensInTime
    /\ RecordsAsHeard
    /\ RefreshesHoldKey
    /\ RefreshesFollowUser
    /\ StoreFollowsUser

-----------------------------------------------------------------------------
(***************************************************************************)
(* What a step may change                                                  *)
(***************************************************************************)
Request ==
    [pc : {"idle", "checkout", "checkedOut", "refresh", "refreshed"},
     stored : Stored, key : 0 .. minted, token : Token]

\* The steps that change a request, and what they leave of it.
RequestStep(r) ==
    Subscribe(r) \/ CheckNow(r) \/ CheckoutEnds(r) \/ RefreshEnds(r) \/ Lost(r)
    \/ Checkout(r) \/ Entitlement(r)

LEMMA RequestMoves ==
    ASSUME [Next]_vars
    PROVE  UNCHANGED request \/ \E r \in Requests : RequestStep(r)
  BY DEF Next, Click, Settled, Issuer, Stripe, Tick, Open, SignOut, Receive, PutRecord, Swallow, Mark,
         Crash, Completed, Updated, Deleted, Emit, app, vars, RequestStep

\* The steps that change the file.
LEMMA StoreMoves ==
    ASSUME [Next]_vars
    PROVE  UNCHANGED store \/ SignOut \/ \E r \in Requests : CheckoutEnds(r) \/ RefreshEnds(r)
  BY DEF Next, Click, Settled, Issuer, Stripe, Tick, Open, Receive, PutRecord, Swallow, Mark, Subscribe,
         CheckNow, Lost, Checkout, Entitlement, Crash, Completed, Updated, Deleted, Emit, app, vars

\* The steps that settle on a key.
LEMMA IntendedMoves ==
    ASSUME [Next]_vars
    PROVE  UNCHANGED <<intended, tangled>> \/ SignOut \/ \E r \in Requests : CheckoutEnds(r)
  BY DEF Next, Click, Settled, Issuer, Stripe, Tick, Open, Receive, PutRecord, Swallow, Mark, Subscribe,
         CheckNow, Lost, RefreshEnds, Checkout, Entitlement, Crash, Completed, Updated, Deleted, Emit,
         app, vars

\* The steps that change what is heard and recorded of a key.
LEMMA RecordMoves ==
    ASSUME [Next]_vars
    PROVE  \/ UNCHANGED <<records, standing>>
           \/ \E r \in Requests : Checkout(r)
           \/ \E h \in Hooks : PutRecord(h)
  BY DEF Next, Click, Settled, Issuer, Stripe, Tick, Open, SignOut, Receive, Swallow, Mark, Subscribe,
         CheckNow, CheckoutEnds, RefreshEnds, Lost, Entitlement, Crash, Completed, Updated, Deleted, Emit,
         issuer, vars

\* The clock and the number of keys only grow, so tokens keep their type.
LEMMA NumbersGrow ==
    ASSUME TypeOK, [Next]_vars
    PROVE  /\ now \in Nat /\ now > 0 /\ minted \in Nat /\ TTL \in Nat
           /\ now' \in 1 .. MaxTime /\ now <= now'
           /\ minted' \in 0 .. MaxKeys /\ minted <= minted'
           /\ Token \subseteq Token' /\ Stored \subseteq Stored'
           /\ SignedOut \in Stored /\ NoToken \in Token
<1>1. now \in 1 .. MaxTime /\ minted \in 0 .. MaxKeys /\ MaxKeys \in Nat /\ MaxTime \in Nat /\ TTL \in Nat
  BY BoundsAssumption DEF TypeOK
<1>2. now' = now \/ (now < MaxTime /\ now' = now + 1)
  BY DEF Next, Click, Settled, Issuer, Stripe, Tick, Open, SignOut, Receive, PutRecord, Swallow, Mark,
         Subscribe, CheckNow, CheckoutEnds, RefreshEnds, Lost, Checkout, Entitlement, Crash, Completed,
         Updated, Deleted, Emit, vars
<1>3. minted' = minted \/ (minted < MaxKeys /\ minted' = minted + 1)
  BY DEF Next, Click, Settled, Issuer, Stripe, Tick, Open, SignOut, Receive, PutRecord, Swallow, Mark,
         Subscribe, CheckNow, CheckoutEnds, RefreshEnds, Lost, Checkout, Entitlement, Crash, Completed,
         Updated, Deleted, Emit, issuer, vars
<1>4. now' \in 1 .. MaxTime /\ now <= now' /\ minted' \in 0 .. MaxKeys /\ minted <= minted'
  BY <1>1, <1>2, <1>3
<1>5. 0 .. minted \subseteq 0 .. minted' /\ 0 .. now + TTL \subseteq 0 .. now' + TTL
  <2>1. now \in Nat /\ now' \in Nat /\ minted \in Nat /\ minted' \in Nat
    BY <1>1, <1>4
  <2>2. 0 .. minted \subseteq 0 .. minted'
    BY <1>4, <2>1
  <2>3. 0 .. (now + TTL) \subseteq 0 .. (now' + TTL)
    <3>1. now <= now' /\ TTL \in Nat
      BY <1>1, <1>4
    <3>2. \A a, b, c \in Nat : a <= b => 0 .. (a + c) \subseteq 0 .. (b + c)
      OBVIOUS
    <3> QED
      BY <2>1, <3>1, <3>2
  <2> QED
    BY <2>2, <2>3
<1>6. Token \subseteq Token'
  BY <1>5 DEF Token
<1>7. Stored \subseteq Stored'
  BY <1>5, <1>6 DEF Stored
<1>8. 0 \in 0 .. minted /\ 0 \in 0 .. now + TTL
  BY <1>1
<1>9. NoToken \in Token
  BY <1>8 DEF NoToken, Token
<1>10. SignedOut \in Stored
  BY <1>8, <1>9 DEF SignedOut, Stored
<1> QED
  BY <1>1, <1>4, <1>6, <1>7, <1>9, <1>10

\* A key that the issuer is asked about is one it has given out.
LEMMA MintTyped ==
    ASSUME TypeOK, NEW k \in Keys, k <= minted
    PROVE  /\ Mint(k) \in Token
           /\ RecordsAsHeard => InTime(Mint(k))
<1>1. now \in Nat /\ TTL \in Nat /\ minted \in Nat /\ k \in Nat /\ k # 0
  BY BoundsAssumption DEF TypeOK, Keys
<1>2. CASE records[k] = "active"
  <2>1. Mint(k) = [key |-> k, exp |-> now + TTL]
    BY <1>2 DEF Mint, IsActive
  <2>2. now + TTL \in 0 .. now + TTL /\ k \in 0 .. minted
    BY <1>1
  <2> QED
    BY <1>1, <1>2, <2>1, <2>2 DEF Token, RecordsAsHeard, InTime
<1>3. CASE records[k] # "active"
  <2>1. Mint(k) = NoToken
    BY <1>3 DEF Mint, IsActive
  <2>2. 0 \in 0 .. now + TTL /\ 0 \in 0 .. minted
    BY <1>1
  <2> QED
    BY <2>1, <2>2 DEF NoToken, Token, InTime
<1> QED
  BY <1>2, <1>3

\* What one step makes of a request: fields it keeps, what it has read, what it is answered.
LEMMA RequestBecomes ==
    ASSUME TypeOK, RefreshesHoldKey, [Next]_vars, NEW q \in Requests
    PROVE  \/ request'[q] = request[q]
           \/ request'[q] = Idle
           \/ request'[q] = [request[q] EXCEPT !.pc = "checkout"] /\ request[q] = Idle
           \/ request'[q] = [Idle EXCEPT !.pc = "refresh", !.stored = store] /\ store.key # 0
           \/ /\ request'[q] = [request[q] EXCEPT !.pc = "checkedOut", !.key = minted']
              /\ request[q].pc = "checkout"
           \/ /\ request'[q] = [request[q] EXCEPT !.pc = "refreshed",
                                                  !.token = Mint(request[q].stored.key)]
              /\ Refreshing(q)
<1>1. request \in [Requests -> Request]
  BY DEF TypeOK, Request
<1>2. CASE UNCHANGED request
  BY <1>2
<1>3. ASSUME NEW r \in Requests, RequestStep(r) PROVE q # r => request'[q] = request[q]
  BY <1>1, <1>3 DEF RequestStep, Subscribe, CheckNow, CheckoutEnds, RefreshEnds, Lost, Checkout, Entitlement
<1>4. CASE RequestStep(q)
  <2>1. CASE Subscribe(q)
    BY <1>1, <2>1 DEF Subscribe
  <2>2. CASE CheckNow(q)
    BY <1>1, <2>2 DEF CheckNow
  <2>3. CASE CheckoutEnds(q) \/ RefreshEnds(q) \/ Lost(q)
    BY <1>1, <2>3 DEF CheckoutEnds, RefreshEnds, Lost
  <2>4. CASE Checkout(q)
    BY <1>1, <2>4 DEF Checkout
  <2>5. CASE Entitlement(q)
    BY <1>1, <2>5 DEF Entitlement, Refreshing
  <2> QED
    BY <1>4, <2>1, <2>2, <2>3, <2>4, <2>5 DEF RequestStep
<1> QED
  BY <1>2, <1>3, <1>4, RequestMoves

-----------------------------------------------------------------------------
(***************************************************************************)
(* Types                                                                   *)
(***************************************************************************)
LEMMA StepRequests ==
    ASSUME TypeOK, RefreshesHoldKey, [Next]_vars
    PROVE  request' \in [Requests -> Request']
<1> USE NumbersGrow
<1>1. request \in [Requests -> Request] /\ store \in Stored
  BY DEF TypeOK, Request
<1>2. 0 \in 0 .. minted /\ 0 .. minted \subseteq 0 .. minted' /\ minted' \in 0 .. minted'
  BY DEF TypeOK
<1>3. Request \subseteq Request'
  BY <1>2 DEF Request
<1>4. Idle \in Request
  BY <1>2 DEF Idle, Request
<1>5. ASSUME NEW q \in Requests PROVE request'[q] \in Request'
  <2>1. request[q] \in Request /\ request[q] \in Request' /\ Idle \in Request'
    BY <1>1, <1>3, <1>4
  <2>2. CASE request'[q] = [request[q] EXCEPT !.pc = "checkout"]
    BY <2>1, <2>2 DEF Request
  <2>3. CASE request'[q] = [Idle EXCEPT !.pc = "refresh", !.stored = store]
    <3>1. store \in Stored'
      BY <1>1
    <3> QED
      BY <2>1, <2>3, <3>1 DEF Request
  <2>4. CASE request'[q] = [request[q] EXCEPT !.pc = "checkedOut", !.key = minted']
    BY <1>2, <2>1, <2>4 DEF Request
  <2>5. CASE /\ request'[q] = [request[q] EXCEPT !.pc = "refreshed",
                                                !.token = Mint(request[q].stored.key)]
             /\ Refreshing(q)
    <3>1. request[q].stored.key \in Keys /\ request[q].stored.key <= minted
      <4>1. request[q].stored.key \in 0 .. minted /\ request[q].stored.key # 0
        BY <2>1, <2>5 DEF RefreshesHoldKey, Request, Stored
      <4>2. minted \in 0 .. MaxKeys /\ MaxKeys \in Nat
        BY BoundsAssumption DEF TypeOK
      <4> QED
        BY <4>1, <4>2 DEF Keys
    <3>2. Mint(request[q].stored.key) \in Token'
      BY <3>1, MintTyped
    <3> QED
      BY <2>1, <2>5, <3>2 DEF Request
  <2> QED
    BY <2>1, <2>2, <2>3, <2>4, <2>5, RequestBecomes
<1>6. request' = [q \in Requests |-> request'[q]]
  <2>1. CASE UNCHANGED request
    BY <1>1, <2>1
  <2>2. ASSUME NEW r \in Requests, RequestStep(r) PROVE request' = [q \in Requests |-> request'[q]]
    BY <1>1, <2>2 DEF RequestStep, Subscribe, CheckNow, CheckoutEnds, RefreshEnds, Lost, Checkout, Entitlement
  <2> QED
    BY <2>1, <2>2, RequestMoves
<1> QED
  BY <1>5, <1>6

LEMMA StepStore ==
    ASSUME TypeOK, [Next]_vars
    PROVE  store' \in Stored' /\ page' \in {"none", "inactive", "active"} /\ intended' \in 0 .. minted'
<1> USE NumbersGrow
<1>1. request \in [Requests -> Request] /\ store \in Stored /\ SignedOut \in Stored /\ intended \in 0 .. minted
  BY DEF TypeOK, Request
<1>2. 0 \in 0 .. minted' /\ 0 .. minted \subseteq 0 .. minted'
  BY DEF TypeOK
<1>3. store' \in Stored'
  <2>1. CASE UNCHANGED store \/ SignOut
    BY <1>1, <2>1 DEF SignOut, Write
  <2>2. ASSUME NEW r \in Requests, CheckoutEnds(r) PROVE store' \in Stored
    BY <1>1, <2>2 DEF CheckoutEnds, Write, Stored, Request
  <2>3. ASSUME NEW r \in Requests, RefreshEnds(r) PROVE store' \in Stored
    BY <1>1, <2>3 DEF RefreshEnds, Refreshed, Write, Stored, Request
  <2> QED
    BY <2>1, <2>2, <2>3, StoreMoves
<1>4. page' \in {"none", "inactive", "active"}
  <2>1. page \in {"none", "inactive", "active"} /\ \A s : Shown(s) \in {"none", "inactive", "active"}
    BY DEF TypeOK, Shown
  <2>2. page' \in {page, Shown(store), Shown(store')}
    BY DEF Next, Click, Settled, Issuer, Stripe, Tick, Open, SignOut, Receive, PutRecord, Swallow, Mark,
         Subscribe, CheckNow, CheckoutEnds, RefreshEnds, Lost, Checkout, Entitlement, Crash, Completed,
         Updated, Deleted, Emit, Write, app, vars
  <2> QED
    BY <2>1, <2>2
<1>5. intended' \in 0 .. minted'
  <2>1. CASE UNCHANGED <<intended, tangled>> \/ SignOut
    BY <1>1, <1>2, <2>1 DEF SignOut, Settle
  <2>2. ASSUME NEW r \in Requests, CheckoutEnds(r) PROVE intended' \in 0 .. minted
    BY <1>1, <2>2 DEF CheckoutEnds, Settle, Request
  <2> QED
    BY <1>2, <2>1, <2>2, IntendedMoves
<1> QED
  BY <1>3, <1>4, <1>5
\* The issuer's side and Stripe's.
LEMMA StepRecords ==
    ASSUME TypeOK, IsFiniteSet(events), [Next]_vars
    PROVE  /\ records' \in [Keys -> {"absent", "pending", "active", "past_due", "canceled"}]
           /\ standing' \in [Keys -> [live : BOOLEAN, until : 0 .. now']]
<1> DEFINE Statuses == {"absent", "pending", "active", "past_due", "canceled"}
           Standing == [live : BOOLEAN, until : 0 .. now]
<1>1. records \in [Keys -> Statuses] /\ standing \in [Keys -> Standing] /\ now \in 0 .. now
  BY NumbersGrow DEF TypeOK
<1>2. Standing \subseteq [live : BOOLEAN, until : 0 .. now']
  BY NumbersGrow
<1>3. CASE UNCHANGED <<records, standing>>
  BY <1>1, <1>2, <1>3
<1>4. ASSUME NEW r \in Requests, Checkout(r)
      PROVE  records' \in [Keys -> Statuses] /\ standing' = standing
  BY <1>1, <1>4 DEF Checkout
<1>5. ASSUME NEW h \in Hooks, PutRecord(h)
      PROVE  records' \in [Keys -> Statuses] /\ standing' \in [Keys -> Standing]
  <2> DEFINE e == hook[h].event
  <2>1. e \in Event
    BY <1>5 DEF PutRecord, TypeOK
  <2>2. e.key \in Keys /\ Status(e) \in Statuses
    BY <2>1 DEF Event, Status
  <2>3. records' \in [Keys -> Statuses]
    BY <1>1, <1>5, <2>2 DEF PutRecord
  <2> DEFINE live == e.status \in {"paid", "active"}
             until == IF standing[e.key].live /\ ~live THEN now ELSE standing[e.key].until
  <2>4. standing' = [standing EXCEPT ![e.key] = [live |-> live, until |-> until]]
    BY <1>5 DEF PutRecord, Hears
  <2>5. live \in BOOLEAN /\ until \in 0 .. now
    BY <1>1, <2>2
  <2> HIDE DEF live, until
  <2>6. [live |-> live, until |-> until] \in Standing
    BY <2>5
  <2> QED
    BY <1>1, <2>2, <2>3, <2>4, <2>6
<1> QED
  BY <1>1, <1>2, <1>3, <1>4, <1>5, RecordMoves

LEMMA StepEvents ==
    ASSUME TypeOK, IsFiniteSet(events), [Next]_vars
    PROVE  /\ paying' \in [Keys -> {"none", "active", "past_due", "canceled"}]
           /\ events' \subseteq Event /\ IsFiniteSet(events') /\ events \subseteq events'
<1>1. paying \in [Keys -> {"none", "active", "past_due", "canceled"}] /\ events \subseteq Event
  BY DEF TypeOK
<1>2. CASE UNCHANGED stripe
  BY <1>1, <1>2 DEF stripe
<1>3. ASSUME NEW key \in Keys, NEW type, NEW status, Emit(key, type, status),
             \A n : [key |-> key, type |-> type, status |-> status, seq |-> n] \in Event
                    <=> n \in 1 .. MaxEvents
      PROVE  events' \subseteq Event /\ IsFiniteSet(events') /\ events \subseteq events'
  <2> DEFINE seen == {e \in events : e.key = key}
             seq == 1 + Cardinality(seen)
             e == [key |-> key, type |-> type, status |-> status, seq |-> seq]
  <2>1. Cardinality(seen) \in Nat /\ Cardinality(seen) <= Cardinality(events)
        /\ Cardinality(events) \in Nat
    BY FS_Subset, FS_CardinalityType
  <2>2. events' = events \cup {e} /\ Cardinality(events) < MaxEvents
    BY <1>3 DEF Emit
  <2> HIDE DEF seen
  <2>3. seq \in 1 .. MaxEvents
    BY <2>1, <2>2, BoundsAssumption
  <2> HIDE DEF seq
  <2>4. e \in Event
    BY <1>3, <2>3
  <2> HIDE DEF e
  <2> QED
    BY <1>1, <2>2, <2>4, FS_AddElement
<1>4. ASSUME NEW key \in Keys, NEW payment \in {"paid", "unpaid"}, Completed(key, payment)
      PROVE  Emit(key, "completed", payment) /\ paying' \in [Keys -> {"none", "active", "past_due", "canceled"}]
  BY <1>1, <1>4 DEF Completed
<1>5. ASSUME NEW key \in Keys, NEW status \in {"active", "past_due"}, Updated(key, status)
      PROVE  Emit(key, "updated", status) /\ paying' \in [Keys -> {"none", "active", "past_due", "canceled"}]
  BY <1>1, <1>5 DEF Updated
<1>6. ASSUME NEW key \in Keys, Deleted(key)
      PROVE  Emit(key, "deleted", "canceled") /\ paying' \in [Keys -> {"none", "active", "past_due", "canceled"}]
  BY <1>1, <1>6 DEF Deleted
<1>7. ASSUME NEW key \in Keys
      PROVE  /\ \A payment \in {"paid", "unpaid"} : \A n :
                   [key |-> key, type |-> "completed", status |-> payment, seq |-> n] \in Event
                   <=> n \in 1 .. MaxEvents
             /\ \A status \in {"active", "past_due"} : \A n :
                   [key |-> key, type |-> "updated", status |-> status, seq |-> n] \in Event
                   <=> n \in 1 .. MaxEvents
             /\ \A n : [key |-> key, type |-> "deleted", status |-> "canceled", seq |-> n] \in Event
                   <=> n \in 1 .. MaxEvents
  BY DEF Event
<1>8. UNCHANGED stripe \/ Stripe
  BY DEF Next, Click, Settled, Issuer, Tick, Open, SignOut, Receive, PutRecord, Swallow, Mark, Subscribe,
         CheckNow, CheckoutEnds, RefreshEnds, Lost, Checkout, Entitlement, Crash, stripe, vars
<1> QED
  BY <1>2, <1>3, <1>4, <1>5, <1>6, <1>7, <1>8 DEF Stripe
LEMMA StepHooks ==
    ASSUME TypeOK, IsFiniteSet(events), [Next]_vars
    PROVE  /\ marked' \subseteq events'
           /\ hook' \in [Hooks -> [pc : {"idle"}] \cup [pc : {"handling", "marking"}, event : events']]
<1> DEFINE Invocation == [pc : {"idle"}] \cup [pc : {"handling", "marking"}, event : events]
<1>1. marked \subseteq events /\ hook \in [Hooks -> Invocation]
  BY DEF TypeOK
<1>2. events \subseteq events'
  BY StepEvents
<1>3. marked' \subseteq events /\ hook' \in [Hooks -> Invocation]
  <2>1. CASE UNCHANGED <<marked, hook>>
    BY <1>1, <2>1
  <2>2. ASSUME NEW h \in Hooks, NEW e \in events, Receive(h, e)
        PROVE  marked' \subseteq events /\ hook' \in [Hooks -> Invocation]
    <3>1. [pc |-> "handling", event |-> e] \in Invocation
      OBVIOUS
    <3>2. marked' = marked /\ hook' = [hook EXCEPT ![h] = [pc |-> "handling", event |-> e]]
      BY <2>2 DEF Receive
    <3> HIDE DEF Invocation
    <3> QED
      BY <1>1, <3>1, <3>2
  <2>3. ASSUME NEW h \in Hooks, PutRecord(h) \/ Swallow(h)
        PROVE  marked' \subseteq events /\ hook' \in [Hooks -> Invocation]
    <3>1. /\ marked' = marked /\ hook' = [hook EXCEPT ![h] = [hook[h] EXCEPT !.pc = "marking"]]
          /\ hook[h].pc = "handling" /\ hook[h] \in Invocation
      BY <1>1, <2>3 DEF PutRecord, Swallow
    <3>2. [hook[h] EXCEPT !.pc = "marking"] \in Invocation
      BY <3>1
    <3> HIDE DEF Invocation
    <3> QED
      BY <1>1, <3>1, <3>2
  <2>4. ASSUME NEW h \in Hooks, Mark(h) \/ Crash(h)
        PROVE  marked' \subseteq events /\ hook' \in [Hooks -> Invocation]
    <3>1. [pc |-> "idle"] \in Invocation
      OBVIOUS
    <3>2. hook' = [hook EXCEPT ![h] = [pc |-> "idle"]]
      BY <2>4 DEF Mark, Crash
    <3>3. Mark(h) => hook[h].event \in events
      BY <1>1 DEF Mark
    <3>4. marked' \subseteq events
      BY <1>1, <2>4, <3>3 DEF Mark, Crash
    <3> HIDE DEF Invocation
    <3> QED
      BY <1>1, <3>1, <3>2, <3>4
  <2>5. \/ UNCHANGED <<marked, hook>>
        \/ \E h \in Hooks : (\E e \in events : Receive(h, e)) \/ PutRecord(h) \/ Swallow(h) \/ Mark(h) \/ Crash(h)
    BY DEF Next, Click, Settled, Issuer, Stripe, Tick, Open, SignOut, Subscribe, CheckNow, CheckoutEnds,
           RefreshEnds, Lost, Checkout, Entitlement, Completed, Updated, Deleted, Emit, issuer, vars
  <2> QED
    BY <2>1, <2>2, <2>3, <2>4, <2>5
<1> QED
  BY <1>2, <1>3

LEMMA StepTangled ==
    ASSUME TypeOK, [Next]_vars PROVE tangled' \in BOOLEAN
<1>1. tangled \in BOOLEAN
  BY DEF TypeOK
<1> QED
  BY <1>1, IntendedMoves DEF SignOut, CheckoutEnds, Settle

LEMMA StepTypeOK ==
    ASSUME TypeOK, IsFiniteSet(events), RefreshesHoldKey, [Next]_vars PROVE TypeOK'
  BY NumbersGrow, StepRequests, StepStore, StepRecords, StepEvents, StepHooks, StepTangled
     DEF TypeOK, Request

-----------------------------------------------------------------------------
(***************************************************************************)
(* Premium ends in time                                                    *)
(***************************************************************************)
\* What is active was called paid for by the event that made it so.
LEMMA StepRecordsAsHeard ==
    ASSUME TypeOK, RecordsAsHeard, [Next]_vars PROVE RecordsAsHeard'
<1>1. records \in [Keys -> {"absent", "pending", "active", "past_due", "canceled"}]
      /\ standing \in [Keys -> [live : BOOLEAN, until : 0 .. now]]
  BY DEF TypeOK
<1>2. ASSUME NEW r \in Requests, Checkout(r) PROVE RecordsAsHeard'
  BY <1>1, <1>2 DEF Checkout, RecordsAsHeard
<1>3. ASSUME NEW h \in Hooks, PutRecord(h) PROVE RecordsAsHeard'
  <2> DEFINE e == hook[h].event
  <2>1. e \in Event
    BY <1>3 DEF PutRecord, TypeOK
  <2>2. e.key \in Keys /\ (Status(e) = "active" => e.status \in {"paid", "active"})
    BY <2>1 DEF Event, Status
  <2>3. records'[e.key] = Status(e) /\ standing'[e.key].live = (e.status \in {"paid", "active"})
    BY <1>1, <1>3, <2>2 DEF PutRecord, Hears
  <2>4. \A k \in Keys \ {e.key} : records'[k] = records[k] /\ standing'[k] = standing[k]
    BY <1>1, <1>3, <2>2 DEF PutRecord, Hears
  <2> QED
    BY <2>2, <2>3, <2>4 DEF RecordsAsHeard
<1> QED
  BY <1>2, <1>3, RecordMoves DEF RecordsAsHeard

\* A subscription that stops being paid for does so now.
LEMMA StandingMoves ==
    ASSUME TypeOK, [Next]_vars, NEW k \in Keys
    PROVE  \/ standing'[k].live
           \/ standing'[k].until = now /\ now' = now /\ standing[k].live
           \/ standing'[k].until = standing[k].until /\ ~standing[k].live
<1>1. standing \in [Keys -> [live : BOOLEAN, until : 0 .. now]]
  BY DEF TypeOK
<1>2. CASE standing' = standing
  BY <1>1, <1>2
<1>3. ASSUME NEW h \in Hooks, PutRecord(h)
      PROVE  \/ standing'[k].live
             \/ standing'[k].until = now /\ now' = now /\ standing[k].live
             \/ standing'[k].until = standing[k].until /\ ~standing[k].live
  BY <1>1, <1>3 DEF PutRecord, Hears
<1> QED
  BY <1>2, <1>3, RecordMoves DEF Checkout

\* A token in time stays in time: it lives one TTL beyond the last paid moment at most.
InTimeNext(t) ==
    t # NoToken =>
        /\ t.key # 0
        /\ \/ standing'[t.key].live
           \/ standing'[t.key].until > 0 /\ t.exp <= standing'[t.key].until + TTL

LEMMA InTimeStays ==
    ASSUME TypeOK, [Next]_vars, NEW t \in Token, InTime(t) PROVE InTimeNext(t)
<1> SUFFICES ASSUME t # NoToken PROVE InTimeNext(t)
  BY DEF InTimeNext
<1>1. now \in Nat /\ now > 0 /\ TTL \in Nat /\ minted \in 0 .. MaxKeys /\ MaxKeys \in Nat
  BY NumbersGrow, BoundsAssumption DEF TypeOK
<1>2. t.key \in Keys /\ t.exp <= now + TTL /\ t.key # 0
  BY <1>1 DEF Token, InTime, Keys
<1> QED
  BY <1>1, <1>2, StandingMoves DEF InTime, InTimeNext
\* Every token after a step was there before, or is minted for a key that is paid for.
LEMMA StepTokensInTime ==
    ASSUME TypeOK, RefreshesHoldKey, RecordsAsHeard, TokensInTime, [Next]_vars PROVE TokensInTime'
<1>1. request \in [Requests -> Request] /\ store \in Stored /\ NoToken \in Token
  BY NumbersGrow DEF TypeOK, Request
<1>2. store.token \in Token /\ \A r \in Requests : request[r].token \in Token /\ request[r].stored.token \in Token
  BY <1>1 DEF Request, Stored
<1>3. InTimeNext(store.token) /\ InTimeNext(NoToken)
      /\ \A r \in Requests : InTimeNext(request[r].token) /\ InTimeNext(request[r].stored.token)
  BY <1>1, <1>2, InTimeStays DEF TokensInTime, InTimeNext
<1>4. InTimeNext(store'.token)
  <2>1. CASE UNCHANGED store \/ SignOut
    BY <1>3, <2>1 DEF SignOut, Write, SignedOut
  <2>2. ASSUME NEW r \in Requests, CheckoutEnds(r) PROVE store'.token = store.token
    BY <1>1, <2>2 DEF CheckoutEnds, Write, Stored
  <2>3. ASSUME NEW r \in Requests, RefreshEnds(r) PROVE store'.token = request[r].token
    BY <1>1, <2>3 DEF RefreshEnds, Refreshed, Write, Request, Stored
  <2> QED
    BY <1>3, <2>1, <2>2, <2>3, StoreMoves
<1>5. ASSUME NEW q \in Requests
      PROVE  InTimeNext(request'[q].token) /\ InTimeNext(request'[q].stored.token)
  <2>1. request[q] \in Request
    BY <1>1
  <2>2. CASE request'[q] = Idle
    BY <1>3, <2>2 DEF Idle, SignedOut
  <2>3. CASE \/ request'[q] = [request[q] EXCEPT !.pc = "checkout"]
             \/ request'[q] = [request[q] EXCEPT !.pc = "checkedOut", !.key = minted']
    BY <1>3, <2>1, <2>3 DEF Request
  <2>4. CASE request'[q] = [Idle EXCEPT !.pc = "refresh", !.stored = store]
    BY <1>3, <2>4 DEF Idle
  <2>5. CASE /\ request'[q] = [request[q] EXCEPT !.pc = "refreshed",
                                                !.token = Mint(request[q].stored.key)]
             /\ Refreshing(q)
    <3> DEFINE k == request[q].stored.key
    <3>1. k \in Keys /\ k <= minted
      <4>1. k \in 0 .. minted /\ k # 0
        BY <2>1, <2>5 DEF RefreshesHoldKey, Request, Stored
      <4>2. minted \in 0 .. MaxKeys /\ MaxKeys \in Nat
        BY BoundsAssumption DEF TypeOK
      <4> QED
        BY <4>1, <4>2 DEF Keys
    <3>2. Mint(k) \in Token /\ InTime(Mint(k))
      BY <3>1, MintTyped
    <3>3. InTimeNext(Mint(k))
      BY <3>2, InTimeStays
    <3>4. request'[q].token = Mint(k) /\ request'[q].stored = request[q].stored
      BY <2>1, <2>5 DEF Request
    <3> QED
      BY <1>3, <3>3, <3>4
  <2> QED
    BY <1>3, <2>2, <2>3, <2>4, <2>5, RequestBecomes
<1> QED
  BY <1>4, <1>5 DEF TokensInTime, InTime, InTimeNext

-----------------------------------------------------------------------------
(***************************************************************************)
(* The file follows the user                                               *)
(***************************************************************************)
\* A refresh holds what it held, or has just read the file, which has a key.
LEMMA RefreshHolds ==
    ASSUME TypeOK, RefreshesHoldKey, [Next]_vars, NEW q \in Requests,
           request'[q].pc \in {"refresh", "refreshed"}
    PROVE  \/ Refreshing(q) /\ request'[q].stored = request[q].stored
           \/ request'[q].stored = store /\ store.key # 0
<1>1. request[q] \in Request
  BY DEF TypeOK, Request
<1>2. CASE request'[q] = request[q]
  BY <1>2 DEF Refreshing
<1>3. request'[q] # Idle
  BY DEF Idle
<1>4. CASE request'[q] = [request[q] EXCEPT !.pc = "checkout"]
  BY <1>1, <1>4 DEF Request
<1>5. CASE request'[q] = [Idle EXCEPT !.pc = "refresh", !.stored = store] /\ store.key # 0
  BY <1>5 DEF Idle
<1>6. CASE request'[q] = [request[q] EXCEPT !.pc = "checkedOut", !.key = minted']
  BY <1>1, <1>6 DEF Request
<1>7. CASE /\ request'[q] = [request[q] EXCEPT !.pc = "refreshed",
                                              !.token = Mint(request[q].stored.key)]
           /\ Refreshing(q)
  BY <1>1, <1>7 DEF Request
<1> QED
  BY <1>2, <1>3, <1>4, <1>5, <1>6, <1>7, RequestBecomes

LEMMA StepRefreshesHoldKey ==
    ASSUME TypeOK, RefreshesHoldKey, [Next]_vars PROVE RefreshesHoldKey'
  BY RefreshHolds DEF RefreshesHoldKey, Refreshing

LEMMA StepFollows ==
    ASSUME TypeOK, RefreshesHoldKey, RefreshesFollowUser, StoreFollowsUser, [Next]_vars
    PROVE  RefreshesFollowUser' /\ StoreFollowsUser'
<1>1. request \in [Requests -> Request] /\ store \in Stored
  BY DEF TypeOK, Request
<1> DEFINE Holds(q) == request'[q].pc \in {"refresh", "refreshed"}
<1>2. ASSUME NEW q \in Requests, Holds(q)
      PROVE  \/ Refreshing(q) /\ request'[q].stored = request[q].stored
             \/ request'[q].stored = store
  BY <1>2, RefreshHolds
<1>3. CASE SignOut
  <2>1. request' = request /\ tangled' = (\E r \in Requests : Refreshing(r)) /\ store'.key = intended'
    BY <1>3 DEF SignOut, Settle, Write, SignedOut
  <2> QED
    BY <2>1 DEF RefreshesFollowUser, StoreFollowsUser, Refreshing
<1>4. ASSUME NEW r \in Requests, CheckoutEnds(r) PROVE RefreshesFollowUser' /\ StoreFollowsUser'
  <2>1. /\ request' = [request EXCEPT ![r] = Idle] /\ store'.key = intended'
        /\ tangled' = (\E q \in Requests : Refreshing(q))
    BY <1>1, <1>4 DEF CheckoutEnds, Settle, Write, Stored
  <2>2. ASSUME NEW q \in Requests, Holds(q) PROVE Refreshing(q)
    BY <1>1, <2>1, <2>2 DEF Refreshing, Idle
  <2> QED
    BY <2>1, <2>2 DEF RefreshesFollowUser, StoreFollowsUser, Refreshing
<1>5. CASE UNCHANGED <<intended, tangled>>
  <2>1. RefreshesFollowUser'
    BY <1>2, <1>5 DEF RefreshesFollowUser, StoreFollowsUser, Refreshing
  <2>2. ASSUME NEW r \in Requests, RefreshEnds(r) PROVE Refreshing(r) /\ store'.key = request[r].stored.key
    BY <1>1, <2>2 DEF RefreshEnds, Refreshing, Refreshed, Write, Request, Stored
  <2>3. StoreFollowsUser'
    BY <1>3, <1>4, <1>5, <2>2, StoreMoves DEF RefreshesFollowUser, StoreFollowsUser
  <2> QED
    BY <2>1, <2>3
<1> QED
  BY <1>3, <1>4, <1>5, IntendedMoves

-----------------------------------------------------------------------------
(***************************************************************************)
(* The invariant holds                                                     *)
(***************************************************************************)
LEMMA InitIndInv == Init => IndInv
<1> SUFFICES ASSUME Init PROVE IndInv
  OBVIOUS
<1>1. /\ now \in 1 .. MaxTime /\ now \in Nat /\ 0 \in 0 .. now /\ 0 \in 0 .. now + TTL
      /\ minted = 0 /\ minted \in 0 .. MaxKeys /\ intended \in 0 .. minted
  BY BoundsAssumption DEF Init
<1>2. NoToken \in Token /\ SignedOut \in Stored /\ Idle \in Request
  BY <1>1 DEF NoToken, Token, SignedOut, Stored, Idle, Request
<1>3. TypeOK
  <2>1. events \subseteq Event /\ marked \subseteq events /\ tangled \in BOOLEAN /\ store \in Stored
        /\ request \in [Requests -> Request] /\ page \in {"none", "inactive", "active"}
    BY <1>2 DEF Init
  <2>2. /\ records \in [Keys -> {"absent", "pending", "active", "past_due", "canceled"}]
        /\ paying \in [Keys -> {"none", "active", "past_due", "canceled"}]
        /\ standing \in [Keys -> [live : BOOLEAN, until : 0 .. now]]
    <3>1. [live |-> FALSE, until |-> 0] \in [live : BOOLEAN, until : 0 .. now]
      BY <1>1
    <3> QED
      BY <3>1 DEF Init
  <2>3. hook \in [Hooks -> [pc : {"idle"}] \cup [pc : {"handling", "marking"}, event : events]]
    BY DEF Init
  <2> QED
    BY <1>1, <2>1, <2>2, <2>3 DEF TypeOK, Request
<1>4. IsFiniteSet(events)
  BY FS_EmptySet DEF Init
<1>5. TokensInTime /\ RecordsAsHeard /\ RefreshesHoldKey /\ RefreshesFollowUser /\ StoreFollowsUser
  <2>1. TokensInTime
    BY DEF Init, Idle, SignedOut, TokensInTime, InTime
  <2>2. RecordsAsHeard
    BY DEF Init, RecordsAsHeard
  <2>3. RefreshesHoldKey /\ RefreshesFollowUser /\ StoreFollowsUser
    BY DEF Init, Idle, SignedOut, RefreshesHoldKey, RefreshesFollowUser, StoreFollowsUser, Refreshing
  <2> QED
    BY <2>1, <2>2, <2>3
<1> QED
  BY <1>3, <1>4, <1>5 DEF IndInv

LEMMA IndInvHolds == Spec => []IndInv
<1>1. IndInv /\ [Next]_vars => IndInv'
  BY StepTypeOK, StepEvents, StepTokensInTime, StepRecordsAsHeard, StepRefreshesHoldKey, StepFollows DEF IndInv
<1> QED
  BY <1>1, InitIndInv, PTL DEF Spec

-----------------------------------------------------------------------------
(***************************************************************************)
(* The theorems                                                            *)
(***************************************************************************)
\* Every variable has its type.
THEOREM TypeCorrect == Spec => []TypeOK
<1>1. IndInv => TypeOK
  BY DEF IndInv
<1> QED
  BY <1>1, IndInvHolds, PTL

\* Premium ends within one token's life of the last paid event stored, however
\* refreshes, checkouts, sign-outs and webhook invocations overlap.
THEOREM PremiumEndsInTime == Spec => []LocksInTime
<1>1. IndInv => LocksInTime
  <2> SUFFICES ASSUME IndInv, Usable(store)
               PROVE  \/ standing[store.token.key].live
                      \/ /\ standing[store.token.key].until > 0
                         /\ now < standing[store.token.key].until + TTL
    BY DEF LocksInTime
  <2>1. InTime(store.token) /\ store.token # NoToken /\ now < store.token.exp
    BY DEF IndInv, TokensInTime, Usable
  <2>2. store \in Stored /\ minted \in 0 .. MaxKeys /\ MaxKeys \in Nat /\ now \in Nat /\ TTL \in Nat
        /\ standing \in [Keys -> [live : BOOLEAN, until : 0 .. now]]
    BY BoundsAssumption DEF IndInv, TypeOK
  <2>3. store.token.key \in Keys /\ store.token.exp \in Nat
    BY <2>1, <2>2 DEF InTime, Stored, Token, Keys
  <2>4. standing[store.token.key].until \in Nat
    BY <2>2, <2>3
  <2> QED
    BY <2>1, <2>2, <2>3, <2>4 DEF InTime
<1> QED
  BY <1>1, IndInvHolds, PTL

\* The file holds the key the user settled on last, unless a refresh was out then.
THEOREM FileFollowsUser == Spec => []StoreFollowsUser
<1>1. IndInv => StoreFollowsUser
  BY DEF IndInv
<1> QED
  BY <1>1, IndInvHolds, PTL
=============================================================================
