------------------------------- MODULE Licence --------------------------------
(***************************************************************************)
(* The desktop app's subscription: the client and its settings file        *)
(* (src/core/entitlement.ts), the account screen that drives it            *)
(* (desktop/renderer/app.js), and the issuer's checkout, webhook and       *)
(* entitlement handlers (issuer/src/index.ts).                             *)
(*                                                                         *)
(* An account key is minted per checkout; keys are numbered as they are    *)
(* minted.  A token is its key and its expiry; signatures are perfect.     *)
(* A record is its status: "active" stands for trialing too, "past_due"    *)
(* for every other status of a subscription that has not ended.            *)
(***************************************************************************)
EXTENDS Naturals, FiniteSets

CONSTANTS
    Requests,   \* requests of the app that may be out at once
    Hooks,      \* invocations of the webhook
    TTL,        \* ticks a token lives
    MaxKeys,    \* bound: checkouts
    MaxEvents,  \* bound: events Stripe emits
    MaxTime     \* bound: the clock

ASSUME BoundsAssumption ==
    /\ {TTL, MaxKeys, MaxEvents, MaxTime} \subseteq Nat \ {0}
    /\ IsFiniteSet(Requests)

VARIABLES
    now,        \* Date.now()
    store,      \* entitlement.json
    page,       \* what the account screen shows: "none", "inactive" or "active"
    request,    \* the app's requests to the issuer
    minted,     \* account keys given out
    records,    \* acc:<key> in the issuer's KV
    paying,     \* Stripe (external): the subscription of each key
    events,     \* Stripe (external): the events emitted
    marked,     \* evt:<id> in the issuer's KV
    hook,       \* the invocations of the webhook
    intended,   \* ghost: the key the user last asked for, 0 after a sign-out
    tangled,    \* ghost: a refresh was out when the user did
    standing    \* ghost: what the event stored last said of each key

app == <<store, page, request, intended, tangled>>
issuer == <<minted, records, marked, hook, standing>>
stripe == <<paying, events>>
vars == <<now, app, issuer, stripe>>

Keys == 1 .. MaxKeys
NoToken == [key |-> 0, exp |-> 0]
SignedOut == [key |-> 0, token |-> NoToken]
Idle == [pc |-> "idle", stored |-> SignedOut, key |-> 0, token |-> NoToken]

Init ==
    /\ now = 1
    /\ store = SignedOut
    /\ page = "none"
    /\ request = [r \in Requests |-> Idle]
    /\ minted = 0
    /\ records = [k \in Keys |-> "absent"]
    /\ paying = [k \in Keys |-> "none"]
    /\ events = {}
    /\ marked = {}
    /\ hook = [h \in Hooks |-> [pc |-> "idle"]]
    /\ intended = 0
    /\ tangled = FALSE
    /\ standing = [k \in Keys |-> [live |-> FALSE, until |-> 0]]

-----------------------------------------------------------------------------
(* The account screen. *)

Usable(s) == s.key # 0 /\ s.token # NoToken /\ now < s.token.exp

\* entitlementStatus as the screen shows it; "expired" looks like "inactive".
Shown(s) == IF s.key = 0 THEN "none" ELSE IF Usable(s) THEN "active" ELSE "inactive"

Write(s) == store' = s /\ page' = Shown(s)

Open ==
    /\ page' = Shown(store)
    /\ UNCHANGED <<now, store, request, intended, tangled, issuer, stripe>>

Refreshing(r) == request[r].pc \in {"refresh", "refreshed"}

\* The user settles on a key; a refresh that is out still holds the one before.
Settle(key) ==
    /\ intended' = key
    /\ tangled' = \E r \in Requests : Refreshing(r)

SignOut ==
    /\ page = "active"
    /\ Write(SignedOut)
    /\ Settle(0)
    /\ UNCHANGED <<now, request, issuer, stripe>>

Subscribe(r) ==
    /\ request[r] = Idle
    /\ page # "active"
    /\ request' = [request EXCEPT ![r].pc = "checkout"]
    /\ UNCHANGED <<now, store, page, intended, tangled, issuer, stripe>>

\* startCheckout goes on with the answer: the new key beside the old token.
CheckoutEnds(r) ==
    /\ request[r].pc = "checkedOut"
    /\ Write([store EXCEPT !.key = request[r].key])
    /\ Settle(request[r].key)
    /\ request' = [request EXCEPT ![r] = Idle]
    /\ UNCHANGED <<now, issuer, stripe>>

\* "I've paid - check now".
CheckNow(r) ==
    /\ request[r] = Idle
    /\ page = "inactive"
    /\ IF store.key = 0
       THEN page' = Shown(store) /\ UNCHANGED request
       ELSE /\ request' = [request EXCEPT ![r] = [Idle EXCEPT !.pc = "refresh", !.stored = store]]
            /\ UNCHANGED page
    /\ UNCHANGED <<now, store, intended, tangled, issuer, stripe>>

\* Bug variant: an inactive answer clears the file.
RefreshedForgets(r) ==
    IF request[r].token = NoToken THEN SignedOut
    ELSE [request[r].stored EXCEPT !.token = request[r].token]

\* What refreshEntitlement stores: what it read before the request, with the answer.
Refreshed(r) == [request[r].stored EXCEPT !.token = request[r].token]

RefreshEnds(r) ==
    /\ request[r].pc = "refreshed"
    /\ Write(Refreshed(r))
    /\ request' = [request EXCEPT ![r] = Idle]
    /\ UNCHANGED <<now, intended, tangled, issuer, stripe>>

\* The request or its answer is lost: the cached token stays.
Lost(r) ==
    /\ request[r] # Idle
    /\ page' = IF Refreshing(r) THEN Shown(store) ELSE page
    /\ request' = [request EXCEPT ![r] = Idle]
    /\ UNCHANGED <<now, store, intended, tangled, issuer, stripe>>

Click ==
    \/ Open
    \/ SignOut
    \/ \E r \in Requests : Subscribe(r) \/ CheckNow(r)

Settled ==
    \E r \in Requests : CheckoutEnds(r) \/ RefreshEnds(r) \/ Lost(r)

-----------------------------------------------------------------------------
(* The issuer. *)

Checkout(r) ==
    /\ request[r].pc = "checkout"
    /\ minted < MaxKeys
    /\ minted' = minted + 1
    /\ records' = [records EXCEPT ![minted + 1] = "pending"]
    /\ request' = [request EXCEPT ![r].pc = "checkedOut", ![r].key = minted + 1]
    /\ UNCHANGED <<now, store, page, intended, tangled, marked, hook, standing, stripe>>

IsActive(status) == status = "active"

\* Bug variant: a token lives one tick longer than it should.
MintLonger(key) ==
    IF IsActive(records[key]) THEN [key |-> key, exp |-> now + TTL + 1] ELSE NoToken

\* The token the issuer signs for a key, if it does.
Mint(key) ==
    IF IsActive(records[key]) THEN [key |-> key, exp |-> now + TTL] ELSE NoToken

Entitlement(r) ==
    /\ request[r].pc = "refresh"
    /\ request' = [request EXCEPT ![r].pc = "refreshed",
                                  ![r].token = Mint(request[r].stored.key)]
    /\ UNCHANGED <<now, store, page, intended, tangled, issuer, stripe>>

\* An event is deliverable, in any order, until its marker is stored.
Receive(h, e) ==
    /\ hook[h].pc = "idle"
    /\ e \in events \ marked
    /\ hook' = [hook EXCEPT ![h] = [pc |-> "handling", event |-> e]]
    /\ UNCHANGED <<now, app, minted, records, marked, standing, stripe>>

\* Bug variant: a completed checkout counts as paid.
StatusOfCheckout(e) == IF e.type = "completed" THEN "active" ELSE e.status

\* The status the webhook stores.
Status(e) ==
    CASE e.type = "completed" -> IF e.status = "paid" THEN "active" ELSE "pending"
      [] e.type = "deleted" -> "canceled"
      [] OTHER -> e.status

\* What an event says of its subscription, kept as Stripe means it.
Hears(e) ==
    LET known == standing[e.key]
        live == e.status \in {"paid", "active"}
    IN  standing' = [standing EXCEPT ![e.key] =
            [live |-> live,
             until |-> IF known.live /\ ~live THEN now ELSE known.until]]

PutRecord(h) ==
    /\ hook[h].pc = "handling"
    /\ LET e == hook[h].event
       IN  records' = [records EXCEPT ![e.key] = Status(e)] /\ Hears(e)
    /\ hook' = [hook EXCEPT ![h].pc = "marking"]
    /\ UNCHANGED <<now, app, minted, marked, stripe>>

\* The handler's catch: the event counts as processed.
Swallow(h) ==
    /\ hook[h].pc = "handling"
    /\ hook' = [hook EXCEPT ![h].pc = "marking"]
    /\ UNCHANGED <<now, app, minted, records, marked, standing, stripe>>

Mark(h) ==
    /\ hook[h].pc = "marking"
    /\ marked' = marked \cup {hook[h].event}
    /\ hook' = [hook EXCEPT ![h] = [pc |-> "idle"]]
    /\ UNCHANGED <<now, app, minted, records, standing, stripe>>

\* The invocation dies at an await; Stripe delivers the event again.
Crash(h) ==
    /\ hook[h].pc # "idle"
    /\ hook' = [hook EXCEPT ![h] = [pc |-> "idle"]]
    /\ UNCHANGED <<now, app, minted, records, marked, standing, stripe>>

Issuer ==
    \/ \E r \in Requests : Checkout(r) \/ Entitlement(r)
    \/ \E h \in Hooks : \/ \E e \in events : Receive(h, e)
                        \/ PutRecord(h) \/ Swallow(h) \/ Mark(h) \/ Crash(h)

-----------------------------------------------------------------------------
(* Stripe (external) and the clock. *)

Emit(key, type, status) ==
    /\ Cardinality(events) < MaxEvents
    /\ events' = events \cup {[key |-> key, type |-> type, status |-> status,
                               seq |-> 1 + Cardinality({e \in events : e.key = key})]}
    /\ UNCHANGED <<now, app, issuer>>

\* The user completes the checkout page the app has opened.
Completed(key, payment) ==
    /\ paying[key] = "none" /\ intended = key
    /\ paying' = [paying EXCEPT ![key] = IF payment = "paid" THEN "active" ELSE "past_due"]
    /\ Emit(key, "completed", payment)

Updated(key, status) ==
    /\ paying[key] \in {"active", "past_due"} \ {status}
    /\ paying' = [paying EXCEPT ![key] = status]
    /\ Emit(key, "updated", status)

Deleted(key) ==
    /\ paying[key] \in {"active", "past_due"}
    /\ paying' = [paying EXCEPT ![key] = "canceled"]
    /\ Emit(key, "deleted", "canceled")

Stripe ==
    \E key \in Keys :
        \/ \E payment \in {"paid", "unpaid"} : Completed(key, payment)
        \/ \E status \in {"active", "past_due"} : Updated(key, status)
        \/ Deleted(key)

Tick ==
    /\ now < MaxTime
    /\ now' = now + 1
    /\ UNCHANGED <<app, issuer, stripe>>

Next == Click \/ Settled \/ Issuer \/ Stripe \/ Tick

Spec == Init /\ [][Next]_vars

-----------------------------------------------------------------------------
(* Properties. *)

Token == [key : 0 .. minted, exp : 0 .. now + TTL]
Stored == [key : 0 .. minted, token : Token]
Event ==
    [key : Keys, type : {"completed"}, status : {"paid", "unpaid"}, seq : 1 .. MaxEvents]
    \cup [key : Keys, type : {"updated"}, status : {"active", "past_due"}, seq : 1 .. MaxEvents]
    \cup [key : Keys, type : {"deleted"}, status : {"canceled"}, seq : 1 .. MaxEvents]

TypeOK ==
    /\ now \in 1 .. MaxTime
    /\ store \in Stored
    /\ page \in {"none", "inactive", "active"}
    /\ request \in [Requests -> [pc : {"idle", "checkout", "checkedOut", "refresh", "refreshed"},
                                 stored : Stored, key : 0 .. minted, token : Token]]
    /\ minted \in 0 .. MaxKeys
    /\ records \in [Keys -> {"absent", "pending", "active", "past_due", "canceled"}]
    /\ paying \in [Keys -> {"none", "active", "past_due", "canceled"}]
    /\ events \subseteq Event
    /\ marked \subseteq events
    /\ hook \in [Hooks -> [pc : {"idle"}] \cup [pc : {"handling", "marking"}, event : events]]
    /\ intended \in 0 .. minted
    /\ tangled \in BOOLEAN
    /\ standing \in [Keys -> [live : BOOLEAN, until : 0 .. now]]

\* The app is unlocked only while the event the webhook stored last for the token's
\* key says the subscription is paid for, or within one token's life of that: an
\* unpaid checkout unlocks nothing, and a cancelled subscription locks at the last
\* token's expiry, however refreshes, checkouts and sign-outs overlap and whatever
\* token the file is left with.  (Stored last is not emitted last: an update that
\* comes after the deletion re-activates the record.)
LocksInTime ==
    Usable(store) =>
        LET key == store.token.key
            heard == standing[key]
        IN  \/ heard.live
            \/ heard.until > 0 /\ now < heard.until + TTL

\* The file holds the key of the checkout the user opened last, and none after a
\* sign-out, unless a refresh that was out at that moment wrote back what it had
\* read before (entitlement.ts:216 and 226).
StoreFollowsUser == tangled \/ store.key = intended
=============================================================================
