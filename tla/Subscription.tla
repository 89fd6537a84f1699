---------------------------- MODULE Subscription ----------------------------
(***************************************************************************)
(* The subscription record of one hosted user (KV HOSTED_BILLING) and the  *)
(* three parties that share it without a lock: the Stripe webhook          *)
(* (hosted/src/routes/billing.ts), account deletion                        *)
(* (hosted/src/routes/account.ts) and the scheduled digest                 *)
(* (hosted/src/digest.ts).                                                 *)
(*                                                                         *)
(* Stripe is external: it may deliver events out of order and at the same  *)
(* time, and redelivers one until it is answered.  A redelivery of an      *)
(* event whose marker is stored changes nothing, so it is not a step.      *)
(***************************************************************************)
EXTENDS Naturals, Sequences, FiniteSets

CONSTANTS
    Hooks,      \* webhook invocations that may overlap
    Subs,       \* the user's Stripe subscriptions
    TierOf,     \* TierOf[sub]: the tier in its metadata; "none" for a checkout
                \* made elsewhere (a payment link), whose events lack our metadata
    Tagged,     \* subscriptions whose metadata names the user
    MaxActivity,  \* bound: events Stripe emits, with the deletion and the digest
    MaxCrashes    \* bound: webhook invocations that die

ASSUME TierAssumption == TierOf \in [Subs -> {"solo", "pro", "none"}]
ASSUME TaggedAssumption == Tagged \subseteq Subs
ASSUME BoundsAssumption == MaxActivity \in Nat /\ MaxCrashes \in Nat

VARIABLES
    stripe,     \* stripe[sub]: the status Stripe last reported
    events,     \* every event emitted so far; an event's id is its index
    record,     \* sub:<userId>
    index,      \* subscriptions with a stripe-sub:<subId> entry
    processed,  \* ids with an evt:<eventId> marker
    hook,       \* hook[h]: where invocation h is
    account,    \* how far DELETE /account is, and the subscription it read
    digest,     \* where the scheduled digest is with this user
    crashes,    \* webhook invocations that have died
    digests,    \* rosters the user was put on
    orderly,    \* ghost: no overlap, no reordering, no swallowed error so far
    disturbed   \* ghost: a webhook ran during or after the deletion

billing == <<record, index, processed>>
ghosts == <<orderly, disturbed>>
vars == <<stripe, events, billing, hook, account, digest, digests, crashes, ghosts>>

NoRecord == [tier |-> "none", status |-> "none", sub |-> "none", email |-> FALSE]
IdleHook == [pc |-> "idle", ev |-> 0, read |-> NoRecord]
IdleDigest == [pc |-> "idle", tier |-> "none", type |-> "none"]

\* isPaidTierInput
PaidTier(sub) == TierOf[sub] \in {"solo", "pro"}

IsActiveStatus(status) == status \in {"active", "trialing"}

TierEntitledToDigest(tier, type) == tier = "pro" \/ (tier = "solo" /\ type = "earnings")

Init ==
    /\ stripe = [sub \in Subs |-> "none"]
    /\ events = <<>>
    /\ record = NoRecord
    /\ index = {}
    /\ processed = {}
    /\ hook = [h \in Hooks |-> IdleHook]
    /\ account = [pc |-> "live", read |-> "none"]
    /\ digest = IdleDigest
    /\ crashes = 0
    /\ digests = 0
    /\ orderly = TRUE
    /\ disturbed = FALSE

\* What the bound counts.
Activity == Len(events) + digests + (IF account.pc = "live" THEN 0 ELSE 1)

(***************************************************************************)
(* Stripe (external)                                                       *)
(***************************************************************************)
Emit(type, sub, status, email) ==
    /\ Activity < MaxActivity
    /\ events' = Append(events, [type |-> type, sub |-> sub, status |-> status, email |-> email])
    /\ stripe' = [stripe EXCEPT ![sub] = status]
    /\ UNCHANGED <<billing, hook, account, digest, digests, crashes, ghosts>>

\* checkout.session.completed, with an email or without; payment_status decides
\* what the handler stores.
Paid(payment) == payment \in {"paid", "no_payment_required"}

Completed(sub, payment, email) ==
    /\ stripe[sub] = "none"
    /\ account.pc = "live"
    /\ Emit("completed", sub, payment, email)

Updated(sub, status) ==
    /\ stripe[sub] \notin {"none", "canceled", status}
    /\ Emit("updated", sub, status, FALSE)

Deleted(sub) ==
    /\ stripe[sub] \notin {"none", "canceled"}
    /\ Emit("deleted", sub, "canceled", FALSE)

(***************************************************************************)
(* POST /billing/webhook                                                   *)
(***************************************************************************)
Event(h) == events[hook[h].ev]
Move(h, pc) == hook' = [hook EXCEPT ![h].pc = pc]

InOrder(e) ==
    /\ 1..(e - 1) \subseteq processed
    /\ \A g \in Hooks : hook[g] = IdleHook

\* Bug variant: the marker is stored before the event is handled.
ReceiveMarksFirst(h, e) ==
    /\ hook[h] = IdleHook
    /\ e \notin processed
    /\ hook' = [hook EXCEPT ![h] = [IdleHook EXCEPT !.pc = "fresh", !.ev = e]]
    /\ processed' = processed \cup {e}
    /\ orderly' = (orderly /\ InOrder(e))
    /\ disturbed' = (disturbed \/ account.pc # "live")
    /\ UNCHANGED <<stripe, events, record, index, account, digest, digests, crashes>>

\* The marker of the event is not in KV.
Receive(h, e) ==
    /\ hook[h] = IdleHook
    /\ e \notin processed
    /\ hook' = [hook EXCEPT ![h] = [IdleHook EXCEPT !.pc = "fresh", !.ev = e]]
    /\ orderly' = (orderly /\ InOrder(e))
    /\ disturbed' = (disturbed \/ account.pc # "live")
    /\ UNCHANGED <<stripe, events, billing, account, digest, digests, crashes>>

\* Bug variant: the status is the payment_status.
CheckoutStatusRaw(payment) == payment

CheckoutStatus(payment) == IF Paid(payment) THEN "active" ELSE "pending"

\* A completed checkout replaces the whole record, email included.
PutCheckout(h) ==
    /\ hook[h].pc = "fresh"
    /\ Event(h).type = "completed"
    /\ PaidTier(Event(h).sub)
    /\ record' = [tier |-> TierOf[Event(h).sub], status |-> CheckoutStatus(Event(h).status),
                  sub |-> Event(h).sub, email |-> Event(h).email]
    /\ Move(h, "indexing")
    /\ UNCHANGED <<stripe, events, index, processed, account, digest, digests, crashes, ghosts>>

PutReverseIndex(h) ==
    /\ hook[h].pc = "indexing"
    /\ index' = index \cup {Event(h).sub}
    /\ Move(h, "marking")
    /\ UNCHANGED <<stripe, events, record, processed, account, digest, digests, crashes, ghosts>>

UserKnown(sub) == sub \in Tagged \cup index

\* An event without a paid tier, or an update of no known user, is ignored.
Ignore(h) ==
    /\ hook[h].pc = "fresh"
    /\ PaidTier(Event(h).sub) => Event(h).type # "completed" /\ ~UserKnown(Event(h).sub)
    /\ Move(h, "marking")
    /\ UNCHANGED <<stripe, events, billing, account, digest, digests, crashes, ghosts>>

\* getUserIdForSubscription finds the user of an update that names none.
LookUp(h) ==
    /\ hook[h].pc = "fresh"
    /\ Event(h).type \in {"updated", "deleted"}
    /\ PaidTier(Event(h).sub)
    /\ Event(h).sub \in index \ Tagged
    /\ Move(h, "known")
    /\ UNCHANGED <<stripe, events, billing, account, digest, digests, crashes, ghosts>>

\* An update reads the record it is going to merge into.
GetExisting(h) ==
    /\ \/ hook[h].pc = "known"
       \/ /\ hook[h].pc = "fresh"
          /\ Event(h).type \in {"updated", "deleted"}
          /\ PaidTier(Event(h).sub)
          /\ Event(h).sub \in Tagged
    /\ hook' = [hook EXCEPT ![h].pc = "writing", ![h].read = record]
    /\ UNCHANGED <<stripe, events, billing, account, digest, digests, crashes, ghosts>>

\* Bug variant: the stored email is lost.
MergeDropsEmail(existing, ev) ==
    [tier |-> TierOf[ev.sub], status |-> ev.status, sub |-> ev.sub, email |-> FALSE]

\* { ...(existing ?? { tier }), tier, status, subscriptionId }
Merge(existing, ev) ==
    [existing EXCEPT !.tier = TierOf[ev.sub], !.status = ev.status, !.sub = ev.sub]

PutUpdate(h) ==
    /\ hook[h].pc = "writing"
    /\ record' = Merge(hook[h].read, Event(h))
    /\ Move(h, "marking")
    /\ UNCHANGED <<stripe, events, index, processed, account, digest, digests, crashes, ghosts>>

\* A KV call throws: the error is logged, and the event counts as handled.
Swallow(h) ==
    /\ hook[h].pc \in {"fresh", "known", "indexing", "writing"}
    /\ orderly' = FALSE
    /\ Move(h, "marking")
    /\ UNCHANGED <<stripe, events, billing, account, digest, digests, crashes, disturbed>>

\* The marker is stored last.
Mark(h) ==
    /\ hook[h].pc = "marking"
    /\ processed' = processed \cup {hook[h].ev}
    /\ hook' = [hook EXCEPT ![h] = IdleHook]
    /\ UNCHANGED <<stripe, events, record, index, account, digest, digests, crashes, ghosts>>

\* The Worker dies: no answer, so Stripe will deliver the event again.
Crash(h) ==
    /\ hook[h].pc # "idle"
    /\ crashes < MaxCrashes
    /\ crashes' = crashes + 1
    /\ hook' = [hook EXCEPT ![h] = IdleHook]
    /\ UNCHANGED <<stripe, events, billing, account, digest, digests, ghosts>>

Body(h) ==
    \/ PutCheckout(h) \/ PutReverseIndex(h) \/ Ignore(h)
    \/ LookUp(h) \/ GetExisting(h) \/ PutUpdate(h) \/ Mark(h)

(***************************************************************************)
(* deleteSubscription, as DELETE /account runs it                          *)
(***************************************************************************)
\* Bug variant: the record is deleted before it is read.
DeletionReadsTooLate ==
    /\ account.pc = "live"
    /\ Activity < MaxActivity
    /\ record' = NoRecord
    /\ account' = [pc |-> "read", read |-> NoRecord.sub]
    /\ disturbed' = (\E h \in Hooks : hook[h].pc # "idle")
    /\ UNCHANGED <<stripe, events, index, processed, hook, digest, digests, crashes, orderly>>

DeletionReads ==
    /\ account.pc = "live"
    /\ Activity < MaxActivity
    /\ account' = [pc |-> "read", read |-> record.sub]
    /\ disturbed' = (\E h \in Hooks : hook[h].pc # "idle")
    /\ UNCHANGED <<stripe, events, billing, hook, digest, digests, crashes, orderly>>

\* Only when the record that was read names a subscription.
DeletionUnindexes ==
    /\ account.pc = "read"
    /\ index' = index \ {account.read}
    /\ account' = [pc |-> "unindexed", read |-> "none"]
    /\ UNCHANGED <<stripe, events, record, processed, hook, digest, digests, crashes, ghosts>>

DeletionEnds ==
    /\ account.pc = "unindexed"
    /\ record' = NoRecord
    /\ account' = [pc |-> "deleted", read |-> "none"]
    /\ UNCHANGED <<stripe, events, index, processed, hook, digest, digests, crashes, ghosts>>

(***************************************************************************)
(* runScheduledDigest, for this user                                       *)
(***************************************************************************)
\* listActiveSubscribers puts the user on the roster, with the tier it saw.
Roster ==
    /\ digest.pc = "idle"
    /\ Activity < MaxActivity
    /\ digests' = digests + 1
    /\ IsActiveStatus(record.status)
    /\ digest' = [pc |-> "due", tier |-> record.tier, type |-> "earnings"]
    /\ UNCHANGED <<stripe, events, billing, hook, account, crashes, ghosts>>

NextType ==
    IF digest.type = "earnings" /\ digest.tier = "pro"
    THEN [digest EXCEPT !.pc = "due", !.type = "unpaid-commissions"]
    ELSE IdleDigest

\* The record is read again before every type; compose is then under way, with
\* the email of this read.  Bug variant: the roster's snapshot is trusted.
DeliverableOnRoster == TierEntitledToDigest(digest.tier, digest.type)

Deliverable ==
    /\ IsActiveStatus(record.status)
    /\ TierEntitledToDigest(record.tier, digest.type)
    /\ record.email

Compose ==
    /\ digest.pc = "due"
    /\ Deliverable
    /\ digest' = [digest EXCEPT !.pc = "composing"]
    /\ UNCHANGED <<stripe, events, billing, hook, account, digests, crashes, ghosts>>

\* Denied or no email.
Skip ==
    /\ digest.pc = "due"
    /\ ~Deliverable
    /\ digest' = NextType
    /\ UNCHANGED <<stripe, events, billing, hook, account, digests, crashes, ghosts>>

ComposeFails ==
    /\ digest.pc = "composing"
    /\ digest' = NextType
    /\ UNCHANGED <<stripe, events, billing, hook, account, digests, crashes, ghosts>>

\* The email goes to Resend; nothing is read again.
Send ==
    /\ digest.pc = "composing"
    /\ digest' = [digest EXCEPT !.pc = "sending"]
    /\ UNCHANGED <<stripe, events, billing, hook, account, digests, crashes, ghosts>>

\* Resend answers, or the request fails.
Sent ==
    /\ digest.pc = "sending"
    /\ digest' = NextType
    /\ UNCHANGED <<stripe, events, billing, hook, account, digests, crashes, ghosts>>

-----------------------------------------------------------------------------
Stripe ==
    \E sub \in Subs :
        \/ \E payment \in {"paid", "unpaid"}, email \in BOOLEAN : Completed(sub, payment, email)
        \/ \E status \in {"active", "past_due"} : Updated(sub, status)
        \/ Deleted(sub)

Webhook(h) ==
    \/ \E e \in DOMAIN events : Receive(h, e)
    \/ Body(h) \/ Swallow(h) \/ Crash(h)

Deletion == DeletionReads \/ DeletionUnindexes \/ DeletionEnds
Digest == Roster \/ Compose \/ Skip \/ ComposeFails \/ Send \/ Sent

Next == Stripe \/ Deletion \/ Digest \/ \E h \in Hooks : Webhook(h)

Spec == Init /\ [][Next]_vars

-----------------------------------------------------------------------------
(***************************************************************************)
(* Properties                                                              *)
(***************************************************************************)
Payments == {"paid", "unpaid"}
Statuses == {"active", "past_due", "canceled"}
Records == [tier : {"none", "solo", "pro"}, status : Statuses \cup {"none", "pending"},
            sub : Subs \cup {"none"}, email : BOOLEAN]

\* Every variable has its type.
TypeOK ==
    /\ stripe \in [Subs -> Payments \cup Statuses \cup {"none"}]
    /\ events \in Seq([type : {"completed", "updated", "deleted"}, sub : Subs,
                       status : Payments \cup Statuses, email : BOOLEAN])
    /\ record \in Records
    /\ index \subseteq Subs
    /\ processed \subseteq DOMAIN events
    /\ digests \in Nat
    /\ hook \in [Hooks -> [pc : {"idle", "fresh", "known", "indexing", "writing", "marking"},
                           ev : DOMAIN events \cup {0}, read : Records]]
    /\ account \in [pc : {"live", "read", "unindexed", "deleted"}, read : Subs \cup {"none"}]
    /\ digest \in [pc : {"idle", "due", "composing", "sending"}, tier : {"none", "solo", "pro"},
                   type : {"none", "earnings", "unpaid-commissions"}]
    /\ crashes \in 0..MaxCrashes
    /\ orderly \in BOOLEAN
    /\ disturbed \in BOOLEAN

Quiet == processed = DOMAIN events /\ \A h \in Hooks : hook[h] = IdleHook

\* The events that the handler can attribute, and the checkouts among them.
Heeded == {e \in DOMAIN events : PaidTier(events[e].sub)}
Completions == {e \in Heeded : events[e].type = "completed"}
Latest(S) == CHOOSE e \in S : \A d \in S : d <= e
LastEvent == events[Latest(Heeded)]
StatusAfter(ev) ==
    IF ev.type # "completed" THEN ev.status
    ELSE IF Paid(ev.status) THEN "active" ELSE "pending"

\* When events arrive one after the other, crashes and redeliveries at every
\* await included, the record ends up as the last event that can be attributed left
\* it, with the billing email of the last checkout, which survives the updates; and
\* a checkout that cannot be attributed grants nothing.
OrderlySync ==
    orderly /\ Quiet /\ account.pc = "live" =>
        IF Heeded = {} THEN record = NoRecord
        ELSE /\ record.sub = LastEvent.sub
             /\ record.status = StatusAfter(LastEvent)
             /\ record.email = events[Latest(Completions)].email

\* A deletion that no webhook ran into leaves neither the record nor, for a user
\* with one subscription, a reverse-index entry.
DeletionIsComplete ==
    account.pc = "deleted" /\ ~disturbed =>
        /\ record = NoRecord
        /\ Cardinality(Completions) = 1 => index = {}

\* What the digest sets out to write rests on what Stripe and the user did when it
\* last looks, however stale the roster is: none is composed for an account whose
\* deletion no webhook ran into, and, where events came one after the other and were
\* all handled, only for a subscription that Stripe last reported active, with a tier
\* that is sent that type.  Of the email it promises no more than digest.ts does: what
\* ends while that one digest is being composed is still emailed it.
ComposeRespectsEnding ==
    [][digest.pc = "due" /\ digest'.pc = "composing" =>
           /\ account.pc # "deleted" \/ disturbed
           /\ orderly /\ Quiet /\ account.pc = "live" =>
                 /\ Heeded # {}
                 /\ IsActiveStatus(StatusAfter(LastEvent))
                 /\ TierEntitledToDigest(TierOf[LastEvent.sub], digest.type)]_vars

=============================================================================
