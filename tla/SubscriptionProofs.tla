---------------------------- MODULE SubscriptionProofs ----------------------------
(***************************************************************************)
(* Proofs about the subscription record, for any number of subscriptions,  *)
(* events and overlapping webhook invocations: handled in order, crashes   *)
(* and redeliveries included, it follows the last event; a deletion leaves *)
(* nothing; and no digest outlives what either of them ended.              *)
(***************************************************************************)
EXTENDS Subscription, FiniteSetTheorems, SequenceTheorems, TLAPS

-----------------------------------------------------------------------------
(***************************************************************************)
(* The inductive invariant                                                 *)
(***************************************************************************)
\* Subscriptions with a completed checkout that can be attributed.
CompletedSubs == {events[e].sub : e \in Completions}

\* An event has the statuses of its type; every subscription starts with its checkout.
StartsWithCheckout ==
    /\ \A e \in DOMAIN events :
          /\ events[e].type = "completed" => events[e].status \in Payments
          /\ events[e].type # "completed" =>
                /\ events[e].status \in Statuses
                /\ PaidTier(events[e].sub) =>
                      \E c \in 1 .. (e - 1) : c \in Completions /\ events[c].sub = events[e].sub
    /\ \A sub \in Subs : stripe[sub] # "none" /\ PaidTier(sub) => sub \in CompletedSubs

\* An invocation at work has an event, of the type of its branch.
HooksHoldEvents ==
    \A h \in Hooks :
        /\ hook[h].pc = "idle" => hook[h] = IdleHook
        /\ hook[h].pc # "idle" => hook[h].ev \in DOMAIN events
        /\ hook[h].pc = "indexing" => Event(h).type = "completed" /\ PaidTier(Event(h).sub)
        /\ hook[h].pc \in {"known", "writing"} => Event(h).type # "completed" /\ PaidTier(Event(h).sub)

\* The last member of a set of event numbers, up to number n.
IsLast(e, S, n) == e \in S /\ e <= n /\ \A d \in S : d <= n => d <= e

\* The email of the last checkout up to event number n.
EmailUpTo(n, email) == \E c \in Completions : IsLast(c, Completions, n) /\ email = events[c].email

\* The record is as the events up to number n left it.
Reflects(n) ==
    \/ record = NoRecord /\ \A e \in Heeded : ~(e <= n)
    \/ /\ \E e \in Heeded :
             /\ IsLast(e, Heeded, n)
             /\ record.sub = events[e].sub
             /\ record.tier = TierOf[events[e].sub]
             /\ record.status = StatusAfter(events[e])
       /\ EmailUpTo(n, record.email)

\* The first n events are handled; only the next one may be under way, in one
\* invocation, and the record reflects the one or already the other.
HandledUpTo(n) ==
    /\ processed = 1 .. n
    /\ \A h \in Hooks : hook[h].pc # "idle" => hook[h].ev = n + 1
    /\ \A g, h \in Hooks : hook[g].pc # "idle" /\ hook[h].pc # "idle" => g = h
    /\ \A c \in Completions : c <= n => events[c].sub \in index
    /\ Reflects(n) \/ (n + 1 \in DOMAIN events /\ Reflects(n + 1))
    /\ \A h \in Hooks :
          /\ hook[h].pc = "writing" => EmailUpTo(n, hook[h].read.email)
          /\ hook[h].pc \in {"indexing", "marking"} => Reflects(n + 1)
          /\ hook[h].pc = "marking" /\ hook[h].ev \in Completions => Event(h).sub \in index

InSync == orderly /\ account.pc = "live" => \E n \in 0 .. Len(events) : HandledUpTo(n)

\* The index leads to subscriptions that were bought, and so does the record once
\* there is an index entry, or is about to be one.
IndexFollowsRecord ==
    /\ index \subseteq CompletedSubs
    /\ account.pc = "live" /\ (index # {} \/ \E h \in Hooks : hook[h].pc = "indexing") =>
          record.sub \in CompletedSubs

\* What a deletion that no webhook ran into has done so far.
DeletionSoFar ==
    account.pc # "live" /\ ~disturbed =>
        /\ \A h \in Hooks : hook[h].pc = "idle"
        /\ account.pc = "read" /\ index # {} => account.read \in CompletedSubs
        /\ account.pc # "read" /\ Cardinality(Completions) = 1 => index = {}
        /\ account.pc = "deleted" => record = NoRecord

IndInv ==
    /\ TypeOK
    /\ StartsWithCheckout
    /\ HooksHoldEvents
    /\ InSync
    /\ IndexFollowsRecord
    /\ DeletionSoFar

-----------------------------------------------------------------------------
(***************************************************************************)
(* What a step may change                                                  *)
(***************************************************************************)
EventType == [type : {"completed", "updated", "deleted"}, sub : Subs, status : Payments \cup Statuses,
              email : BOOLEAN]
HookType == [pc : {"idle", "fresh", "known", "indexing", "writing", "marking"},
             ev : DOMAIN events \cup {0}, read : Records]

\* What Stripe emits.
Emitted(type, sub, status, email) ==
    /\ Emit(type, sub, status, email) /\ email \in BOOLEAN
    /\ \/ type = "completed" /\ status \in Payments /\ account.pc = "live"
       \/ type \in {"updated", "deleted"} /\ status \in Statuses /\ stripe[sub] # "none"

LEMMA StepKinds ==
    ASSUME [Next]_vars
    PROVE  \/ UNCHANGED <<stripe, events, billing, hook, account, crashes, ghosts>>
           \/ \E sub \in Subs : \E type, status, email : Emitted(type, sub, status, email)
           \/ Deletion
           \/ \E h \in Hooks : Webhook(h)
<1>1. ASSUME NEW sub \in Subs, NEW payment \in {"paid", "unpaid"}, NEW email \in BOOLEAN,
             Completed(sub, payment, email)
      PROVE  Emitted("completed", sub, payment, email)
  BY <1>1 DEF Completed, Emitted, Payments
<1>2. ASSUME NEW sub \in Subs, NEW status \in {"active", "past_due"}, Updated(sub, status)
      PROVE  Emitted("updated", sub, status, FALSE)
  BY <1>2 DEF Updated, Emitted, Statuses
<1>3. ASSUME NEW sub \in Subs, Deleted(sub) PROVE Emitted("deleted", sub, "canceled", FALSE)
  BY <1>3 DEF Deleted, Emitted, Statuses
<1>4. CASE Digest \/ UNCHANGED vars
  BY <1>4 DEF Digest, Roster, Compose, Skip, ComposeFails, Send, Sent, vars
<1> QED
  BY <1>1, <1>2, <1>3, <1>4 DEF Next, Stripe

\* Events are only ever appended.
LEMMA EventsGrow ==
    ASSUME TypeOK, [Next]_vars
    PROVE  /\ events \in Seq(EventType) /\ events' \in Seq(EventType)
           /\ stripe' \in [Subs -> Payments \cup Statuses \cup {"none"}]
           /\ Len(events) \in Nat /\ Len(events') \in Nat /\ Len(events) <= Len(events')
           /\ DOMAIN events = 1 .. Len(events) /\ DOMAIN events' = 1 .. Len(events')
           /\ DOMAIN events \subseteq DOMAIN events'
           /\ \A e \in DOMAIN events : events[e] \in EventType /\ events'[e] = events[e]
<1>1. events \in Seq(EventType) /\ stripe \in [Subs -> Payments \cup Statuses \cup {"none"}]
  BY DEF TypeOK, EventType
<1>2. CASE UNCHANGED <<events, stripe>>
  BY <1>1, <1>2, ElementOfSeq, LenProperties
<1>3. ASSUME NEW sub \in Subs, NEW type, NEW status, NEW email, Emitted(type, sub, status, email)
      PROVE  /\ events' \in Seq(EventType) /\ Len(events') = Len(events) + 1
             /\ stripe' \in [Subs -> Payments \cup Statuses \cup {"none"}]
             /\ \A e \in DOMAIN events : events'[e] = events[e]
  <2> DEFINE ev == [type |-> type, sub |-> sub, status |-> status, email |-> email]
  <2>1. ev \in EventType /\ status \in Payments \cup Statuses
    BY <1>3 DEF Emitted, EventType
  <2>2. events' = Append(events, ev) /\ stripe' = [stripe EXCEPT ![sub] = status]
    BY <1>3 DEF Emitted, Emit
  <2> HIDE DEF ev
  <2>3. events' \in Seq(EventType) /\ Len(events') = Len(events) + 1
        /\ \A e \in DOMAIN events : events'[e] = events[e]
    BY <1>1, <2>1, <2>2, LenProperties
  <2> QED
    BY <1>1, <2>1, <2>2, <2>3
<1>4. \/ UNCHANGED <<events, stripe>>
      \/ \E sub \in Subs : \E type, status, email : Emitted(type, sub, status, email)
  BY StepKinds DEF Deletion, DeletionReads, DeletionUnindexes, DeletionEnds, Webhook, Receive, Body,
         PutCheckout, PutReverseIndex, GetExisting, LookUp, Ignore, PutUpdate, Swallow, Mark, Crash
<1>5. /\ events' \in Seq(EventType) /\ Len(events) <= Len(events')
      /\ stripe' \in [Subs -> Payments \cup Statuses \cup {"none"}]
      /\ \A e \in DOMAIN events : events'[e] = events[e]
  BY <1>1, <1>2, <1>3, <1>4, LenProperties
<1> QED
  BY <1>1, <1>5, ElementOfSeq, LenProperties

-----------------------------------------------------------------------------
(***************************************************************************)
(* Types                                                                   *)
(***************************************************************************)
LEMMA RecordTypes ==
    /\ NoRecord \in Records
    /\ \A ev \in EventType : ev.type = "completed" /\ ev.status \in Payments =>
          [tier |-> TierOf[ev.sub], status |-> CheckoutStatus(ev.status), sub |-> ev.sub,
           email |-> ev.email] \in Records
    /\ \A ev \in EventType, r \in Records : ev.status \in Statuses => Merge(r, ev) \in Records
<1>1. NoRecord \in Records
  BY DEF NoRecord, Records
<1>2. ASSUME NEW ev \in EventType
      PROVE  ev.sub \in Subs /\ TierOf[ev.sub] \in {"none", "solo", "pro"} /\ ev.email \in BOOLEAN
  BY TierAssumption DEF EventType
<1>3. \A payment : CheckoutStatus(payment) \in Statuses \cup {"none", "pending"}
  BY DEF CheckoutStatus, Statuses
<1>4. ASSUME NEW ev \in EventType, NEW r \in Records, ev.status \in Statuses PROVE Merge(r, ev) \in Records
  BY <1>2, <1>4 DEF Merge, Records
<1> QED
  BY <1>1, <1>2, <1>3, <1>4 DEF Records

\* The event of an invocation at work, and what may be written for it.
LEMMA HookEvent ==
    ASSUME TypeOK, StartsWithCheckout, HooksHoldEvents, NEW h \in Hooks, hook[h].pc # "idle"
    PROVE  /\ hook[h].ev \in DOMAIN events /\ Event(h) = events[hook[h].ev] /\ Event(h) \in EventType
           /\ Event(h).type = "completed" => Event(h).status \in Payments
           /\ Event(h).type # "completed" => Event(h).status \in Statuses
           /\ Event(h).sub \in Subs /\ (PaidTier(Event(h).sub) => Event(h).sub \in CompletedSubs)
<1>1. events \in Seq(EventType) /\ hook[h].ev \in DOMAIN events
  BY DEF TypeOK, EventType, HooksHoldEvents
<1>2. Event(h) = events[hook[h].ev] /\ Event(h) \in EventType
  BY <1>1, ElementOfSeq, LenProperties DEF Event
<1>3. Event(h).type = "completed" /\ PaidTier(Event(h).sub) => hook[h].ev \in Completions
  BY <1>1, <1>2 DEF Completions, Heeded
<1> QED
  BY <1>1, <1>2, <1>3 DEF StartsWithCheckout, CompletedSubs, EventType

\* What a step of an invocation makes of it.
LEMMA HookMoves ==
    ASSUME TypeOK, NEW h \in Hooks, Webhook(h)
    PROVE  /\ hook' = [hook EXCEPT ![h] = hook'[h]]
           /\ \/ hook'[h] = IdleHook
              \/ \E e \in DOMAIN events : hook'[h] = [IdleHook EXCEPT !.pc = "fresh", !.ev = e]
              \/ /\ hook[h].pc # "idle"
                 /\ \E pc \in {"known", "indexing", "writing", "marking"} :
                       \/ hook'[h] = [hook[h] EXCEPT !.pc = pc]
                       \/ hook'[h] = [hook[h] EXCEPT !.pc = pc, !.read = record]
<1>1. hook \in [Hooks -> HookType]
  BY DEF TypeOK, HookType
<1>2. ASSUME NEW e \in DOMAIN events, Receive(h, e)
      PROVE  hook' = [hook EXCEPT ![h] = [IdleHook EXCEPT !.pc = "fresh", !.ev = e]]
  BY <1>2 DEF Receive
<1>3. CASE PutCheckout(h) \/ PutReverseIndex(h) \/ Ignore(h) \/ LookUp(h) \/ PutUpdate(h) \/ Swallow(h)
  BY <1>1, <1>3 DEF PutCheckout, PutReverseIndex, Ignore, LookUp, PutUpdate, Swallow, Move
<1>4. CASE GetExisting(h)
  BY <1>1, <1>4 DEF GetExisting
<1>5. CASE Mark(h) \/ Crash(h)
  BY <1>1, <1>5 DEF Mark, Crash
<1> QED
  BY <1>1, <1>2, <1>3, <1>4, <1>5 DEF Webhook, Body

LEMMA StepRecord ==
    ASSUME TypeOK, StartsWithCheckout, HooksHoldEvents, [Next]_vars
    PROVE  record' \in Records /\ index' \subseteq Subs
<1>1. record \in Records /\ index \subseteq Subs
  BY DEF TypeOK
<1>2. ASSUME NEW h \in Hooks, Webhook(h) PROVE record' \in Records /\ index' \subseteq Subs
  <2>1. CASE PutCheckout(h)
    BY <1>1, <2>1, HookEvent, RecordTypes DEF PutCheckout
  <2>2. CASE PutUpdate(h)
    <3>1. hook[h].read \in Records /\ Event(h) \in EventType /\ Event(h).status \in Statuses
      BY <2>2, HookEvent DEF PutUpdate, HooksHoldEvents, TypeOK
    <3> QED
      BY <1>1, <2>2, <3>1, RecordTypes DEF PutUpdate
  <2>3. CASE PutReverseIndex(h)
    BY <1>1, <2>3, HookEvent DEF PutReverseIndex
  <2>4. CASE UNCHANGED <<record, index>>
    BY <1>1, <2>4
  <2> QED
    BY <1>2, <2>1, <2>2, <2>3, <2>4
       DEF Webhook, Body, Receive, GetExisting, LookUp, Ignore, Swallow, Mark, Crash, billing
<1>3. CASE Deletion
  BY <1>1, <1>3, RecordTypes DEF Deletion, DeletionReads, DeletionUnindexes, DeletionEnds, billing
<1>4. ASSUME NEW sub \in Subs, NEW type, NEW status, NEW email, Emitted(type, sub, status, email)
      PROVE  UNCHANGED <<record, index>>
  BY <1>4 DEF Emitted, Emit, billing
<1> QED
  BY <1>1, <1>2, <1>3, <1>4, StepKinds DEF billing

LEMMA StepHooks ==
    ASSUME TypeOK, HooksHoldEvents, [Next]_vars
    PROVE  hook' \in [Hooks -> HookType'] /\ processed' \subseteq DOMAIN events'
<1>1. hook \in [Hooks -> HookType] /\ processed \subseteq DOMAIN events /\ record \in Records
  BY DEF TypeOK, HookType
<1>2. DOMAIN events \subseteq DOMAIN events' /\ HookType \subseteq HookType' /\ NoRecord \in Records
  BY EventsGrow, RecordTypes DEF HookType
<1>3. ASSUME NEW h \in Hooks, Webhook(h)
      PROVE  hook' \in [Hooks -> HookType']
  <2>1. hook'[h] \in HookType
    <3>1. hook[h] \in HookType
      BY <1>1
    <3>2. CASE hook'[h] = IdleHook
      BY <1>2, <3>2 DEF IdleHook, HookType
    <3>3. ASSUME NEW e \in DOMAIN events, hook'[h] = [IdleHook EXCEPT !.pc = "fresh", !.ev = e]
          PROVE  hook'[h] \in HookType
      <4>1. IdleHook \in HookType
        BY <1>2 DEF IdleHook, HookType
      <4> QED
        BY <3>3, <4>1 DEF HookType
    <3>4. ASSUME NEW pc \in {"known", "indexing", "writing", "marking"},
                 \/ hook'[h] = [hook[h] EXCEPT !.pc = pc]
                 \/ hook'[h] = [hook[h] EXCEPT !.pc = pc, !.read = record]
          PROVE  hook'[h] \in HookType
      BY <1>1, <3>1, <3>4 DEF HookType
    <3> QED
      BY <1>3, <3>2, <3>3, <3>4, HookMoves
  <2> QED
    BY <1>1, <1>2, <1>3, <2>1, HookMoves
<1>4. hook' \in [Hooks -> HookType']
  BY <1>1, <1>2, <1>3, StepKinds DEF Deletion, DeletionReads, DeletionUnindexes, DeletionEnds, Emitted, Emit
<1>5. processed' \subseteq DOMAIN events
  <2>1. ASSUME NEW h \in Hooks, Mark(h) PROVE processed' \subseteq DOMAIN events
    BY <1>1, <2>1 DEF Mark, HooksHoldEvents
  <2>2. UNCHANGED processed \/ \E h \in Hooks : Mark(h)
    BY StepKinds DEF Deletion, DeletionReads, DeletionUnindexes, DeletionEnds, Emitted, Emit, Webhook, Receive,
           Body, PutCheckout, PutReverseIndex, GetExisting, LookUp, Ignore, PutUpdate, Swallow, Crash, billing
  <2> QED
    BY <1>1, <2>1, <2>2
<1> QED
  BY <1>1, <1>2, <1>4, <1>5
LEMMA StepAccount ==
    ASSUME TypeOK, [Next]_vars
    PROVE  account' \in [pc : {"live", "read", "unindexed", "deleted"}, read : Subs \cup {"none"}]
<1>1. account \in [pc : {"live", "read", "unindexed", "deleted"}, read : Subs \cup {"none"}]
      /\ record.sub \in Subs \cup {"none"}
  BY DEF TypeOK, Records
<1>2. CASE Deletion
  <2>1. CASE DeletionReads
    BY <1>1, <2>1 DEF DeletionReads
  <2>2. CASE DeletionUnindexes
    BY <2>2 DEF DeletionUnindexes
  <2>3. CASE DeletionEnds
    BY <2>3 DEF DeletionEnds
  <2> QED
    BY <1>2, <2>1, <2>2, <2>3 DEF Deletion
<1>3. CASE UNCHANGED account
  BY <1>1, <1>3
<1>4. Deletion \/ UNCHANGED account
  BY StepKinds DEF Emitted, Emit, Webhook, Receive, Body, PutCheckout, PutReverseIndex, GetExisting, LookUp, Ignore,
     PutUpdate, Mark, Swallow, Crash
<1> QED
  BY <1>2, <1>3, <1>4

LEMMA StepDigest ==
    ASSUME TypeOK, [Next]_vars
    PROVE  /\ digests' \in Nat
           /\ digest' \in [pc : {"idle", "due", "composing", "sending"}, tier : {"none", "solo", "pro"},
                           type : {"none", "earnings", "unpaid-commissions"}]
<1> DEFINE Digests == [pc : {"idle", "due", "composing", "sending"}, tier : {"none", "solo", "pro"},
                       type : {"none", "earnings", "unpaid-commissions"}]
<1>1. digest \in Digests /\ digests \in Nat /\ record.tier \in {"none", "solo", "pro"}
  BY DEF TypeOK, Records
<1>2. NextType \in Digests /\ [digest EXCEPT !.pc = "composing"] \in Digests
      /\ [digest EXCEPT !.pc = "sending"] \in Digests
      /\ [pc |-> "due", tier |-> record.tier, type |-> "earnings"] \in Digests
  BY <1>1 DEF NextType, IdleDigest
<1>3. CASE Digest
  <2>1. CASE Roster
    BY <1>1, <1>2, <2>1 DEF Roster
  <2>2. CASE Compose
    BY <1>1, <1>2, <2>2 DEF Compose
  <2>3. CASE Skip \/ ComposeFails \/ Send \/ Sent
    BY <1>1, <1>2, <2>3 DEF Skip, ComposeFails, Send, Sent
  <2> QED
    BY <1>3, <2>1, <2>2, <2>3 DEF Digest
<1>4. CASE ~Digest
  <2>1. UNCHANGED <<digest, digests>>
    BY <1>4 DEF Next, Stripe, Completed, Updated, Deleted, Emit, Deletion, DeletionReads, DeletionUnindexes,
       DeletionEnds, Webhook, Receive, Body, PutCheckout, PutReverseIndex, GetExisting, LookUp, Ignore, PutUpdate,
       Mark, Swallow, Crash, vars
  <2> QED
    BY <1>1, <2>1
<1> QED
  BY <1>3, <1>4

LEMMA StepGhosts ==
    ASSUME TypeOK, [Next]_vars
    PROVE  crashes' \in 0 .. MaxCrashes /\ orderly' \in BOOLEAN /\ disturbed' \in BOOLEAN
<1>1. crashes \in 0 .. MaxCrashes /\ orderly \in BOOLEAN /\ disturbed \in BOOLEAN /\ MaxCrashes \in Nat
  BY BoundsAssumption DEF TypeOK
<1>2. UNCHANGED crashes \/ (crashes < MaxCrashes /\ crashes' = crashes + 1)
  BY StepKinds DEF Deletion, DeletionReads, DeletionUnindexes, DeletionEnds, Emitted, Emit, Webhook,
     Receive, Body, PutCheckout, PutReverseIndex, GetExisting, LookUp, Ignore, PutUpdate, Mark, Swallow, Crash
<1>3. orderly' \in BOOLEAN
  BY <1>1, StepKinds DEF Deletion, DeletionReads, DeletionUnindexes, DeletionEnds, Emitted, Emit, Webhook,
     Receive, Body, PutCheckout, PutReverseIndex, GetExisting, LookUp, Ignore, PutUpdate, Mark, Swallow, Crash, ghosts
<1>4. disturbed' \in BOOLEAN
  BY <1>1, StepKinds DEF Deletion, DeletionReads, DeletionUnindexes, DeletionEnds, Emitted, Emit, Webhook,
     Receive, Body, PutCheckout, PutReverseIndex, GetExisting, LookUp, Ignore, PutUpdate, Mark, Swallow, Crash, ghosts
<1> QED
  BY <1>1, <1>2, <1>3, <1>4

LEMMA StepTypeOK ==
    ASSUME TypeOK, StartsWithCheckout, HooksHoldEvents, [Next]_vars PROVE TypeOK'
  BY EventsGrow, StepRecord, StepHooks, StepAccount, StepDigest, StepGhosts DEF TypeOK, EventType, HookType
-----------------------------------------------------------------------------
(***************************************************************************)
(* Events and invocations                                                  *)
(***************************************************************************)
\* The event of a step of Stripe, and the list after it.
LEMMA EmittedLast ==
    ASSUME TypeOK, NEW sub \in Subs, NEW type, NEW status, NEW email, Emitted(type, sub, status, email)
    PROVE  /\ Len(events') = Len(events) + 1 /\ DOMAIN events' = DOMAIN events \cup {Len(events')}
           /\ events'[Len(events')].type = type /\ events'[Len(events')].sub = sub
           /\ events'[Len(events')].status = status
           /\ Len(events) \in Nat /\ DOMAIN events = 1 .. Len(events)
           /\ \A e \in DOMAIN events : events'[e] = events[e]
           /\ stripe' = [stripe EXCEPT ![sub] = status]
           /\ UNCHANGED <<hook, record, index, processed, account, orderly, disturbed>>
<1> DEFINE ev == [type |-> type, sub |-> sub, status |-> status, email |-> email]
<1>1. events \in Seq(EventType) /\ events' = Append(events, ev) /\ ev \in EventType
  BY DEF TypeOK, EventType, Emitted, Emit
<1>2. stripe' = [stripe EXCEPT ![sub] = status]
      /\ UNCHANGED <<hook, record, index, processed, account, orderly, disturbed>>
  BY DEF Emitted, Emit, billing, ghosts
<1> HIDE DEF ev
<1>3. /\ Len(events') = Len(events) + 1 /\ DOMAIN events' = DOMAIN events \cup {Len(events')}
      /\ events'[Len(events')] = ev
      /\ Len(events) \in Nat /\ DOMAIN events = 1 .. Len(events)
      /\ \A e \in DOMAIN events : events'[e] = events[e]
  BY <1>1, LenProperties
<1> QED
  BY <1>2, <1>3 DEF ev

LEMMA CompletionsGrow ==
    ASSUME TypeOK, [Next]_vars
    PROVE  /\ Completions \subseteq Completions' /\ CompletedSubs \subseteq CompletedSubs'
           /\ \A e \in DOMAIN events : e \in Completions' => e \in Completions
           /\ account.pc # "live" => Completions' = Completions
<1>1. \A e \in DOMAIN events : e \in DOMAIN events' /\ events'[e] = events[e]
  BY EventsGrow
<1>2. Completions \subseteq Completions' /\ \A e \in DOMAIN events : e \in Completions' => e \in Completions
  BY <1>1 DEF Completions, Heeded
<1>3. CompletedSubs \subseteq CompletedSubs'
  BY <1>1, <1>2 DEF CompletedSubs, Completions, Heeded
<1>4. ASSUME account.pc # "live" PROVE Completions' = Completions
  <2>1. CASE UNCHANGED events
    BY <2>1 DEF Completions, Heeded
  <2>2. ASSUME NEW sub \in Subs, NEW type, NEW status, NEW email, Emitted(type, sub, status, email)
        PROVE  Completions' = Completions
    <3>1. type # "completed"
      BY <1>4, <2>2 DEF Emitted
    <3>2. DOMAIN events' = DOMAIN events \cup {Len(events')} /\ events'[Len(events')].type = type
      BY <2>2, EmittedLast
    <3>3. \A e \in Completions' : e \in DOMAIN events
      BY <3>1, <3>2 DEF Completions, Heeded
    <3> QED
      BY <1>2, <3>3
  <2> QED
    BY <2>1, <2>2, StepKinds DEF Deletion, DeletionReads, DeletionUnindexes, DeletionEnds, Webhook, Receive,
       Body, PutCheckout, PutReverseIndex, GetExisting, LookUp, Ignore, PutUpdate, Mark, Swallow, Crash
<1> QED
  BY <1>2, <1>3, <1>4

LEMMA StepStartsWithCheckout ==
    ASSUME TypeOK, StartsWithCheckout, [Next]_vars PROVE StartsWithCheckout'
<1>1. CASE UNCHANGED <<events, stripe>>
  BY <1>1 DEF StartsWithCheckout, Completions, Heeded, CompletedSubs
<1>2. ASSUME NEW sub \in Subs, NEW type, NEW status, NEW email, Emitted(type, sub, status, email)
      PROVE  StartsWithCheckout'
  <2> DEFINE last == Len(events')
  <2>1. /\ Len(events) \in Nat /\ last = Len(events) + 1 /\ DOMAIN events = 1 .. Len(events)
        /\ DOMAIN events' = DOMAIN events \cup {last}
        /\ events'[last].type = type /\ events'[last].sub = sub /\ events'[last].status = status
        /\ \A e \in DOMAIN events : events'[e] = events[e]
        /\ stripe' = [stripe EXCEPT ![sub] = status]
    BY <1>2, EmittedLast
  <2>2. Completions \subseteq Completions' /\ CompletedSubs \subseteq CompletedSubs'
    BY CompletionsGrow
  <2>3. Completions \subseteq 1 .. Len(events)
    BY <2>1 DEF Completions, Heeded
  <2> HIDE DEF last
  <2>4. \/ type = "completed" /\ status \in Payments
        \/ type \in {"updated", "deleted"} /\ status \in Statuses
           /\ (PaidTier(sub) => sub \in CompletedSubs)
    BY <1>2 DEF Emitted, StartsWithCheckout
  <2>5. type = "completed" /\ PaidTier(sub) => last \in Completions'
    BY <2>1 DEF Completions, Heeded
  <2>6. PaidTier(sub) => sub \in CompletedSubs'
    BY <2>1, <2>2, <2>4, <2>5 DEF CompletedSubs
  <2>7. ASSUME NEW e \in DOMAIN events'
        PROVE  /\ events'[e].type = "completed" => events'[e].status \in Payments
               /\ events'[e].type # "completed" =>
                     /\ events'[e].status \in Statuses
                     /\ PaidTier(events'[e].sub) =>
                           \E c \in 1 .. (e - 1) : c \in Completions' /\ events'[c].sub = events'[e].sub
    <3>1. CASE e \in DOMAIN events
      <4>1. \A c \in 1 .. (e - 1) : c \in DOMAIN events
        BY <2>1, <3>1
      <4> QED
        BY <2>1, <2>2, <3>1, <4>1 DEF StartsWithCheckout
    <3>2. CASE e = last
      <4>1. events'[e].type = type /\ events'[e].status = status /\ events'[e].sub = sub
        BY <2>1, <3>2
      <4>2. CASE type # "completed" /\ PaidTier(sub)
        <5>1. PICK c \in Completions : events[c].sub = sub
          BY <2>4, <4>2 DEF CompletedSubs
        <5>2. c \in 1 .. (e - 1) /\ c \in Completions' /\ events'[c].sub = sub
          BY <2>1, <2>2, <2>3, <3>2, <5>1
        <5> QED
          BY <2>4, <4>1, <4>2, <5>2
      <4> QED
        BY <2>4, <4>1, <4>2
    <3> QED
      BY <2>1, <2>7, <3>1, <3>2
  <2>8. ASSUME NEW other \in Subs, stripe'[other] # "none", PaidTier(other) PROVE other \in CompletedSubs'
    BY <2>1, <2>2, <2>6, <2>8 DEF StartsWithCheckout, TypeOK
  <2> QED
    BY <2>7, <2>8 DEF StartsWithCheckout
<1> QED
  BY <1>1, <1>2, StepKinds DEF Deletion, DeletionReads, DeletionUnindexes, DeletionEnds, Webhook, Receive,
     Body, PutCheckout, PutReverseIndex, GetExisting, LookUp, Ignore, PutUpdate, Mark, Swallow, Crash

LEMMA StepHooksHoldEvents ==
    ASSUME TypeOK, StartsWithCheckout, HooksHoldEvents, [Next]_vars PROVE HooksHoldEvents'
<1>1. \A e \in DOMAIN events : e \in DOMAIN events' /\ events'[e] = events[e]
  BY EventsGrow
<1>2. CASE UNCHANGED hook
  BY <1>1, <1>2 DEF HooksHoldEvents, Event
<1>3. ASSUME NEW h \in Hooks, Webhook(h) PROVE HooksHoldEvents'
  <2>1. hook' = [hook EXCEPT ![h] = hook'[h]] /\ hook \in [Hooks -> HookType] /\ UNCHANGED events
    BY <1>3, HookMoves DEF TypeOK, HookType, Webhook, Receive, Body, PutCheckout, PutReverseIndex, GetExisting, LookUp,
       Ignore, PutUpdate, Mark, Swallow, Crash
  <2>2. ASSUME NEW g \in Hooks, g # h PROVE hook'[g] = hook[g]
    BY <2>1, <2>2
  <2>3. /\ hook'[h].pc = "idle" => hook'[h] = IdleHook
        /\ hook'[h].pc # "idle" => hook'[h].ev \in DOMAIN events
        /\ hook'[h].pc = "indexing" =>
              events[hook'[h].ev].type = "completed" /\ PaidTier(events[hook'[h].ev].sub)
        /\ hook'[h].pc \in {"known", "writing"} =>
              events[hook'[h].ev].type # "completed" /\ PaidTier(events[hook'[h].ev].sub)
    <3>1. hook[h] \in HookType
      BY <2>1
    <3>2. ASSUME NEW e \in DOMAIN events, Receive(h, e)
          PROVE  hook'[h].pc = "fresh" /\ hook'[h].ev = e
      BY <2>1, <3>2 DEF Receive, IdleHook
    <3>3. CASE PutCheckout(h)
      BY <2>1, <3>1, <3>3 DEF PutCheckout, Move, HooksHoldEvents, Event, HookType
    <3>4. CASE GetExisting(h) \/ LookUp(h)
      <4>1. hook'[h].pc \in {"writing", "known"} /\ hook'[h].ev = hook[h].ev /\ hook[h].pc # "idle"
            /\ Event(h).type # "completed" /\ PaidTier(Event(h).sub)
        BY <2>1, <3>1, <3>4 DEF GetExisting, LookUp, Move, HookType, HooksHoldEvents
      <4> QED
        BY <4>1 DEF HooksHoldEvents, Event
    <3>5. CASE PutReverseIndex(h) \/ Ignore(h) \/ PutUpdate(h) \/ Swallow(h)
      BY <2>1, <3>1, <3>5 DEF PutReverseIndex, Ignore, PutUpdate, Swallow, Move, HooksHoldEvents, HookType
    <3>6. CASE Mark(h) \/ Crash(h)
      BY <2>1, <3>6 DEF Mark, Crash, IdleHook
    <3> QED
      BY <1>3, <3>2, <3>3, <3>4, <3>5, <3>6 DEF Webhook, Body
  <2> QED
    BY <2>1, <2>2, <2>3 DEF HooksHoldEvents, Event
<1> QED
  BY <1>2, <1>3, StepKinds DEF Deletion, DeletionReads, DeletionUnindexes, DeletionEnds, Emitted, Emit
-----------------------------------------------------------------------------
(***************************************************************************)
(* The deletion                                                            *)
(***************************************************************************)
LEMMA StepIndexFollowsRecord ==
    ASSUME TypeOK, StartsWithCheckout, HooksHoldEvents, IndexFollowsRecord, [Next]_vars
    PROVE  IndexFollowsRecord'
<1>1. CompletedSubs \subseteq CompletedSubs'
  BY CompletionsGrow
<1>2. CASE UNCHANGED <<hook, record, index, account>>
  BY <1>1, <1>2 DEF IndexFollowsRecord
<1>3. CASE Deletion
  <2>1. account'.pc # "live" /\ index' \subseteq index
    <3>1. CASE DeletionReads
      BY <3>1 DEF DeletionReads, billing
    <3>2. CASE DeletionUnindexes
      BY <3>2 DEF DeletionUnindexes
    <3>3. CASE DeletionEnds
      BY <3>3 DEF DeletionEnds
    <3> QED
      BY <1>3, <3>1, <3>2, <3>3 DEF Deletion
  <2> QED
    BY <1>1, <2>1 DEF IndexFollowsRecord
<1>4. ASSUME NEW h \in Hooks, Webhook(h) PROVE IndexFollowsRecord'
  <2>1. hook \in [Hooks -> HookType] /\ hook' = [hook EXCEPT ![h] = hook'[h]] /\ account' = account
    BY <1>4, HookMoves DEF TypeOK, HookType, Webhook, Receive, Body, PutCheckout, PutReverseIndex, GetExisting, LookUp,
       Ignore, PutUpdate, Mark, Swallow, Crash
  <2>2. \A g \in Hooks : hook'[g].pc = "indexing" => hook[g].pc = "indexing" \/ PutCheckout(h)
    <3>1. ASSUME hook'[h].pc = "indexing" PROVE PutCheckout(h)
      <4>1. ASSUME NEW e \in DOMAIN events, Receive(h, e) PROVE FALSE
        BY <2>1, <3>1, <4>1 DEF Receive, IdleHook
      <4>2. CASE PutReverseIndex(h) \/ Ignore(h) \/ LookUp(h) \/ PutUpdate(h) \/ Swallow(h)
        BY <2>1, <3>1, <4>2 DEF PutReverseIndex, Ignore, LookUp, PutUpdate, Swallow, Move, HookType
      <4>3. CASE GetExisting(h)
        BY <2>1, <3>1, <4>3 DEF GetExisting, HookType
      <4>4. CASE Mark(h) \/ Crash(h)
        BY <2>1, <3>1, <4>4 DEF Mark, Crash, IdleHook
      <4> QED
        BY <1>4, <4>1, <4>2, <4>3, <4>4 DEF Webhook, Body
    <3> QED
      BY <2>1, <3>1
  <2>3. CASE PutCheckout(h)
    <3>1. record'.sub = Event(h).sub /\ index' = index /\ Event(h).sub \in CompletedSubs
      BY <2>3, HookEvent DEF PutCheckout
    <3> QED
      BY <1>1, <2>1, <3>1 DEF IndexFollowsRecord
  <2>4. CASE PutUpdate(h)
    <3>1. hook[h].read \in Records /\ Event(h).sub \in CompletedSubs /\ index' = index
      BY <2>1, <2>4, HookEvent DEF PutUpdate, HookType, HooksHoldEvents
    <3>2. record'.sub = Event(h).sub
      BY <2>4, <3>1 DEF PutUpdate, Merge, Records
    <3> QED
      BY <1>1, <2>1, <3>1, <3>2 DEF IndexFollowsRecord
  <2>5. CASE PutReverseIndex(h)
    <3>1. hook[h].pc = "indexing" /\ index' = index \cup {Event(h).sub} /\ record' = record
          /\ Event(h).sub \in CompletedSubs
      BY <2>5, HookEvent DEF PutReverseIndex, HooksHoldEvents
    <3> QED
      BY <1>1, <2>1, <3>1 DEF IndexFollowsRecord
  <2>6. CASE UNCHANGED <<record, index>> /\ ~PutCheckout(h)
    BY <1>1, <2>1, <2>2, <2>6 DEF IndexFollowsRecord
  <2> QED
    BY <1>4, <2>3, <2>4, <2>5, <2>6
       DEF Webhook, Body, Receive, GetExisting, LookUp, Ignore, Swallow, Mark, Crash, billing
<1> QED
  BY <1>2, <1>3, <1>4, StepKinds DEF Emitted, Emit, billing

LEMMA OneBought ==
    ASSUME TypeOK, Cardinality(Completions) = 1
    PROVE  \A a, b \in CompletedSubs : a = b
<1>1. DOMAIN events = 1 .. Len(events) /\ Len(events) \in Nat
  BY LenProperties DEF TypeOK
<1>2. IsFiniteSet(Completions)
  <2>1. IsFiniteSet(1 .. Len(events)) /\ Completions \subseteq 1 .. Len(events)
    BY <1>1, FS_Interval DEF Completions, Heeded
  <2> QED
    BY <2>1, FS_Subset
<1>3. PICK c : Completions = {c}
  BY <1>2, FS_Singleton
<1> QED
  BY <1>3 DEF CompletedSubs

LEMMA StepDeletionSoFar ==
    ASSUME TypeOK, HooksHoldEvents, IndexFollowsRecord, DeletionSoFar, [Next]_vars
    PROVE  DeletionSoFar'
<1>1. account.pc # "live" => Completions' = Completions
  BY CompletionsGrow
<1>2. \A h \in Hooks : hook[h].pc = "idle" => hook[h] = IdleHook
  BY DEF HooksHoldEvents
<1>3. CASE UNCHANGED <<hook, record, index, account, disturbed>>
  <2>1. account.pc # "live" => CompletedSubs \subseteq CompletedSubs'
    BY CompletionsGrow
  <2> QED
    BY <1>1, <1>3, <2>1 DEF DeletionSoFar
<1>4. ASSUME NEW h \in Hooks, Webhook(h) PROVE DeletionSoFar'
  <2>1. account' = account
    BY <1>4 DEF Webhook, Receive, Body, PutCheckout, PutReverseIndex, GetExisting, LookUp, Ignore, PutUpdate, Mark,
       Swallow, Crash
  <2>2. CASE \E e \in DOMAIN events : Receive(h, e)
    BY <2>1, <2>2 DEF Receive, DeletionSoFar
  <2>3. CASE ~\E e \in DOMAIN events : Receive(h, e)
    <3>1. hook[h].pc # "idle" /\ disturbed' = disturbed
      BY <1>4, <2>3 DEF Webhook, Body, PutCheckout, PutReverseIndex, GetExisting, LookUp, Ignore, PutUpdate, Mark,
         Swallow, Crash, ghosts
    <3> QED
      BY <2>1, <3>1 DEF DeletionSoFar
  <2> QED
    BY <2>2, <2>3
<1>5. CASE DeletionReads
  <2>1. /\ account.pc = "live" /\ account' = [pc |-> "read", read |-> record.sub]
        /\ disturbed' = (\E h \in Hooks : hook[h].pc # "idle")
        /\ UNCHANGED <<events, hook, index, record>>
    BY <1>5 DEF DeletionReads, billing
  <2>2. index # {} => record.sub \in CompletedSubs'
    BY <2>1, CompletionsGrow DEF IndexFollowsRecord
  <2> QED
    BY <2>1, <2>2 DEF DeletionSoFar
<1>6. CASE DeletionUnindexes
  <2>1. /\ account.pc = "read" /\ account'.pc = "unindexed" /\ index' = index \ {account.read}
        /\ UNCHANGED <<events, hook, disturbed>>
    BY <1>6 DEF DeletionUnindexes, ghosts
  <2>2. ASSUME ~disturbed, Cardinality(Completions) = 1 PROVE index' = {}
    BY <2>1, <2>2, OneBought DEF DeletionSoFar, IndexFollowsRecord
  <2> QED
    BY <1>1, <2>1, <2>2 DEF DeletionSoFar
<1>7. CASE DeletionEnds
  <2>1. /\ account.pc = "unindexed" /\ account'.pc = "deleted" /\ record' = NoRecord
        /\ UNCHANGED <<hook, index, disturbed>>
    BY <1>7 DEF DeletionEnds, ghosts
  <2> QED
    BY <1>1, <2>1 DEF DeletionSoFar
<1> QED
  BY <1>3, <1>4, <1>5, <1>6, <1>7, StepKinds DEF Deletion, Emitted, Emit, billing, ghosts
-----------------------------------------------------------------------------
(***************************************************************************)
(* Events handled one after the other                                      *)
(***************************************************************************)
\* Event numbers are naturals.
LEMMA EventNumbers ==
    ASSUME TypeOK
    PROVE  /\ DOMAIN events = 1 .. Len(events) /\ Len(events) \in Nat
           /\ Completions \subseteq Heeded /\ Heeded \subseteq DOMAIN events /\ Heeded \subseteq Nat
<1>1. DOMAIN events = 1 .. Len(events) /\ Len(events) \in Nat
  BY LenProperties DEF TypeOK
<1> QED
  BY <1>1 DEF Completions, Heeded

\* A step that leaves the record alone, and at most adds an event after number m.
LEMMA ReflectsKept ==
    ASSUME TypeOK, [Next]_vars, NEW m \in 0 .. Len(events)
    PROVE  /\ record' = record /\ Reflects(m) => Reflects(m)'
           /\ \A email : EmailUpTo(m, email) => \E c \in Completions' :
                 IsLast(c, Completions', m) /\ email = events'[c].email
<1>1. \A e \in DOMAIN events : e \in DOMAIN events' /\ events'[e] = events[e]
  BY EventsGrow
<1>2. /\ DOMAIN events = 1 .. Len(events) /\ Len(events) \in Nat /\ DOMAIN events' \subseteq Nat \ {0}
      /\ Completions \subseteq Heeded /\ Heeded \subseteq DOMAIN events
  BY EventNumbers, EventsGrow
<1>3. \A e \in DOMAIN events : /\ e \in Heeded' <=> e \in Heeded
                               /\ e \in Completions' <=> e \in Completions
  BY <1>1 DEF Heeded, Completions
<1>4. \A e \in DOMAIN events' : e <= m => e \in DOMAIN events
  BY <1>2
<1>5. Completions' \subseteq DOMAIN events' /\ Heeded' \subseteq DOMAIN events'
  BY DEF Completions, Heeded
<1>6. /\ \A d \in Heeded' : d <= m => d \in Heeded
      /\ \A d \in Completions' : d <= m => d \in Completions
  BY <1>3, <1>4, <1>5
<1>7. \A e \in Heeded : IsLast(e, Heeded, m) => e \in Heeded' /\ IsLast(e, Heeded', m) /\ events'[e] = events[e]
  BY <1>1, <1>2, <1>3, <1>6 DEF IsLast
<1>8. \A e \in Completions : IsLast(e, Completions, m) =>
          e \in Completions' /\ IsLast(e, Completions', m) /\ events'[e] = events[e]
  <2> SUFFICES ASSUME NEW e \in Completions, IsLast(e, Completions, m)
               PROVE  e \in Completions' /\ IsLast(e, Completions', m) /\ events'[e] = events[e]
    OBVIOUS
  <2>1. e \in Completions' /\ events'[e] = events[e]
    BY <1>1, <1>2, <1>3
  <2> QED
    BY <1>6, <2>1 DEF IsLast
<1>9. \A email : EmailUpTo(m, email) =>
          \E c \in Completions' : IsLast(c, Completions', m) /\ email = events'[c].email
  BY <1>8 DEF EmailUpTo
<1>10. ASSUME record' = record, Reflects(m) PROVE Reflects(m)'
  <2>1. CASE record = NoRecord /\ \A e \in Heeded : ~(e <= m)
    <3>1. \A e \in Heeded' : ~(e <= m)
      BY <1>6, <2>1
    <3> QED
      BY <1>10, <2>1, <3>1 DEF Reflects
  <2>2. ASSUME NEW e \in Heeded, IsLast(e, Heeded, m), record.sub = events[e].sub,
               record.tier = TierOf[events[e].sub], record.status = StatusAfter(events[e]),
               EmailUpTo(m, record.email)
        PROVE  Reflects(m)'
    <3>1. e \in Heeded' /\ IsLast(e, Heeded', m) /\ events'[e] = events[e]
      BY <1>7, <2>2
    <3>2. \E c \in Completions' : IsLast(c, Completions', m) /\ record.email = events'[c].email
      BY <1>9, <2>2
    <3> QED
      BY <1>10, <2>2, <3>1, <3>2 DEF Reflects, EmailUpTo, StatusAfter, IsLast
  <2> QED
    BY <1>10, <2>1, <2>2 DEF Reflects
<1> QED
  BY <1>9, <1>10

\* What one more event makes of the last email.
LEMMA EmailOfNext ==
    ASSUME TypeOK, NEW n \in Nat, n + 1 \in DOMAIN events
    PROVE  /\ n + 1 \in Completions => EmailUpTo(n + 1, events[n + 1].email)
           /\ n + 1 \notin Completions => \A email : EmailUpTo(n, email) <=> EmailUpTo(n + 1, email)
<1>1. Completions \subseteq Nat
  BY EventNumbers
<1>2. n + 1 \notin Completions => \A d \in Completions : d <= n <=> d <= n + 1
  BY <1>1
<1> QED
  BY <1>1, <1>2 DEF EmailUpTo, IsLast

\* An event without a paid tier leaves the record as it was.
LEMMA UnheededNext ==
    ASSUME TypeOK, NEW n \in Nat, n + 1 \in DOMAIN events, ~PaidTier(events[n + 1].sub)
    PROVE  Reflects(n) <=> Reflects(n + 1)
<1>1. n + 1 \notin Heeded /\ n + 1 \notin Completions /\ Heeded \subseteq Nat
  BY EventNumbers DEF Heeded
<1>2. \A d \in Heeded : d <= n <=> d <= n + 1
  BY <1>1
<1>3. EmailUpTo(n, record.email) <=> EmailUpTo(n + 1, record.email)
  BY <1>1, EmailOfNext
<1> QED
  BY <1>2, <1>3 DEF Reflects, IsLast

\* A record written for the next event.
LEMMA ReflectsNext ==
    ASSUME TypeOK, NEW n \in Nat, n + 1 \in DOMAIN events, PaidTier(events[n + 1].sub), events' = events,
           record'.sub = events[n + 1].sub, record'.tier = TierOf[events[n + 1].sub],
           record'.status = StatusAfter(events[n + 1]), EmailUpTo(n + 1, record'.email)
    PROVE  Reflects(n + 1)'
<1>1. n + 1 \in Heeded /\ Heeded \subseteq Nat
  BY EventNumbers DEF Heeded
<1>2. IsLast(n + 1, Heeded, n + 1)
  BY <1>1 DEF IsLast
<1>3. Heeded' = Heeded /\ Completions' = Completions
  BY DEF Heeded, Completions
<1> QED
  BY <1>1, <1>2, <1>3 DEF Reflects, EmailUpTo, StatusAfter, IsLast

\* A step of the one invocation that is at work, which does not store the marker.
LEMMA HandledByOne ==
    ASSUME NEW n \in Nat, HandledUpTo(n), NEW h \in Hooks,
           \A g \in Hooks : g # h => hook[g].pc = "idle" /\ hook'[g] = hook[g],
           events' = events, processed' = processed, index \subseteq index',
           Reflects(n)' \/ (n + 1 \in DOMAIN events /\ Reflects(n + 1)'),
           hook'[h].pc # "idle" => hook'[h].ev = n + 1,
           hook'[h].pc = "writing" => EmailUpTo(n, hook'[h].read.email),
           hook'[h].pc \in {"indexing", "marking"} => Reflects(n + 1)',
           hook'[h].pc = "marking" /\ n + 1 \in Completions => events[n + 1].sub \in index'
    PROVE  HandledUpTo(n)'
<1>1. \A g \in Hooks : hook'[g].pc # "idle" => g = h
  OBVIOUS
<1>2. \A c \in Completions' : c <= n => events'[c].sub \in index'
  BY DEF HandledUpTo, Completions, Heeded
<1>3. Completions' = Completions /\ \A m, email : EmailUpTo(m, email) => EmailUpTo(m, email)'
  BY DEF Completions, Heeded, EmailUpTo, IsLast
<1>4. processed' = 1 .. n
  BY DEF HandledUpTo
<1>5. /\ \A g \in Hooks : hook'[g].pc # "idle" => hook'[g].ev = n + 1
      /\ \A f, g \in Hooks : hook'[f].pc # "idle" /\ hook'[g].pc # "idle" => f = g
  BY <1>1
<1>6. Reflects(n)' \/ (n + 1 \in DOMAIN events' /\ Reflects(n + 1)')
  OBVIOUS
<1>7. \A g \in Hooks : hook'[g].pc = "writing" => EmailUpTo(n, hook[g].read.email)'
  BY <1>1, <1>3 DEF EmailUpTo, IsLast
<1>8. \A g \in Hooks : hook'[g].pc \in {"indexing", "marking"} => Reflects(n + 1)'
  BY <1>1
<1>9. \A g \in Hooks : hook'[g].pc = "marking" /\ (hook[g].ev \in Completions)' => Event(g)'.sub \in index'
  BY <1>1, <1>3 DEF Event
<1> QED
  BY <1>2, <1>4, <1>5, <1>6, <1>7, <1>8, <1>9 DEF HandledUpTo

\* Whoever handles an update has the record of an earlier checkout, with its email.
LEMMA BuyerIsKnown ==
    ASSUME TypeOK, StartsWithCheckout, NEW n \in Nat, HandledUpTo(n), n + 1 \in DOMAIN events,
           events[n + 1].type # "completed", PaidTier(events[n + 1].sub)
    PROVE  EmailUpTo(n, record.email) /\ events[n + 1].sub \in index
<1>1. PICK c \in 1 .. (n + 1 - 1) : c \in Completions /\ events[c].sub = events[n + 1].sub
  BY DEF StartsWithCheckout
<1>2. c <= n /\ c <= n + 1 /\ c \in Heeded
  BY <1>1, EventNumbers
<1>3. events[c].sub \in index
  BY <1>1, <1>2 DEF HandledUpTo
<1>4. n + 1 \notin Completions
  BY DEF Completions
<1>5. EmailUpTo(n, record.email) \/ EmailUpTo(n + 1, record.email)
  BY <1>2 DEF HandledUpTo, Reflects
<1> QED
  BY <1>1, <1>3, <1>4, <1>5, EmailOfNext

LEMMA StepHandledInOrder ==
    ASSUME IndInv, [Next]_vars, orderly, account.pc = "live", NEW n \in 0 .. Len(events), HandledUpTo(n),
           NEW h \in Hooks, Webhook(h), orderly'
    PROVE  \E m \in 0 .. Len(events') : HandledUpTo(m)'
<1>1. n \in Nat /\ Len(events) \in Nat /\ DOMAIN events = 1 .. Len(events) /\ TypeOK /\ HooksHoldEvents
      /\ StartsWithCheckout
  BY EventsGrow DEF IndInv
<1>2. hook \in [Hooks -> HookType] /\ hook' = [hook EXCEPT ![h] = hook'[h]] /\ events' = events
  BY <1>1, HookMoves DEF TypeOK, HookType, Webhook, Receive, Body, PutCheckout, PutReverseIndex, GetExisting, LookUp,
     Ignore, PutUpdate, Mark, Swallow, Crash
<1>3. \A g \in Hooks : g # h => hook'[g] = hook[g]
  BY <1>2
<1>4. ASSUME hook[h].pc # "idle"
      PROVE  /\ \A g \in Hooks : g # h => hook[g].pc = "idle" /\ hook'[g] = hook[g]
             /\ hook[h].ev = n + 1 /\ n + 1 \in DOMAIN events /\ Event(h) = events[n + 1]
             /\ hook[h] \in HookType
  BY <1>1, <1>2, <1>3, <1>4 DEF HandledUpTo, HooksHoldEvents, Event
<1>5. record' = record => /\ Reflects(n) => Reflects(n)'
                          /\ n + 1 \in DOMAIN events /\ Reflects(n + 1) => Reflects(n + 1)'
  <2>1. n \in 0 .. Len(events) /\ (n + 1 \in DOMAIN events => n + 1 \in 0 .. Len(events))
    BY <1>1
  <2> QED
    BY <1>1, <2>1, ReflectsKept
<1>6. Reflects(n) \/ (n + 1 \in DOMAIN events /\ Reflects(n + 1))
  BY DEF HandledUpTo
<1>7. HandledUpTo(n)' => \E m \in 0 .. Len(events') : HandledUpTo(m)'
  BY <1>2
<1>8. ASSUME NEW e \in DOMAIN events, Receive(h, e) PROVE HandledUpTo(n)'
  <2>1. /\ e \notin processed /\ InOrder(e) /\ hook'[h].pc = "fresh" /\ hook'[h].ev = e
        /\ UNCHANGED <<record, index, processed>>
    BY <1>2, <1>8 DEF Receive, IdleHook, billing
  <2>2. processed = 1 .. n
    BY DEF HandledUpTo
  <2>3. e = n + 1
    <3>1. 1 .. (e - 1) \subseteq 1 .. n /\ e \notin 1 .. n /\ e \in Nat /\ e >= 1
      BY <1>1, <2>1, <2>2 DEF InOrder
    <3>2. e > n
      BY <1>1, <3>1
    <3>3. CASE e > n + 1
      <4>1. n + 1 \in 1 .. (e - 1) /\ n + 1 \notin 1 .. n
        BY <1>1, <3>1, <3>3
      <4> QED
        BY <3>1, <4>1
    <3> QED
      BY <1>1, <3>1, <3>2, <3>3
  <2>4. \A g \in Hooks : g # h => hook[g].pc = "idle" /\ hook'[g] = hook[g]
    BY <1>3, <2>1 DEF InOrder, IdleHook
  <2> QED
    BY <1>1, <1>2, <1>5, <1>6, <2>1, <2>3, <2>4, HandledByOne
<1>9. CASE PutCheckout(h)
  <2>1. /\ hook[h].pc = "fresh" /\ Event(h).type = "completed" /\ PaidTier(Event(h).sub)
        /\ UNCHANGED <<index, processed>>
        /\ record' = [tier |-> TierOf[Event(h).sub], status |-> CheckoutStatus(Event(h).status),
                      sub |-> Event(h).sub, email |-> Event(h).email]
        /\ hook'[h].pc = "indexing" /\ hook'[h].ev = hook[h].ev
    BY <1>2, <1>4, <1>9 DEF PutCheckout, Move, HookType
  <2>2. Event(h) = events[n + 1] /\ n + 1 \in DOMAIN events
    BY <1>4, <2>1
  <2>3. n + 1 \in Completions
    BY <2>1, <2>2 DEF Completions, Heeded
  <2>4. EmailUpTo(n + 1, record'.email)
    BY <1>1, <2>1, <2>2, <2>3, EmailOfNext
  <2>5. record'.status = StatusAfter(events[n + 1])
    BY <2>1, <2>2 DEF StatusAfter, CheckoutStatus
  <2>6. Reflects(n + 1)'
    BY <1>1, <1>2, <2>1, <2>2, <2>4, <2>5, ReflectsNext
  <2> QED
    BY <1>1, <1>2, <1>4, <2>1, <2>2, <2>6, HandledByOne
<1>10. CASE PutReverseIndex(h)
  <2>1. /\ hook[h].pc = "indexing" /\ index' = index \cup {Event(h).sub} /\ UNCHANGED <<record, processed>>
        /\ hook'[h].pc = "marking" /\ hook'[h].ev = hook[h].ev
    BY <1>2, <1>4, <1>10 DEF PutReverseIndex, Move, HookType
  <2>2. Reflects(n + 1)
    BY <2>1 DEF HandledUpTo
  <2> QED
    BY <1>1, <1>2, <1>4, <1>5, <2>1, <2>2, HandledByOne
<1>11. CASE GetExisting(h)
  <2>1. /\ hook[h].pc # "idle" /\ Event(h).type # "completed" /\ PaidTier(Event(h).sub)
        /\ UNCHANGED <<record, index, processed>>
        /\ hook'[h].pc = "writing" /\ hook'[h].ev = hook[h].ev /\ hook'[h].read = record
    BY <1>1, <1>2, <1>11 DEF GetExisting, HookType, HooksHoldEvents, billing
  <2>2. EmailUpTo(n, record.email)
    BY <1>1, <1>4, <2>1, BuyerIsKnown
  <2> QED
    BY <1>1, <1>2, <1>4, <1>5, <1>6, <2>1, <2>2, HandledByOne
<1>12. CASE Ignore(h)
  <2>1. /\ hook[h].pc = "fresh" /\ UNCHANGED <<record, index, processed>>
        /\ PaidTier(Event(h).sub) => Event(h).type # "completed" /\ Event(h).sub \notin index
        /\ hook'[h].pc = "marking" /\ hook'[h].ev = hook[h].ev
    BY <1>2, <1>12 DEF Ignore, Move, UserKnown, HookType, billing
  <2>2. Event(h) = events[n + 1] /\ n + 1 \in DOMAIN events
    BY <1>4, <2>1
  <2>3. ~PaidTier(events[n + 1].sub)
    BY <1>1, <2>1, <2>2, BuyerIsKnown
  <2>4. Reflects(n + 1) /\ n + 1 \notin Completions
    BY <1>1, <1>6, <2>2, <2>3, UnheededNext DEF Completions, Heeded
  <2> QED
    BY <1>1, <1>2, <1>4, <1>5, <2>1, <2>2, <2>4, HandledByOne
<1>13. CASE PutUpdate(h)
  <2>1. /\ hook[h].pc = "writing" /\ record' = Merge(hook[h].read, Event(h)) /\ UNCHANGED <<index, processed>>
        /\ hook'[h].pc = "marking" /\ hook'[h].ev = hook[h].ev
    BY <1>2, <1>4, <1>13 DEF PutUpdate, Move, HookType
  <2>2. hook[h].read \in Records /\ EmailUpTo(n, hook[h].read.email) /\ Event(h).type # "completed"
        /\ PaidTier(Event(h).sub) /\ Event(h) = events[n + 1] /\ n + 1 \in DOMAIN events
    BY <1>1, <1>4, <2>1 DEF HookType, HandledUpTo, HooksHoldEvents
  <2>3. /\ record'.tier = TierOf[Event(h).sub] /\ record'.status = Event(h).status
        /\ record'.sub = Event(h).sub /\ record'.email = hook[h].read.email
    BY <2>1, <2>2 DEF Merge, Records
  <2>4. n + 1 \notin Completions /\ record'.status = StatusAfter(events[n + 1])
    BY <2>2, <2>3 DEF Completions, StatusAfter
  <2>5. EmailUpTo(n + 1, record'.email)
    BY <1>1, <2>2, <2>3, <2>4, EmailOfNext
  <2>6. Reflects(n + 1)'
    BY <1>1, <1>2, <2>2, <2>3, <2>4, <2>5, ReflectsNext
  <2> QED
    BY <1>1, <1>2, <1>4, <2>1, <2>2, <2>4, <2>6, HandledByOne
<1>14. ASSUME Swallow(h) PROVE FALSE
  BY <1>14 DEF Swallow
<1>15. CASE Mark(h)
  <2>1. /\ hook[h].pc = "marking" /\ processed' = processed \cup {hook[h].ev} /\ UNCHANGED <<record, index>>
        /\ hook'[h].pc = "idle"
    BY <1>2, <1>15 DEF Mark, IdleHook
  <2>2. \A g \in Hooks : hook'[g].pc = "idle"
    BY <1>4, <2>1
  <2>3. n + 1 \in 0 .. Len(events') /\ processed' = 1 .. (n + 1)
    BY <1>1, <1>2, <1>4, <2>1 DEF HandledUpTo
  <2>4. Reflects(n + 1)'
    BY <1>4, <1>5, <2>1 DEF HandledUpTo
  <2>5. \A c \in Completions' : c <= n + 1 => events'[c].sub \in index'
    <3>1. n + 1 \in Completions => events[n + 1].sub \in index
      BY <1>4, <2>1 DEF HandledUpTo
    <3>2. ASSUME NEW c \in Completions, c <= n + 1 PROVE events[c].sub \in index
      <4>1. CASE c <= n
        BY <4>1 DEF HandledUpTo
      <4>2. CASE c = n + 1
        BY <3>1, <3>2, <4>2
      <4>3. c \in Nat
        BY <1>1 DEF Completions, Heeded
      <4> QED
        BY <1>1, <3>2, <4>1, <4>2, <4>3
    <3> QED
      BY <1>2, <2>1, <3>2 DEF Completions, Heeded
  <2>6. HandledUpTo(n + 1)'
    BY <2>2, <2>3, <2>4, <2>5 DEF HandledUpTo
  <2> QED
    BY <2>3, <2>6
<1>16. CASE Crash(h)
  <2>1. hook[h].pc # "idle" /\ hook'[h].pc = "idle" /\ UNCHANGED <<record, index, processed>>
    BY <1>2, <1>16 DEF Crash, IdleHook, billing
  <2> QED
    BY <1>1, <1>2, <1>4, <1>5, <1>6, <2>1, HandledByOne
<1>17. CASE LookUp(h)
  <2>1. hook[h].pc # "idle" /\ UNCHANGED <<record, index, processed>>
        /\ hook'[h].pc = "known" /\ hook'[h].ev = hook[h].ev
    BY <1>2, <1>17 DEF LookUp, Move, HookType, billing
  <2> QED
    BY <1>1, <1>2, <1>4, <1>5, <1>6, <2>1, HandledByOne
<1> QED
  BY <1>7, <1>8, <1>9, <1>10, <1>11, <1>12, <1>13, <1>14, <1>15, <1>16, <1>17
     DEF Webhook, Body

LEMMA StepInSync == ASSUME IndInv, [Next]_vars PROVE InSync'
<1> SUFFICES ASSUME orderly', account'.pc = "live"
             PROVE  \E n \in 0 .. Len(events') : HandledUpTo(n)'
  BY DEF InSync
<1>1. TypeOK /\ HooksHoldEvents /\ StartsWithCheckout /\ ~Deletion
  <2>1. ~DeletionReads
    <3>1. DeletionReads => account' = [pc |-> "read", read |-> record.sub]
      BY DEF DeletionReads
    <3> QED
      BY <3>1
  <2>2. ~DeletionUnindexes
    BY DEF DeletionUnindexes
  <2>3. ~DeletionEnds
    BY DEF DeletionEnds
  <2> QED
    BY <2>1, <2>2, <2>3 DEF IndInv, Deletion
<1>2. orderly /\ account.pc = "live"
  BY <1>1, StepKinds DEF ghosts, Emitted, Emit, Webhook, Receive, Body, PutCheckout, PutReverseIndex,
     GetExisting, LookUp, Ignore, PutUpdate, Mark, Swallow, Crash
<1>3. PICK n \in 0 .. Len(events) : HandledUpTo(n)
  BY <1>2 DEF IndInv, InSync
<1>4. CASE UNCHANGED <<hook, record, index, processed>>
  <2>1. n \in 0 .. Len(events') /\ n \in Nat /\ (n = 0 \/ n \in DOMAIN events)
        /\ DOMAIN events \subseteq DOMAIN events' /\ \A e \in DOMAIN events : events'[e] = events[e]
    BY <1>1, <1>3, EventsGrow
  <2>2. Reflects(n)' \/ (n + 1 \in DOMAIN events' /\ Reflects(n + 1)')
    BY <1>1, <1>3, <1>4, <2>1, ReflectsKept DEF HandledUpTo
  <2>3. ASSUME NEW h \in Hooks, hook[h].pc # "idle"
        PROVE  n + 1 \in DOMAIN events /\ Event(h)' = Event(h)
    BY <1>1, <1>3, <1>4, <2>1, <2>3 DEF HandledUpTo, HooksHoldEvents, Event
  <2>4. \A h \in Hooks : hook[h].pc \in {"indexing", "marking"} => Reflects(n + 1)'
    BY <1>1, <1>3, <1>4, <2>3, ReflectsKept DEF HandledUpTo
  <2>7. \A h \in Hooks : hook'[h].pc = "writing" => EmailUpTo(n, hook[h].read.email)'
    <3>1. \A h \in Hooks : hook[h].pc = "writing" => EmailUpTo(n, hook[h].read.email)
      BY <1>3 DEF HandledUpTo
    <3>2. \A email : EmailUpTo(n, email) => \E c \in Completions' :
              IsLast(c, Completions', n) /\ email = events'[c].email
      BY <1>1, ReflectsKept
    <3> QED
      BY <1>4, <3>1, <3>2 DEF EmailUpTo, IsLast
  <2>5. \A c \in Completions' : c <= n => events'[c].sub \in index'
    <3>1. ASSUME NEW c \in Completions', c <= n PROVE c \in Completions /\ events'[c] = events[c]
      <4>1. c \in 1 .. Len(events') /\ c \in Nat /\ DOMAIN events = 1 .. Len(events) /\ Len(events) \in Nat
        BY <1>1, EventsGrow DEF Completions, Heeded
      <4>2. c \in DOMAIN events
        BY <1>3, <3>1, <4>1
      <4> QED
        BY <1>1, <2>1, <4>2, CompletionsGrow
    <3> QED
      BY <1>3, <1>4, <3>1 DEF HandledUpTo
  <2>6. HandledUpTo(n)'
    <3>1. \A h \in Hooks : hook[h].pc = "marking" /\ hook[h].ev \in Completions' => Event(h)'.sub \in index
      <4>1. \A h \in Hooks : hook[h].pc # "idle" => hook[h].ev \in DOMAIN events
        BY <1>1 DEF HooksHoldEvents
      <4> QED
        BY <1>1, <1>3, <2>3, <4>1, CompletionsGrow DEF HandledUpTo
    <3> QED
      BY <1>3, <1>4, <2>2, <2>3, <2>4, <2>5, <2>7, <3>1 DEF HandledUpTo
  <2> QED
    BY <2>1, <2>6
<1>5. ASSUME NEW h \in Hooks, Webhook(h)
      PROVE  \E m \in 0 .. Len(events') : HandledUpTo(m)'
  BY <1>2, <1>3, <1>5, StepHandledInOrder
<1> QED
  BY <1>1, <1>4, <1>5, StepKinds DEF Emitted, Emit, billing

-----------------------------------------------------------------------------
(***************************************************************************)
(* The invariant holds                                                     *)
(***************************************************************************)
LEMMA InitIndInv == Init => IndInv
<1> SUFFICES ASSUME Init PROVE IndInv
  OBVIOUS
<1>1. events \in Seq(EventType) /\ Len(events) = 0 /\ DOMAIN events = {} /\ Completions = {}
  BY EmptySeq DEF Init, Completions, Heeded
<1>2. NoRecord \in Records /\ IdleHook \in HookType
  BY RecordTypes DEF IdleHook, HookType
<1>3. TypeOK
  <2>1. hook \in [Hooks -> HookType] /\ record \in Records /\ crashes \in 0 .. MaxCrashes
    BY <1>2, BoundsAssumption DEF Init
  <2>2. stripe \in [Subs -> Payments \cup Statuses \cup {"none"}]
    BY DEF Init
  <2> QED
    BY <1>1, <2>1, <2>2 DEF Init, TypeOK, EventType, HookType, IdleDigest
<1>4. StartsWithCheckout /\ HooksHoldEvents
  BY <1>1 DEF Init, StartsWithCheckout, HooksHoldEvents, IdleHook
<1>5. InSync
  <2>1. processed = 1 .. 0 /\ Reflects(0)
    BY <1>1 DEF Init, Reflects, Heeded
  <2>2. HandledUpTo(0)
    BY <1>1, <2>1 DEF Init, HandledUpTo, IdleHook
  <2> QED
    BY <1>1, <2>2 DEF InSync
<1>6. IndexFollowsRecord /\ DeletionSoFar
  BY DEF Init, IndexFollowsRecord, DeletionSoFar, IdleHook
<1> QED
  BY <1>3, <1>4, <1>5, <1>6 DEF IndInv

LEMMA IndInvStep == IndInv /\ [Next]_vars => IndInv'
  BY StepTypeOK, StepStartsWithCheckout, StepHooksHoldEvents, StepInSync, StepIndexFollowsRecord,
     StepDeletionSoFar DEF IndInv

LEMMA IndInvHolds == Spec => []IndInv
  BY InitIndInv, IndInvStep, PTL DEF Spec

-----------------------------------------------------------------------------
(***************************************************************************)
(* The theorems                                                            *)
(***************************************************************************)
\* Every variable has its type.
THEOREM TypeCorrect == Spec => []TypeOK
<1>1. IndInv => TypeOK
  BY DEF IndInv
<1> QED
  BY <1>1, IndInvHolds, PTL

\* When all is handled in order, the record is as the last event left it.
LEMMA QuietInSync ==
    ASSUME IndInv, orderly, Quiet, account.pc = "live"
    PROVE  Reflects(Len(events)) /\ Len(events) \in Nat /\ DOMAIN events = 1 .. Len(events)
<1>1. PICK n \in 0 .. Len(events) : HandledUpTo(n)
  BY DEF IndInv, InSync
<1>2. DOMAIN events = 1 .. Len(events) /\ Len(events) \in Nat
  BY LenProperties DEF IndInv, TypeOK
<1>3. 1 .. n = 1 .. Len(events)
  BY <1>1, <1>2 DEF Quiet, HandledUpTo
<1>4. n = Len(events)
  <2>1. CASE n < Len(events)
    <3>1. n + 1 \in 1 .. Len(events) /\ n + 1 \notin 1 .. n
      BY <1>2, <2>1
    <3> QED
      BY <1>3, <3>1
  <2>2. n \in Nat /\ Len(events) \in Nat /\ n <= Len(events)
    BY <1>2
  <2> QED
    BY <2>1, <2>2
<1> QED
  BY <1>1, <1>2, <1>4 DEF HandledUpTo

\* The last member of a set of event numbers is the latest.
LEMMA LatestIsLast ==
    ASSUME NEW S \in SUBSET Nat, NEW n \in Nat, \A d \in S : d <= n, NEW e, IsLast(e, S, n)
    PROVE  Latest(S) = e
<1>1. e \in S /\ \A d \in S : d <= e
  BY DEF IsLast
<1>2. Latest(S) \in S /\ \A d \in S : d <= Latest(S)
  BY <1>1 DEF Latest
<1>3. e <= Latest(S) /\ Latest(S) <= e /\ e \in Nat /\ Latest(S) \in Nat
  BY <1>1, <1>2
<1> QED
  BY <1>3

\* The record when all is handled, in the words of the properties.
LEMMA QuietRecord ==
    ASSUME IndInv, orderly, Quiet, account.pc = "live"
    PROVE  IF Heeded = {} THEN record = NoRecord
           ELSE /\ record.sub = LastEvent.sub
                /\ record.tier = TierOf[LastEvent.sub]
                /\ record.status = StatusAfter(LastEvent)
                /\ record.email = events[Latest(Completions)].email
<1> DEFINE n == Len(events)
<1>1. /\ Reflects(n) /\ n \in Nat /\ DOMAIN events = 1 .. n
      /\ Completions \subseteq Heeded /\ Heeded \subseteq 1 .. n
  BY QuietInSync, EventNumbers DEF IndInv
<1>2. \A d \in Heeded : d <= n /\ d \in Nat
  BY <1>1
<1> HIDE DEF n
<1>3. CASE Heeded = {}
  BY <1>1, <1>3 DEF Reflects
<1>4. CASE Heeded # {}
  <2>1. PICK e \in Heeded : /\ IsLast(e, Heeded, n)
                            /\ record.sub = events[e].sub
                            /\ record.tier = TierOf[events[e].sub]
                            /\ record.status = StatusAfter(events[e])
    BY <1>1, <1>2, <1>4 DEF Reflects
  <2>2. PICK c \in Completions : IsLast(c, Completions, n) /\ record.email = events[c].email
    BY <1>1, <1>2, <1>4 DEF Reflects, EmailUpTo
  <2>3. Latest(Heeded) = e /\ Latest(Completions) = c
    BY <1>1, <1>2, <2>1, <2>2, LatestIsLast
  <2> QED
    BY <1>4, <2>1, <2>2, <2>3 DEF LastEvent
<1> QED
  BY <1>3, <1>4

\* However invocations die and events are delivered again, the record ends up as the
\* last event that can be attributed left it, with the email of the last checkout.
THEOREM RecordFollowsEvents == Spec => []OrderlySync
<1>1. IndInv => OrderlySync
  BY QuietRecord DEF OrderlySync
<1> QED
  BY <1>1, IndInvHolds, PTL

\* A deletion that no webhook ran into leaves neither the record nor, for a user
\* with one subscription, an index entry.
THEOREM DeletionLeavesNothing == Spec => []DeletionIsComplete
<1>1. IndInv => DeletionIsComplete
  BY DEF IndInv, DeletionSoFar, DeletionIsComplete
<1> QED
  BY <1>1, IndInvHolds, PTL

\* A digest is composed only for what Stripe and the user have left entitled.
THEOREM DigestEndsWithEntitlement == Spec => ComposeRespectsEnding
<1> DEFINE Entitled ==
        digest.pc = "due" /\ digest'.pc = "composing" =>
           /\ account.pc # "deleted" \/ disturbed
           /\ orderly /\ Quiet /\ account.pc = "live" =>
                 /\ Heeded # {}
                 /\ IsActiveStatus(StatusAfter(LastEvent))
                 /\ TierEntitledToDigest(TierOf[LastEvent.sub], digest.type)
<1>1. IndInv /\ [Next]_vars => [Entitled]_vars
  <2> SUFFICES ASSUME IndInv, [Next]_vars, digest.pc = "due", digest'.pc = "composing"
               PROVE  /\ account.pc # "deleted" \/ disturbed
                      /\ orderly /\ Quiet /\ account.pc = "live" =>
                            /\ Heeded # {}
                            /\ IsActiveStatus(StatusAfter(LastEvent))
                            /\ TierEntitledToDigest(TierOf[LastEvent.sub], digest.type)
    OBVIOUS
  <2>1. Deliverable
    <3>1. Digest
      BY DEF Next, Stripe, Completed, Updated, Deleted, Emit, Deletion, DeletionReads, DeletionUnindexes,
         DeletionEnds, Webhook, Receive, Body, PutCheckout, PutReverseIndex, GetExisting, LookUp, Ignore, PutUpdate,
         Mark, Swallow, Crash, vars
    <3>2. NextType.pc # "composing"
      <4>1. digest \in [pc : {"idle", "due", "composing", "sending"}, tier : {"none", "solo", "pro"},
                        type : {"none", "earnings", "unpaid-commissions"}]
        BY DEF IndInv, TypeOK
      <4> QED
        BY <4>1 DEF NextType, IdleDigest
    <3>3. ~Roster
      BY DEF Roster
    <3> QED
      BY <3>1, <3>2, <3>3 DEF Digest, Compose, Skip, ComposeFails, Send, Sent
  <2>2. record # NoRecord
    BY <2>1 DEF Deliverable, IsActiveStatus, NoRecord
  <2>3. account.pc # "deleted" \/ disturbed
    BY <2>2 DEF IndInv, DeletionSoFar
  <2>4. ASSUME orderly, Quiet, account.pc = "live"
        PROVE  /\ Heeded # {}
               /\ record.tier = TierOf[LastEvent.sub] /\ record.status = StatusAfter(LastEvent)
    BY <2>2, <2>4, QuietRecord
  <2> QED
    BY <2>1, <2>3, <2>4 DEF Deliverable
<1> QED
  BY <1>1, IndInvHolds, PTL DEF Spec, ComposeRespectsEnding
=============================================================================
