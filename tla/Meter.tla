------------------------------- MODULE Meter --------------------------------
(***************************************************************************)
(* The free-tier meter of one user (hosted/src/meter.ts), as               *)
(* POST /billing/meter runs it (hosted/src/routes/billing.ts).             *)
(*                                                                         *)
(* consumeFreeWindow is a read-modify-write of one KV key with no lock:    *)
(* the handler reads the clock, awaits kv.get, decides, and awaits kv.put  *)
(* when the list of windows changed.  Requests of the same user overlap at *)
(* the two awaits.  A list of windows is a set here: it is sorted and      *)
(* start times are distinct (Get and Put keep both).                       *)
(***************************************************************************)
EXTENDS Integers, FiniteSets

CONSTANTS
    Requests,   \* slots for overlapping meter requests of the user
    N,          \* FREE_WINDOWS_PER_WEEK
    Window,     \* WINDOW_MS
    Week,       \* WEEK_MS
    Latency,    \* bound: the clock stops while a request is this old
    MaxTime     \* bound: the clock stops here

ASSUME RequestsAssumption == IsFiniteSet(Requests)
ASSUME KnobsAssumption == /\ N \in Nat \ {0}
                          /\ Window \in Nat \ {0}
                          /\ Week \in Nat
                          /\ Window <= Week
                          /\ Latency \in Nat
                          /\ MaxTime \in Nat

VARIABLES
    now,        \* Date.now()
    windows,    \* HOSTED_BILLING meter:<userId>, {} when the key is absent
    expiresAt,  \* when KV drops the key (expirationTtl of the last put)
    pc,         \* pc[r]: where request r is
    at,         \* at[r]: nowMs, read before kv.get
    seen,       \* seen[r]: the stored list, as kv.get returned it
    opened,     \* ghost: start of every window a call has opened
    raced       \* ghost: those opened while another request had read and not yet ended

store == <<windows, expiresAt>>
ghosts == <<opened, raced>>
vars == <<now, windows, expiresAt, pc, at, seen, opened, raced>>

-----------------------------------------------------------------------------
(***************************************************************************)
(* decideFreeWindow(windows, nowMs): W is the list, t is nowMs.            *)
(***************************************************************************)
\* Bug variants: nothing ages out; the window length prunes.
PruneNothing(W, t) == W
PruneByWindow(W, t) == {w \in W : t - w < Window}

Prune(W, t) == {w \in W : t - w < Week}

\* Bug variant: an open window is never noticed.
InsideNoWindow(W, t) == FALSE

\* The newest surviving window is still open at t.
Inside(W, t) == \E w \in Prune(W, t) : t - w < Window

\* Bug variant: one window too many.
FullOffByOne(W, t) == Cardinality(Prune(W, t)) > N

Full(W, t) == Cardinality(Prune(W, t)) >= N

Allowed(W, t) == Inside(W, t) \/ ~Full(W, t)
OpensWindow(W, t) == ~Inside(W, t) /\ ~Full(W, t)
NextWindows(W, t) == Prune(W, t) \cup (IF OpensWindow(W, t) THEN {t} ELSE {})

-----------------------------------------------------------------------------
(***************************************************************************)
(* consumeFreeWindow                                                       *)
(***************************************************************************)
Init ==
    /\ now = 0
    /\ windows = {}
    /\ expiresAt = 0
    /\ pc = [r \in Requests |-> "idle"]
    /\ at = [r \in Requests |-> 0]
    /\ seen = [r \in Requests |-> {}]
    /\ opened = {}
    /\ raced = {}

\* handleBillingMeter evaluates Date.now(), then kv.get is under way.
Start(r) ==
    /\ pc[r] = "idle"
    /\ pc' = [pc EXCEPT ![r] = "reading"]
    /\ at' = [at EXCEPT ![r] = now]
    /\ UNCHANGED <<now, store, seen, ghosts>>

\* kv.get returns.
Get(r) ==
    /\ pc[r] = "reading"
    /\ pc' = [pc EXCEPT ![r] = "deciding"]
    /\ seen' = [seen EXCEPT ![r] = windows]
    /\ UNCHANGED <<now, store, at, ghosts>>

Deciding == {r \in Requests : pc[r] = "deciding"}

Finish(r) ==
    /\ pc' = [pc EXCEPT ![r] = "idle"]
    /\ at' = [at EXCEPT ![r] = 0]
    /\ seen' = [seen EXCEPT ![r] = {}]

\* The list did not change: nothing is written.
Keep(r) ==
    /\ pc[r] = "deciding"
    /\ NextWindows(seen[r], at[r]) = seen[r]
    /\ Finish(r)
    /\ UNCHANGED <<now, store, ghosts>>

\* The list changed: kv.put, computed from what was read.
Put(r) ==
    /\ pc[r] = "deciding"
    /\ NextWindows(seen[r], at[r]) # seen[r]
    /\ windows' = NextWindows(seen[r], at[r])
    /\ expiresAt' = now + Week
    /\ opened' = IF OpensWindow(seen[r], at[r]) THEN opened \cup {at[r]} ELSE opened
    /\ raced' = IF OpensWindow(seen[r], at[r]) /\ Deciding \ {r} # {} THEN raced \cup {at[r]} ELSE raced
    /\ Finish(r)
    /\ UNCHANGED now

\* The Worker dies, or a KV call throws: the request ends unanswered.
Abort(r) ==
    /\ pc[r] # "idle"
    /\ Finish(r)
    /\ UNCHANGED <<now, store, ghosts>>

\* KV drops the key.
Expire ==
    /\ windows # {}
    /\ expiresAt <= now
    /\ windows' = {}
    /\ UNCHANGED <<now, expiresAt, pc, at, seen, ghosts>>

Tick ==
    /\ now < MaxTime
    /\ \A r \in Requests : pc[r] # "idle" => now - at[r] < Latency
    /\ now' = now + 1
    /\ UNCHANGED <<store, pc, at, seen, ghosts>>

Serve(r) == Start(r) \/ Get(r) \/ Keep(r) \/ Put(r) \/ Abort(r)

Next == Tick \/ Expire \/ \E r \in Requests : Serve(r)

Spec == Init /\ [][Next]_vars

-----------------------------------------------------------------------------
(***************************************************************************)
(* Properties                                                              *)
(***************************************************************************)
MeterLists == {W \in SUBSET (0..MaxTime) : Cardinality(W) <= N}

\* Every variable has its type; no list ever holds more than N windows.
TypeOK ==
    /\ now \in 0..MaxTime
    /\ windows \in MeterLists
    /\ expiresAt \in Nat
    /\ pc \in [Requests -> {"idle", "reading", "deciding"}]
    /\ at \in [Requests -> 0..now]
    /\ seen \in [Requests -> MeterLists]
    /\ opened \in SUBSET (0..now)
    /\ raced \in SUBSET opened

Apart(W) == \A v, w \in W : v < w => w - v >= Window

\* However requests overlap, the stored list never charges twice for one window.
StoredWindowsApart == Apart(windows)

\* "over-counting is impossible": a call is refused only when N windows really
\* were opened within the week before it.
RefusalsJustified ==
    \A r \in Requests :
        pc[r] = "deciding" /\ ~Allowed(seen[r], at[r])
            => Cardinality({w \in opened : at[r] - w < Week}) >= N

\* The starts in S that fall in the week ending at t, shortened by the age of a slow request.
Lately(S, t) == {w \in S : w <= t /\ t - w < Week - Latency}

\* "FREE_WINDOWS_PER_WEEK windows in any rolling 7-day span".  A window counts in full
\* if nobody else was between read and write when it was stored: of such windows no week
\* ever holds more than N, whatever else races, ages out or dies in it.  So every window
\* too many was opened in a race.
WeeklyQuota == \A t \in 0..now : Cardinality(Lately(opened \ raced, t)) <= N
=============================================================================
