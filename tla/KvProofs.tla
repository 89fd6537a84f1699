------------------------------ MODULE KvProofs ------------------------------
(***************************************************************************)
(* Proofs about two records the hosted server keeps in Workers KV, which   *)
(* has neither locks nor transactions: the windows of the free-tier meter  *)
(* and the keys and blobs of the credential vault.                         *)
(*                                                                         *)
(* The two share no variable.                                              *)
(***************************************************************************)
EXTENDS Meter, Vault, FiniteSetTheorems, TLAPS

-----------------------------------------------------------------------------
(***************************************************************************)
(* The meter.  For any number of overlapping requests, any N, Window and   *)
(* Week: the stored list never outgrows N, never charges one window twice, *)
(* a refusal is always backed by N windows that were really opened, and no *)
(* week holds more than N windows that were opened outside a race.         *)
(***************************************************************************)
\* The lists in the store and in flight are well formed and were really opened.
ListOK(W) == W \subseteq opened /\ Apart(W)

\* W has every window opened outside a race, or a week has passed since.
Remembers(W) == \A w \in opened \ raced : w \in W \/ now - w >= Week

\* KV does not drop the key before its windows have aged out, and whoever is about to
\* write a list has read it lately and knows of every window opened outside a race.
QuotaKept ==
    /\ \A w \in windows : w + Week <= expiresAt
    /\ Remembers(windows)
    /\ \A r \in Requests : pc[r] # "idle" => now - at[r] <= Latency
    /\ \A r \in Deciding : Remembers(seen[r])
    /\ WeeklyQuota

ListsKept ==
    /\ TypeOK
    /\ ListOK(windows)
    /\ \A r \in Requests : ListOK(seen[r])

MeterInv == ListsKept /\ QuotaKept

\* The lists the meter keeps are finite, and pruning never makes one longer.
LEMMA ListFacts ==
    ASSUME NEW W \in MeterLists
    PROVE  /\ IsFiniteSet(W)
           /\ Cardinality(W) \in Nat
           /\ \A t : /\ Prune(W, t) \subseteq W
                    /\ IsFiniteSet(Prune(W, t))
                    /\ Cardinality(Prune(W, t)) \in Nat
                    /\ Cardinality(Prune(W, t)) <= N
  <1>1. MaxTime \in Nat /\ N \in Nat
    BY KnobsAssumption
  <1>2. IsFiniteSet(W) /\ Cardinality(W) <= N
    <2>1. IsFiniteSet(0..MaxTime)
      BY <1>1, FS_Interval
    <2> QED
      BY <2>1, FS_Subset DEF MeterLists
  <1>3. Cardinality(W) \in Nat
    BY <1>2, FS_CardinalityType
  <1>4. ASSUME NEW t
        PROVE  /\ Prune(W, t) \subseteq W
               /\ IsFiniteSet(Prune(W, t))
               /\ Cardinality(Prune(W, t)) \in Nat
               /\ Cardinality(Prune(W, t)) <= N
    <2>1. Prune(W, t) \subseteq W
      BY DEF Prune
    <2>2. IsFiniteSet(Prune(W, t)) /\ Cardinality(Prune(W, t)) <= Cardinality(W)
      BY <1>2, <2>1, FS_Subset
    <2>3. Cardinality(Prune(W, t)) \in Nat
      BY <2>2, FS_CardinalityType
    <2> QED
      BY <1>1, <1>2, <1>3, <2>1, <2>2, <2>3
  <1> QED
    BY <1>2, <1>3, <1>4

\* decideFreeWindow keeps a list within N and its windows apart.
LEMMA NextWindowsFacts ==
    ASSUME NEW W \in MeterLists, Apart(W), NEW t \in 0..MaxTime
    PROVE  NextWindows(W, t) \in MeterLists /\ Apart(NextWindows(W, t))
  <1>0. MaxTime \in Nat /\ N \in Nat /\ Window \in Nat /\ Week \in Nat /\ Window <= Week
    BY KnobsAssumption
  <1>1. /\ Prune(W, t) \subseteq W /\ IsFiniteSet(Prune(W, t))
        /\ Cardinality(Prune(W, t)) \in Nat /\ Cardinality(Prune(W, t)) <= N
    BY ListFacts
  <1>2. W \subseteq 0..MaxTime
    BY DEF MeterLists
  <1>p. Prune(W, t) \subseteq Int /\ t \in Int
    <2>1. \A x \in 0..MaxTime : x \in Int
      BY <1>0
    <2> QED
      BY <2>1, <1>1, <1>2
  <1>3. CASE OpensWindow(W, t)
    <2>1. NextWindows(W, t) = Prune(W, t) \cup {t}
      BY <1>3 DEF NextWindows
    <2>2. Cardinality(Prune(W, t)) < N
      BY <1>0, <1>1, <1>3 DEF OpensWindow, Full
    <2>3. Cardinality(Prune(W, t) \cup {t}) <= N
      <3>1. \/ Cardinality(Prune(W, t) \cup {t}) = Cardinality(Prune(W, t))
            \/ Cardinality(Prune(W, t) \cup {t}) = Cardinality(Prune(W, t)) + 1
        BY <1>1, FS_AddElement
      <3> QED
        BY <1>0, <1>1, <2>2, <3>1
    <2>4. \A w \in Prune(W, t) : t - w >= Window
      <3> SUFFICES ASSUME NEW w \in Prune(W, t), t - w < Window PROVE FALSE
        BY <1>0, <1>p
      <3> QED
        BY <1>3 DEF OpensWindow, Inside
    <2>5. Apart(Prune(W, t) \cup {t})
      <3>1. SUFFICES ASSUME NEW v \in Prune(W, t) \cup {t}, NEW w \in Prune(W, t) \cup {t}, v < w
                     PROVE  w - v >= Window
        BY DEF Apart
      <3>2. CASE v \in W /\ w \in W
        BY <3>1, <3>2 DEF Apart
      <3>3. CASE w = t /\ v \in Prune(W, t)
        BY <2>4, <3>3
      <3>4. CASE v = t /\ w \in Prune(W, t)
        <4>1. t - w >= Window
          BY <2>4, <3>4
        <4> QED
          BY <1>0, <1>p, <3>1, <3>4, <4>1
      <3>5. CASE v = t /\ w = t
        BY <1>p, <3>1, <3>5
      <3> QED
        BY <1>1, <3>2, <3>3, <3>4, <3>5
    <2> QED
      BY <1>1, <1>2, <2>1, <2>3, <2>5 DEF MeterLists
  <1>4. CASE ~OpensWindow(W, t)
    <2>1. NextWindows(W, t) = Prune(W, t)
      BY <1>4 DEF NextWindows
    <2> QED
      BY <1>1, <1>2, <2>1 DEF MeterLists, Apart
  <1> QED
    BY <1>3, <1>4

\* No window has been opened yet.
LEMMA MeterInit == Init => MeterInv
  <1> SUFFICES ASSUME Init PROVE MeterInv
    OBVIOUS
  <1>1. {} \in MeterLists
    BY FS_EmptySet, KnobsAssumption DEF MeterLists
  <1>2. ListsKept
    BY <1>1, KnobsAssumption DEF Init, ListsKept, TypeOK, ListOK, Apart
  <1>3. WeeklyQuota
    <2>1. \A t : Lately(opened \ raced, t) = {}
      BY DEF Init, Lately
    <2> QED
      BY <2>1, FS_EmptySet, KnobsAssumption DEF WeeklyQuota
  <1>4. QuotaKept
    BY <1>3, KnobsAssumption DEF Init, QuotaKept, Remembers, Deciding
  <1> QED
    BY <1>2, <1>4 DEF MeterInv

\* Every step keeps the stored list, and those read, well formed.
LEMMA StepListsKept == ListsKept /\ [Next]_vars => ListsKept'
  <1> SUFFICES ASSUME ListsKept, [Next]_vars PROVE ListsKept'
    OBVIOUS
  <1> USE KnobsAssumption
  <1>e. {} \in MeterLists /\ ListOK({})'
    BY FS_EmptySet DEF MeterLists, ListOK, Apart
  <1>1. CASE Tick
    BY <1>1 DEF Tick, store, ghosts, ListsKept, TypeOK, ListOK, Apart
  <1>2. CASE Expire
    BY <1>2, <1>e DEF Expire, ghosts, ListsKept, TypeOK, ListOK, Apart
  <1>3. ASSUME NEW r \in Requests, Start(r) PROVE ListsKept'
    BY <1>3 DEF Start, store, ghosts, ListsKept, TypeOK, ListOK, Apart
  <1>4. ASSUME NEW r \in Requests, Get(r) PROVE ListsKept'
    BY <1>4 DEF Get, store, ghosts, ListsKept, TypeOK, ListOK, Apart
  <1>5. ASSUME NEW r \in Requests, Keep(r) PROVE ListsKept'
    BY <1>5, <1>e DEF Keep, Finish, store, ghosts, ListsKept, TypeOK, ListOK, Apart
  <1>6. ASSUME NEW r \in Requests, Abort(r) PROVE ListsKept'
    BY <1>6, <1>e DEF Abort, Finish, store, ghosts, ListsKept, TypeOK, ListOK, Apart
  <1>7. ASSUME NEW r \in Requests, Put(r) PROVE ListsKept'
    <2> DEFINE W == seen[r]  t == at[r]
    <2>1. W \in MeterLists /\ Apart(W) /\ W \subseteq opened /\ t \in 0..now /\ t \in 0..MaxTime
      BY DEF ListsKept, TypeOK, ListOK
    <2>2. NextWindows(W, t) \in MeterLists /\ Apart(NextWindows(W, t))
      BY <2>1, NextWindowsFacts
    <2>3. opened \subseteq opened' /\ opened' \in SUBSET (0..now)
      BY <1>7, <2>1 DEF Put, ListsKept, TypeOK
    <2>4. NextWindows(W, t) \subseteq opened'
      BY <1>7, <2>1 DEF Put, NextWindows, Prune
    <2>5. ListOK(windows)'
      BY <1>7, <2>2, <2>4 DEF Put, ListOK, Apart
    <2>6. \A q \in Requests : ListOK(seen[q])'
      BY <1>7, <1>e, <2>3 DEF Put, Finish, ListsKept, TypeOK, ListOK, Apart
    <2>7. raced' \subseteq opened'
      BY <1>7 DEF Put, ListsKept, TypeOK
    <2>8. TypeOK'
      BY <2>7, <1>7, <1>e, <2>2, <2>3 DEF Put, Finish, ListsKept, TypeOK
    <2> QED
      BY <2>5, <2>6, <2>8 DEF ListsKept
  <1>8. CASE UNCHANGED vars
    BY <1>8 DEF vars, ListsKept, TypeOK, ListOK, Apart
  <1> QED
    BY <1>1, <1>2, <1>3, <1>4, <1>5, <1>6, <1>7, <1>8 DEF Next, Serve

\* A set of windows none of which is later than now has a size.
LEMMA LatelyFinite ==
    ASSUME NEW n \in Nat, NEW S \in SUBSET (0..n), NEW t
    PROVE  IsFiniteSet(Lately(S, t)) /\ Cardinality(Lately(S, t)) \in Nat
  <1>1. IsFiniteSet(0..n)
    BY FS_Interval
  <1>2. Lately(S, t) \subseteq 0..n
    BY DEF Lately
  <1> QED
    BY <1>1, <1>2, FS_Subset, FS_CardinalityType

\* The quota stands as long as no week gains a window.
LEMMA QuotaStands ==
    ASSUME TypeOK, WeeklyQuota, NEW t \in Nat, NEW u \in 0..now, NEW S,
           Lately(S, t) \subseteq Lately(opened \ raced, u)
    PROVE  Cardinality(Lately(S, t)) <= N
  <1>0. now \in Nat /\ N \in Nat /\ opened \ raced \in SUBSET (0..now)
    BY KnobsAssumption DEF TypeOK
  <1>1. /\ IsFiniteSet(Lately(opened \ raced, u)) /\ Cardinality(Lately(opened \ raced, u)) \in Nat
        /\ Cardinality(Lately(opened \ raced, u)) <= N
    BY <1>0, LatelyFinite DEF WeeklyQuota
  <1>2. /\ IsFiniteSet(Lately(S, t))
        /\ Cardinality(Lately(S, t)) <= Cardinality(Lately(opened \ raced, u))
    BY <1>1, FS_Subset
  <1>3. Cardinality(Lately(S, t)) \in Nat
    BY <1>2, FS_CardinalityType
  <1> QED
    BY <1>0, <1>1, <1>2, <1>3

\* A call that ends without a write knows nothing, and the others know what they knew.
LEMMA FinishKeepsQuota ==
    ASSUME MeterInv, NEW r \in Requests, Finish(r), UNCHANGED <<now, windows, expiresAt, opened, raced>>
    PROVE  QuotaKept'
  <1>1. Deciding' \subseteq Deciding /\ \A q \in Requests : pc'[q] # "idle" => pc[q] # "idle" /\ at'[q] = at[q]
    BY DEF MeterInv, ListsKept, TypeOK, Finish, Deciding
  <1>2. \A q \in Deciding' : seen'[q] = seen[q]
    BY DEF MeterInv, ListsKept, TypeOK, Finish, Deciding
  <1>3. WeeklyQuota'
    BY DEF MeterInv, QuotaKept, WeeklyQuota, Lately
  <1> QED
    BY <1>1, <1>2, <1>3 DEF MeterInv, QuotaKept, Remembers

\* Whoever writes a list still knows of every window opened outside a race, and of its own.
LEMMA PutRemembers ==
    ASSUME MeterInv, NEW r \in Requests, Put(r)
    PROVE  Remembers(windows)' /\ \A q \in Deciding' : Remembers(seen[q])'
  <1>0. /\ now \in Nat /\ Week \in Nat /\ now' = now
        /\ at[r] \in 0..now /\ opened \in SUBSET (0..now) /\ raced \in SUBSET opened
        /\ \A q \in Deciding : Remembers(seen[q])
        /\ r \in Deciding
    BY KnobsAssumption DEF MeterInv, ListsKept, QuotaKept, TypeOK, Put, Deciding
  <1>1. \A w \in opened' \ raced' : w \in opened \ raced \/ (OpensWindow(seen[r], at[r]) /\ w = at[r])
    BY DEF Put
  <1>2. \A w \in opened' \ raced' : w \in windows' \/ now' - w >= Week
    <2> SUFFICES ASSUME NEW w \in opened' \ raced' PROVE w \in windows' \/ now' - w >= Week
      OBVIOUS
    <2>1. CASE w = at[r] /\ OpensWindow(seen[r], at[r])
      BY <2>1 DEF Put, NextWindows
    <2>2. CASE w \in opened \ raced
      <3>1. w \in seen[r] \/ now - w >= Week
        BY <1>0, <2>2 DEF Remembers
      <3>2. w \in Int /\ at[r] \in Int /\ at[r] <= now
        BY <1>0, <2>2
      <3>3. w \in Prune(seen[r], at[r]) \/ now - w >= Week
        BY <1>0, <3>1, <3>2 DEF Prune
      <3> QED
        BY <1>0, <3>3 DEF Put, NextWindows
    <2> QED
      BY <1>1, <2>1, <2>2
  <1>3. ASSUME NEW q \in Deciding'
        PROVE  \A w \in opened' \ raced' : w \in seen'[q] \/ now' - w >= Week
    <2>1. q \in Deciding \ {r} /\ seen'[q] = seen[q]
      BY <1>3 DEF MeterInv, ListsKept, TypeOK, Put, Finish, Deciding
    <2>2. opened' \ raced' \subseteq opened \ raced
      BY <2>1 DEF Put
    <2> QED
      BY <1>0, <2>1, <2>2 DEF Remembers
  <1> QED
    BY <1>2, <1>3 DEF Remembers

\* A week that holds the new window holds, besides it, only windows the writer knew of.
LEMMA PutKeepsWeek ==
    ASSUME MeterInv, NEW r \in Requests, Put(r), NEW t \in 0..now
    PROVE  Cardinality(Lately(opened' \ raced', t)) <= N
  <1> DEFINE x == at[r]  W == seen[r]
  <1>0. /\ now \in Nat /\ Week \in Nat /\ Latency \in Nat /\ N \in Nat
        /\ x \in 0..now /\ now - x <= Latency
        /\ opened \in SUBSET (0..now) /\ raced \in SUBSET opened
        /\ TypeOK /\ WeeklyQuota /\ Remembers(W)
    BY KnobsAssumption DEF MeterInv, ListsKept, QuotaKept, TypeOK, Put, Deciding
  <1>1. CASE OpensWindow(W, x) /\ x <= t /\ t - x < Week - Latency
    <2>1. Lately(opened' \ raced', t) \subseteq NextWindows(W, x)
      <3> SUFFICES ASSUME NEW w \in opened' \ raced', w <= t, t - w < Week - Latency
                   PROVE  w \in NextWindows(W, x)
        BY DEF Lately
      <3>1. CASE w = x
        BY <1>1, <3>1 DEF NextWindows
      <3>2. CASE w \in opened \ raced
        <4>1. w \in Int /\ x \in Int /\ t \in Int
          BY <1>0, <3>2
        <4>2. now - w < Week /\ x - w < Week
          BY <1>0, <1>1, <4>1
        <4>3. w \in W
          BY <1>0, <3>2, <4>1, <4>2 DEF Remembers
        <4> QED
          BY <4>2, <4>3 DEF NextWindows, Prune
      <3> QED
        BY <3>1, <3>2 DEF Put
    <2>2. NextWindows(W, x) \in MeterLists
      <3>1. W \in MeterLists /\ Apart(W) /\ x \in 0..MaxTime
        BY <1>0, KnobsAssumption DEF MeterInv, ListsKept, TypeOK, ListOK
      <3> QED
        BY <3>1, NextWindowsFacts
    <2>3. /\ IsFiniteSet(NextWindows(W, x)) /\ Cardinality(NextWindows(W, x)) \in Nat
          /\ Cardinality(NextWindows(W, x)) <= N
      BY <2>2, ListFacts DEF MeterLists
    <2>4. /\ IsFiniteSet(Lately(opened' \ raced', t))
          /\ Cardinality(Lately(opened' \ raced', t)) <= Cardinality(NextWindows(W, x))
      BY <2>1, <2>3, FS_Subset
    <2>5. Cardinality(Lately(opened' \ raced', t)) \in Nat
      BY <2>4, FS_CardinalityType
    <2> QED
      BY <1>0, <2>3, <2>4, <2>5
  <1>2. CASE ~(OpensWindow(W, x) /\ x <= t /\ t - x < Week - Latency)
    <2>1. Lately(opened' \ raced', t) \subseteq Lately(opened \ raced, t)
      BY <1>2 DEF Put, Lately
    <2>2. t \in Nat
      BY <1>0
    <2> QED
      BY <1>0, <2>1, <2>2, QuotaStands
  <1> QED
    BY <1>1, <1>2

\* Every step keeps the weekly quota and what the lists remember.
LEMMA StepQuotaKept == MeterInv /\ [Next]_vars => QuotaKept'
  <1> SUFFICES ASSUME MeterInv, [Next]_vars PROVE QuotaKept'
    OBVIOUS
  <1>0. /\ now \in Nat /\ Week \in Nat /\ Latency \in Nat /\ N \in Nat
        /\ opened \in SUBSET (0..now) /\ raced \in SUBSET opened
        /\ at \in [Requests -> 0..now] /\ TypeOK /\ WeeklyQuota
    BY KnobsAssumption DEF MeterInv, ListsKept, QuotaKept, TypeOK
  <1>1. CASE Tick
    <2>1. now' = now + 1 /\ UNCHANGED <<windows, expiresAt, pc, at, seen, opened, raced>>
      BY <1>1 DEF Tick, store, ghosts
    <2>2. \A w \in opened \ raced : now - w >= Week => now' - w >= Week
      <3>1. \A w \in opened \ raced : w \in Int
        BY <1>0
      <3> QED
        BY <1>0, <2>1, <3>1
    <2>3. Remembers(windows)' /\ \A r \in Deciding' : Remembers(seen[r])'
      BY <2>1, <2>2 DEF MeterInv, QuotaKept, Remembers, Deciding
    <2>4. \A r \in Requests : pc'[r] # "idle" => now' - at'[r] <= Latency
      <3>1. \A r \in Requests : at[r] \in Int
        BY <1>0
      <3> QED
        BY <1>0, <1>1, <2>1, <3>1 DEF Tick
    <2>5. ASSUME NEW t \in 0..now' PROVE Cardinality(Lately(opened \ raced, t)) <= N
      <3>1. \A w \in opened \ raced : w \in Int /\ w <= now
        BY <1>0
      <3>2. CASE t <= now
        BY <1>0, <2>1, <3>2 DEF WeeklyQuota
      <3>3. CASE t > now
        <4>1. t = now + 1 /\ t \in Nat /\ now \in 0..now
          BY <1>0, <2>1, <3>3
        <4>2. \A w \in opened \ raced : t - w < Week - Latency => now - w < Week - Latency
          BY <1>0, <3>1, <4>1
        <4>3. Lately(opened \ raced, t) \subseteq Lately(opened \ raced, now)
          BY <3>1, <4>2 DEF Lately
        <4> QED
          BY <1>0, <4>1, <4>3, QuotaStands
      <3> QED
        BY <1>0, <2>1, <3>2, <3>3
    <2>6. WeeklyQuota'
      BY <2>1, <2>5 DEF WeeklyQuota, Lately
    <2> QED
      BY <2>1, <2>3, <2>4, <2>6 DEF MeterInv, QuotaKept
  <1>2. CASE Expire
    <2>1. \A w \in windows : now - w >= Week
      <3>1. \A w \in windows : w \in Int /\ w + Week <= expiresAt /\ expiresAt \in Int
        BY <1>0 DEF MeterInv, ListsKept, ListOK, QuotaKept, TypeOK
      <3> QED
        BY <1>0, <1>2, <3>1 DEF Expire
    <2>2. WeeklyQuota'
      BY <1>0, <1>2 DEF Expire, ghosts, WeeklyQuota, Lately
    <2> QED
      BY <1>2, <2>1, <2>2 DEF Expire, ghosts, MeterInv, QuotaKept, Remembers, Deciding
  <1>3. ASSUME NEW r \in Requests, Start(r) PROVE QuotaKept'
    <2>1. /\ Deciding' \subseteq Deciding
          /\ \A q \in Requests : at'[q] = IF q = r THEN now ELSE at[q]
          /\ \A q \in Requests : pc'[q] # "idle" => q = r \/ pc[q] # "idle"
      BY <1>3 DEF Start, MeterInv, ListsKept, TypeOK, Deciding
    <2>2. \A q \in Requests : pc'[q] # "idle" => now' - at'[q] <= Latency
      BY <1>0, <1>3, <2>1 DEF Start, MeterInv, QuotaKept
    <2>3. WeeklyQuota'
      BY <1>0, <1>3 DEF Start, ghosts, WeeklyQuota, Lately
    <2> QED
      BY <1>3, <2>1, <2>2, <2>3 DEF Start, store, ghosts, MeterInv, QuotaKept, Remembers
  <1>4. ASSUME NEW r \in Requests, Get(r) PROVE QuotaKept'
    <2>1. \A q \in Deciding' : seen'[q] = windows \/ (q \in Deciding /\ seen'[q] = seen[q])
      BY <1>4 DEF Get, MeterInv, ListsKept, TypeOK, Deciding
    <2>2. \A q \in Requests : pc'[q] # "idle" => pc[q] # "idle"
      BY <1>4 DEF Get, MeterInv, ListsKept, TypeOK
    <2>3. WeeklyQuota'
      BY <1>0, <1>4 DEF Get, ghosts, WeeklyQuota, Lately
    <2> QED
      BY <1>4, <2>1, <2>2, <2>3 DEF Get, store, ghosts, MeterInv, QuotaKept, Remembers
  <1>5. ASSUME NEW r \in Requests, Keep(r) PROVE QuotaKept'
    BY <1>5, FinishKeepsQuota DEF Keep, store, ghosts
  <1>6. ASSUME NEW r \in Requests, Abort(r) PROVE QuotaKept'
    BY <1>6, FinishKeepsQuota DEF Abort, store, ghosts
  <1>7. ASSUME NEW r \in Requests, Put(r) PROVE QuotaKept'
    <2>1. \A w \in windows' : w + Week <= expiresAt'
      <3>1. \A w \in windows' : w \in Int /\ w <= now
        <4>1. windows' \subseteq seen[r] \cup {at[r]} /\ seen[r] \subseteq opened
          BY <1>7 DEF Put, NextWindows, Prune, MeterInv, ListsKept, ListOK
        <4>2. \A w \in 0..now : w \in Int /\ w <= now
          BY <1>0
        <4>3. seen[r] \cup {at[r]} \subseteq 0..now
          BY <1>0, <4>1
        <4> QED
          BY <4>1, <4>2, <4>3
      <3> QED
        BY <1>0, <1>7, <3>1 DEF Put
    <2>2. \A q \in Requests : pc'[q] # "idle" => now' - at'[q] <= Latency
      BY <1>7 DEF Put, Finish, MeterInv, ListsKept, QuotaKept, TypeOK
    <2>3. WeeklyQuota'
      <3>1. \A t \in 0..now : Cardinality(Lately(opened' \ raced', t)) <= N
        BY <1>7, PutKeepsWeek
      <3> QED
        BY <1>7, <3>1 DEF Put, WeeklyQuota, Lately
    <2> QED
      BY <1>7, <2>1, <2>2, <2>3, PutRemembers DEF QuotaKept
  <1>8. CASE UNCHANGED vars
    <2>1. WeeklyQuota'
      BY <1>0, <1>8 DEF vars, WeeklyQuota, Lately
    <2> QED
      BY <1>8, <2>1 DEF vars, MeterInv, QuotaKept, Remembers, Deciding
  <1> QED
    BY <1>1, <1>2, <1>3, <1>4, <1>5, <1>6, <1>7, <1>8 DEF Next, Serve

\* Every step keeps the invariant.
LEMMA MeterStep == MeterInv /\ [Next]_vars => MeterInv'
  BY StepListsKept, StepQuotaKept DEF MeterInv

\* The invariant of the free-tier meter.
LEMMA MeterInvHolds == Spec => []MeterInv
  BY MeterInit, MeterStep, PTL DEF Spec

\* The type invariant, the cap of N on every stored list included.
THEOREM MeterTypes == Spec => []TypeOK
  <1>1. MeterInv => TypeOK
    BY DEF MeterInv, ListsKept
  <1> QED
    BY <1>1, MeterInvHolds, PTL

\* No window is charged twice, however many requests race.
THEOREM ChargedOnce == Spec => []StoredWindowsApart
  <1>1. MeterInv => StoredWindowsApart
    BY DEF MeterInv, ListsKept, ListOK, StoredWindowsApart
  <1> QED
    BY <1>1, MeterInvHolds, PTL

\* Over-counting is impossible, for every N and any number of racing requests.
THEOREM RefusalsAreJustified == Spec => []RefusalsJustified
  <1>1. MeterInv => RefusalsJustified
    <2> SUFFICES ASSUME MeterInv, NEW r \in Requests, ~Allowed(seen[r], at[r])
                 PROVE  Cardinality({w \in opened : at[r] - w < Week}) >= N
      BY DEF RefusalsJustified
    <2> DEFINE P == Prune(seen[r], at[r])
               Q == {w \in opened : at[r] - w < Week}
    <2>1. seen[r] \in MeterLists /\ seen[r] \subseteq opened
      BY DEF MeterInv, ListsKept, TypeOK, ListOK
    <2>2. Cardinality(P) >= N
      BY DEF Allowed, Full
    <2>3. P \subseteq Q
      BY <2>1 DEF Prune
    <2>4. IsFiniteSet(Q)
      <3>0. opened \subseteq 0..now /\ now \in Nat
        BY KnobsAssumption DEF MeterInv, ListsKept, TypeOK
      <3>1. Q \subseteq 0..now
        BY <3>0
      <3>2. IsFiniteSet(0..now)
        BY <3>0, FS_Interval
      <3> QED
        BY <3>1, <3>2, FS_Subset
    <2>5. Cardinality(P) <= Cardinality(Q) /\ IsFiniteSet(P)
      <3> HIDE DEF P, Q
      <3> QED
        BY <2>3, <2>4, FS_Subset
    <2>6. Cardinality(P) \in Nat /\ Cardinality(Q) \in Nat /\ N \in Nat
      BY <2>4, <2>5, FS_CardinalityType, KnobsAssumption
    <2> QED
      BY <2>2, <2>5, <2>6
  <1> QED
    BY <1>1, MeterInvHolds, PTL

\* No week holds more than N windows opened outside a race, for every N and any number of
\* racing requests.
THEOREM QuotaHoldsOutsideRaces == Spec => []WeeklyQuota
  <1>1. MeterInv => WeeklyQuota
    BY DEF MeterInv, QuotaKept
  <1> QED
    BY <1>1, MeterInvHolds, PTL

-----------------------------------------------------------------------------
(***************************************************************************)
(* The vault: what holds of every user whose operations did not overlap,   *)
(* for any number of users, networks and Worker invocations, and what a    *)
(* finished rotation guarantees                                            *)
(***************************************************************************)
\* What user u's records and the operations on u look like as long as no two
\* of them overlapped.
Alone(u) == \A s, t \in Slots : worker[s].user = u /\ worker[t].user = u => s = t

Readable(u) ==
    \A n \in Networks : blobs[u][n] # NoData => keys[u] # NoKey /\ keys[u].data = blobs[u][n]

MintingOK(u) ==
    \A s \in Slots : worker[s].user = u /\ worker[s].op = "minting" => keys[u] = NoKey

StoringOK(u) ==
    \A s \in Slots : worker[s].user = u /\ worker[s].op = "storing" =>
        keys[u] # NoKey /\ keys[u].data = worker[s].data

DeletingOK(u) ==
    \A s \in Slots : worker[s].user = u /\ worker[s].op = "deleting" =>
        \A n \in Networks : blobs[u][n] # NoData => n \in worker[s].todo

RewrapOK(u) ==
    rotation.user = u =>
        /\ keys[u] # NoKey
        /\ keys[u].data = rotation.read.data
        /\ \A s \in Slots : worker[s].user = u => worker[s].op # "deleting"

GoneOK(u) ==
    u \in gone =>
        /\ keys[u] = NoKey
        /\ \A n \in Networks : blobs[u][n] = NoData
        /\ \A s \in Slots : worker[s].user # u

UserOK(u) ==
    Alone(u) /\ Readable(u) /\ MintingOK(u) /\ StoringOK(u) /\ DeletingOK(u) /\ RewrapOK(u) /\ GoneOK(u)

UsersOK == \A u \in Users \ overlapped : UserOK(u)

\* What a walk that no old Worker overlapped has left to do.
NoOldWorker == deployed = New /\ \A s \in Slots : worker[s].version # Old

SweepOK ==
    /\ rotation.clean => NoOldWorker
    /\ rotation.clean => \A u \in Users :
           keys[u].version = Old => u \in rotation.todo \/ rotation.user = u
    /\ swept => NoOldWorker /\ \A u \in Users : keys[u].version # Old

VaultInv == VaultTypeOK /\ UsersOK /\ SweepOK

\* Nothing is stored and no Worker runs.
LEMMA VaultStarts == VaultInit => VaultInv
<1> SUFFICES ASSUME VaultInit PROVE VaultInv
  OBVIOUS
<1> USE BoundsAssumption, UsersAssumption DEF VaultInit, Idle, NoWalk, NoKey, NoData, Old, New
<1>1. VaultTypeOK
  <2>1. keys \in [Users -> StoredKeys \cup {NoKey}] /\ minted \in 0..MaxKeys
    OBVIOUS
  <2>2. blobs \in [Users -> [Networks -> 0..MaxKeys]]
    OBVIOUS
  <2>3. worker \in [Slots -> {Idle} \cup Puts \cup Deletions]
    OBVIOUS
  <2> QED
    BY <2>1, <2>2, <2>3 DEF VaultTypeOK
<1>2. UsersOK
  BY DEF UsersOK, UserOK, Alone, Readable, MintingOK, StoringOK, DeletingOK, RewrapOK, GoneOK
<1>3. SweepOK
  BY DEF SweepOK, NoOldWorker
<1> QED
  BY <1>1, <1>2, <1>3 DEF VaultInv

\* A walk that skips a key is still a walk.
LEMMA SkipInWalks ==
    ASSUME NEW w \in Walks, NEW u
    PROVE  [w EXCEPT !.todo = @ \ {u}, !.skipped = @ + 1] \in Walks
<1>1. w.skipped + 1 \in Nat
  BY DEF Walks
<1>2. w.todo \ {u} \in SUBSET Users
  BY DEF Walks
<1> QED
  BY <1>1, <1>2 DEF Walks

\* Every step keeps the types.
LEMMA StepVaultTypes == VaultTypeOK /\ [VaultNext]_vaultVars => VaultTypeOK'
<1> SUFFICES ASSUME VaultTypeOK, [VaultNext]_vaultVars PROVE VaultTypeOK'
  OBVIOUS
<1> USE BoundsAssumption DEF VaultTypeOK, StoredKeys, Puts, Deletions, Walks, Rewraps, finished,
                             history, Idle, NoWalk, NoKey, NoData, Old, New
<1>1. ASSUME NEW s \in Slots, NEW u \in Users, NEW n \in Networks, GenerateKey(s, u, n) PROVE VaultTypeOK'
  BY <1>1 DEF GenerateKey, Begin
<1>2. ASSUME NEW s \in Slots, NEW u \in Users, NEW n \in Networks, UnwrapKey(s, u, n) PROVE VaultTypeOK'
  BY <1>2 DEF UnwrapKey, Begin
<1>3. ASSUME NEW s \in Slots, NEW u \in Users, ListUser(s, u) PROVE VaultTypeOK'
  BY <1>3 DEF ListUser, Begin, Connected
<1>4. ASSUME NEW u \in Users, NEW n \in Networks, DeleteCredential(u, n) PROVE VaultTypeOK'
  BY <1>4 DEF DeleteCredential
<1>5. ASSUME NEW s \in Slots, StoreKey(s) PROVE VaultTypeOK'
  <2>1. worker[s] \in Puts
    BY <1>5 DEF StoreKey
  <2>2. [worker[s] EXCEPT !.op = "storing"] \in Puts
    BY <2>1
  <2>3. [data |-> worker[s].data, version |-> worker[s].version] \in StoredKeys
    BY <2>1
  <2>4. worker' \in [Slots -> {Idle} \cup Puts \cup Deletions]
    BY <1>5, <2>2 DEF StoreKey
  <2>5. keys' \in [Users -> StoredKeys \cup {NoKey}]
    BY <1>5, <2>1, <2>3 DEF StoreKey
  <2> QED
    BY <1>5, <2>4, <2>5 DEF StoreKey
<1>6. ASSUME NEW s \in Slots, StoreBlob(s) PROVE VaultTypeOK'
  BY <1>6 DEF StoreBlob
<1>7. ASSUME NEW s \in Slots, DeleteBlob(s) PROVE VaultTypeOK'
  <2>1. PICK n \in worker[s].todo :
             /\ blobs' = [blobs EXCEPT ![worker[s].user][n] = NoData]
             /\ worker' = [worker EXCEPT ![s].todo = @ \ {n}]
    BY <1>7 DEF DeleteBlob
  <2>2. worker[s] \in Deletions
    BY <1>7 DEF DeleteBlob
  <2>3. [worker[s] EXCEPT !.todo = @ \ {n}] \in Deletions
    BY <2>2
  <2> DEFINE W == {Idle} \cup Puts \cup Deletions
             w == [worker[s] EXCEPT !.todo = @ \ {n}]
  <2>4. worker' \in [Slots -> W]
    <3>1. worker' = [worker EXCEPT ![s] = w] /\ w \in W /\ worker \in [Slots -> W]
      BY <2>1, <2>3
    <3> HIDE DEF W, w
    <3> QED
      BY <3>1
  <2>5. blobs' \in [Users -> [Networks -> 0..MaxKeys]]
    BY <2>1, <2>2
  <2> QED
    BY <1>7, <2>4, <2>5 DEF DeleteBlob
<1>8. ASSUME NEW s \in Slots, DeleteKey(s) PROVE VaultTypeOK'
  BY <1>8 DEF DeleteKey
<1>9. ASSUME NEW s \in Slots, Interrupt(s) PROVE VaultTypeOK'
  BY <1>9 DEF Interrupt
<1>10. ASSUME NEW u \in Users, ReadKey(u) PROVE VaultTypeOK'
  <2>1. rotation \in Walks
    BY <1>10 DEF ReadKey
  <2>2. [rotation EXCEPT !.todo = @ \ {u}] \in Walks
    BY <2>1
  <2>3. [rotation EXCEPT !.todo = @ \ {u}, !.skipped = @ + 1] \in Walks
    BY <2>1, SkipInWalks
  <2>4. ASSUME keys[u] # NoKey
        PROVE  [rotation EXCEPT !.op = "rewrapping", !.todo = @ \ {u}, !.user = u,
                                !.read = keys[u]] \in Rewraps
    <3>1. keys[u] \in StoredKeys
      BY <2>4
    <3> QED
      BY <2>1, <3>1
  <2>5. rotation' \in Walks \cup Rewraps
    BY <1>10, <2>2, <2>3, <2>4 DEF ReadKey
  <2>6. overlapped' \subseteq Users
    BY <1>10 DEF ReadKey
  <2> QED
    BY <1>10, <2>5, <2>6 DEF ReadKey
<1>11. CASE Deploy
  BY <1>11 DEF Deploy
<1>12. CASE ListKeys
  <2> DEFINE todo == {u \in Users : keys[u] # NoKey}
             clean == \A s \in Slots : worker[s].version # Old
  <2>1. clean \in BOOLEAN
    OBVIOUS
  <2>2. rotation' = [op |-> "walking", todo |-> todo, user |-> NoUser, read |-> NoKey,
                     skipped |-> 0, clean |-> clean]
    BY <1>12 DEF ListKeys
  <2>3. rotation' \in Walks
    <3> HIDE DEF clean
    <3> QED
      BY <2>1, <2>2
  <2> QED
    BY <1>12, <2>3 DEF ListKeys
<1>13. CASE WriteKey
  <2>1. rotation \in Rewraps
    BY <1>13 DEF WriteKey
  <2>2. [rotation EXCEPT !.op = "walking", !.user = NoUser, !.read = NoKey] \in Walks
    BY <2>1
  <2>3. [data |-> rotation.read.data, version |-> New] \in StoredKeys
    BY <2>1
  <2>4. keys' \in [Users -> StoredKeys \cup {NoKey}]
    BY <1>13, <2>1, <2>3 DEF WriteKey
  <2> QED
    BY <1>13, <2>2, <2>4 DEF WriteKey
<1>14. CASE EndWalk
  <2>1. rotation \in Walks
    BY <1>14 DEF EndWalk
  <2> QED
    BY <1>14, <2>1 DEF EndWalk
<1>15. CASE InterruptWalk
  BY <1>15 DEF InterruptWalk
<1>16. CASE UNCHANGED vaultVars
  BY <1>16 DEF vaultVars
<1> QED
  BY <1>1, <1>2, <1>3, <1>4, <1>5, <1>6, <1>7,
     <1>8, <1>9, <1>10, <1>11, <1>12, <1>13, <1>14, <1>15, <1>16
     DEF VaultNext, Store, Work, Rotate

\* Every step keeps what a clean walk has left to do.
LEMMA StepSweepOK == VaultTypeOK /\ VaultTypeOK' /\ SweepOK /\ [VaultNext]_vaultVars => SweepOK'
<1> SUFFICES ASSUME VaultTypeOK, VaultTypeOK', SweepOK, [VaultNext]_vaultVars PROVE SweepOK'
  OBVIOUS
<1> USE UsersAssumption DEF VaultTypeOK, StoredKeys, Puts, Deletions, Walks, Rewraps, finished,
                            history, Idle, NoWalk, NoKey, NoData, Old, New, SweepOK, NoOldWorker
<1>1. ASSUME NEW s \in Slots, NEW u \in Users, NEW n \in Networks, GenerateKey(s, u, n) PROVE SweepOK'
  BY <1>1 DEF GenerateKey, Begin
<1>2. ASSUME NEW s \in Slots, NEW u \in Users, NEW n \in Networks, UnwrapKey(s, u, n) PROVE SweepOK'
  BY <1>2 DEF UnwrapKey, Begin
<1>3. ASSUME NEW s \in Slots, NEW u \in Users, ListUser(s, u) PROVE SweepOK'
  BY <1>3 DEF ListUser, Begin, Connected
<1>4. ASSUME NEW u \in Users, NEW n \in Networks, DeleteCredential(u, n) PROVE SweepOK'
  BY <1>4 DEF DeleteCredential
<1>5. ASSUME NEW s \in Slots, StoreKey(s) PROVE SweepOK'
  BY <1>5 DEF StoreKey
<1>6. ASSUME NEW s \in Slots, StoreBlob(s) PROVE SweepOK'
  BY <1>6 DEF StoreBlob
<1>7. ASSUME NEW s \in Slots, DeleteBlob(s) PROVE SweepOK'
  BY <1>7 DEF DeleteBlob
<1>8. ASSUME NEW s \in Slots, DeleteKey(s) PROVE SweepOK'
  BY <1>8 DEF DeleteKey
<1>9. ASSUME NEW s \in Slots, Interrupt(s) PROVE SweepOK'
  BY <1>9 DEF Interrupt
<1>10. ASSUME NEW u \in Users, ReadKey(u) PROVE SweepOK'
  BY <1>10 DEF ReadKey, NeedsRotation
<1>11. CASE Deploy
  BY <1>11 DEF Deploy
<1>12. CASE ListKeys
  <2> DEFINE clean == \A s \in Slots : worker[s].version # Old
  <2>1. rotation'.todo = {u \in Users : keys[u] # NoKey}
    BY <1>12 DEF ListKeys
  <2>2. rotation' = [op |-> "walking", todo |-> rotation'.todo, user |-> NoUser, read |-> NoKey,
                     skipped |-> 0, clean |-> clean]
    BY <1>12, <2>1 DEF ListKeys
  <2>3. rotation'.clean => clean
    <3> HIDE DEF clean
    <3> QED
      BY <2>2
  <2>4. deployed' = New /\ worker' = worker /\ keys' = keys /\ swept' = swept
    BY <1>12 DEF ListKeys
  <2> QED
    BY <2>1, <2>3, <2>4
<1>13. CASE WriteKey
  BY <1>13 DEF WriteKey
<1>14. CASE EndWalk
  BY <1>14 DEF EndWalk
<1>15. CASE InterruptWalk
  BY <1>15 DEF InterruptWalk
<1>16. CASE UNCHANGED vaultVars
  BY <1>16 DEF vaultVars
<1> QED
  BY <1>1, <1>2, <1>3, <1>4, <1>5, <1>6, <1>7,
     <1>8, <1>9, <1>10, <1>11, <1>12, <1>13, <1>14, <1>15, <1>16
     DEF VaultNext, Store, Work, Rotate

\* Overlaps are never forgotten.
LEMMA OverlappedGrows == [VaultNext]_vaultVars => overlapped \subseteq overlapped'
  BY DEF VaultNext, Store, Work, Rotate, GenerateKey, UnwrapKey, ListUser, Begin, DeleteCredential,
         StoreKey, StoreBlob, DeleteBlob, DeleteKey, Interrupt, ReadKey, Deploy, ListKeys,
         WriteKey, EndWalk, InterruptWalk, vaultVars, history

\* Every step keeps the records and operations of a user in order, unless it makes
\* two operations on this user overlap.
LEMMA StepUserOK ==
    ASSUME VaultTypeOK, VaultTypeOK', [VaultNext]_vaultVars,
           NEW v \in Users, v \notin overlapped', UserOK(v)
    PROVE  UserOK(v)'
<1> USE UsersAssumption DEF finished, history, Idle, NoWalk, NoKey, NoData, UserOK,
    Alone, Readable, MintingOK, StoringOK, DeletingOK, RewrapOK, GoneOK
<1> USE DEF VaultTypeOK, StoredKeys, Puts, Deletions, Walks, Rewraps, Old, New
<1>1. ASSUME NEW s \in Slots, NEW u \in Users, NEW n \in Networks, GenerateKey(s, u, n) PROVE UserOK(v)'
  BY <1>1 DEF GenerateKey, Begin, Busy
<1>2. ASSUME NEW s \in Slots, NEW u \in Users, NEW n \in Networks, UnwrapKey(s, u, n) PROVE UserOK(v)'
  BY <1>2 DEF UnwrapKey, Begin, Busy
<1>3. ASSUME NEW s \in Slots, NEW u \in Users, ListUser(s, u) PROVE UserOK(v)'
  BY <1>3 DEF ListUser, Begin, Busy, Connected
<1>4. ASSUME NEW u \in Users, NEW n \in Networks, DeleteCredential(u, n) PROVE UserOK(v)'
  BY <1>4 DEF DeleteCredential
<1>5. ASSUME NEW s \in Slots, StoreKey(s) PROVE UserOK(v)'
  BY <1>5 DEF StoreKey
<1>6. ASSUME NEW s \in Slots, StoreBlob(s) PROVE UserOK(v)'
  BY <1>6 DEF StoreBlob
<1>7. ASSUME NEW s \in Slots, DeleteBlob(s) PROVE UserOK(v)'
  <2>1. PICK n \in worker[s].todo :
             /\ blobs' = [blobs EXCEPT ![worker[s].user][n] = NoData]
             /\ worker' = [worker EXCEPT ![s].todo = @ \ {n}]
    BY <1>7 DEF DeleteBlob
  <2>2. keys' = keys /\ rotation' = rotation /\ gone' = gone /\ worker[s].op = "deleting"
    BY <1>7 DEF DeleteBlob
  <2>3. \A t \in Slots : /\ worker'[t].user = worker[t].user
                         /\ worker'[t].op = worker[t].op
                         /\ worker'[t].op # "deleting" => worker'[t].data = worker[t].data
    BY <2>1, <2>2
  <2>4. \A m \in Networks : blobs'[v][m] # NoData => blobs[v][m] # NoData /\ blobs'[v][m] = blobs[v][m]
    <3>1. blobs \in [Users -> [Networks -> 0 .. MaxKeys]]
      OBVIOUS
    <3> HIDE DEF VaultTypeOK, StoredKeys, Puts, Deletions, Walks, Rewraps
    <3> QED
      BY <2>1, <3>1
  <2>5. \A t \in Slots : worker'[t].todo = IF t = s THEN worker[t].todo \ {n} ELSE worker[t].todo
    <3>1. worker[s] \in Deletions /\ worker \in [Slots -> {Idle} \cup Puts \cup Deletions]
      BY <2>2
    <3>2. [worker[s] EXCEPT !.todo = @ \ {n}].todo = worker[s].todo \ {n}
      BY <3>1
    <3> HIDE DEF VaultTypeOK, StoredKeys, Puts, Deletions, Walks, Rewraps
    <3> QED
      BY <2>1, <3>1, <3>2
  <2>6. worker[s].user = v => blobs'[v][n] = NoData
    BY <2>1
  <2> HIDE DEF VaultTypeOK, StoredKeys, Puts, Deletions, Walks, Rewraps
  <2>7. DeletingOK(v)'
    <3> SUFFICES ASSUME NEW t \in Slots, worker'[t].user = v, worker'[t].op = "deleting",
                        NEW m \in Networks, blobs'[v][m] # NoData
                 PROVE  m \in worker'[t].todo
      OBVIOUS
    <3>1. m \in worker[t].todo
      BY <2>3, <2>4
    <3>2. CASE t = s
      <4>1. m # n
        BY <2>3, <2>6, <3>2
      <4> QED
        BY <2>5, <3>1, <3>2, <4>1
    <3>3. CASE t # s
      BY <2>5, <3>1, <3>3
    <3> QED
      BY <3>2, <3>3
  <2>8. Alone(v)' /\ Readable(v)' /\ MintingOK(v)' /\ StoringOK(v)'
    BY <2>2, <2>3, <2>4
  <2>9. RewrapOK(v)' /\ GoneOK(v)'
    BY <2>2, <2>3, <2>4
  <2> QED
    BY <2>7, <2>8, <2>9
<1>8. ASSUME NEW s \in Slots, DeleteKey(s) PROVE UserOK(v)'
  BY <1>8 DEF DeleteKey
<1>9. ASSUME NEW s \in Slots, Interrupt(s) PROVE UserOK(v)'
  BY <1>9 DEF Interrupt
<1>10. ASSUME NEW u \in Users, ReadKey(u) PROVE UserOK(v)'
  BY <1>10 DEF ReadKey, NeedsRotation, Deleting, Busy
<1>11. CASE Deploy
  BY <1>11 DEF Deploy
<1>12. CASE ListKeys
  <2>1. rotation'.user = NoUser
    <3> DEFINE todo == {u \in Users : keys[u] # NoKey}
               clean == \A s \in Slots : worker[s].version # Old
    <3>1. rotation' = [NoWalk EXCEPT !.op = "walking", !.todo = todo, !.clean = clean]
      BY <1>12 DEF ListKeys
    <3> HIDE DEF todo, clean
    <3> QED
      BY <3>1
  <2>2. keys' = keys /\ blobs' = blobs /\ worker' = worker /\ gone' = gone
    BY <1>12 DEF ListKeys
  <2> QED
    BY <2>1, <2>2
<1>13. CASE WriteKey
  BY <1>13 DEF WriteKey
<1>14. CASE EndWalk
  BY <1>14 DEF EndWalk
<1>15. CASE InterruptWalk
  BY <1>15 DEF InterruptWalk
<1>16. CASE UNCHANGED vaultVars
  BY <1>16 DEF vaultVars
<1> QED
  BY <1>1, <1>2, <1>3, <1>4, <1>5, <1>6, <1>7,
     <1>8, <1>9, <1>10, <1>11, <1>12, <1>13, <1>14, <1>15, <1>16
     DEF VaultNext, Store, Work, Rotate

\* The invariant of the credential vault.
LEMMA VaultInvHolds == VaultSpec => []VaultInv
<1>1. VaultInv /\ [VaultNext]_vaultVars => VaultInv'
  <2> SUFFICES ASSUME VaultInv, [VaultNext]_vaultVars PROVE VaultInv'
    OBVIOUS
  <2>1. VaultTypeOK'
    BY StepVaultTypes DEF VaultInv
  <2>2. SweepOK'
    BY <2>1, StepSweepOK DEF VaultInv
  <2>3. UsersOK'
    <3> SUFFICES ASSUME NEW v \in Users, v \notin overlapped' PROVE UserOK(v)'
      BY DEF UsersOK
    <3>1. UserOK(v)
      BY OverlappedGrows DEF VaultInv, UsersOK
    <3> QED
      BY <2>1, <3>1, StepUserOK DEF VaultInv
  <2> QED
    BY <2>1, <2>2, <2>3 DEF VaultInv
<1> QED
  BY <1>1, VaultStarts, PTL DEF VaultSpec

-----------------------------------------------------------------------------
(***************************************************************************)
(* The theorems                                                            *)
(***************************************************************************)
\* Every variable has its type.
THEOREM VaultTypes == VaultSpec => []VaultTypeOK
<1>1. VaultInv => VaultTypeOK
  BY DEF VaultInv
<1> QED
  BY <1>1, VaultInvHolds, PTL

\* Sequential stores are a sufficient control: rotation and interrupted deletions
\* never make a stored credential unreadable by themselves.
THEOREM SequentialStoresSuffice == VaultSpec => []SequentialIsReadable
<1>1. VaultInv => SequentialIsReadable
  <2> SUFFICES ASSUME VaultInv, NEW u \in Users, u \notin overlapped, NEW n \in Networks,
                      blobs[u][n] # NoData
               PROVE  GetCredentials(u, n, keys[u].version) = "ok"
    BY DEF SequentialIsReadable, Connected
  <2>1. keys[u] # NoKey /\ keys[u].data = blobs[u][n]
    BY DEF VaultInv, UsersOK, UserOK, Readable
  <2> QED
    BY <2>1 DEF GetCredentials
<1> QED
  BY <1>1, VaultInvHolds, PTL

\* A finished deletion leaves nothing, however often an earlier one was cut short.
THEOREM DeletionLeavesNothing == VaultSpec => []NothingLeft
<1>1. VaultInv => NothingLeft
  BY DEF VaultInv, UsersOK, UserOK, GoneOK, NothingLeft, VaultTypeOK, Connected
<1> QED
  BY <1>1, VaultInvHolds, PTL

\* One walk that no old Worker overlapped is enough to retire the old secret.
THEOREM OldSecretCanGo == VaultSpec => []NoOldKeyLeft
<1>1. VaultInv => NoOldKeyLeft
  BY DEF VaultInv, SweepOK, NoOldKeyLeft
<1> QED
  BY <1>1, VaultInvHolds, PTL
=============================================================================
