---------------------------- MODULE SharedProofs ----------------------------
(***************************************************************************)
(* Proofs about three parts of src/shared: the circuit breaker, the        *)
(* opt-in telemetry with its backend, and the update check.                *)
(*                                                                         *)
(* The three share no variable.  Their own initial states, next-state      *)
(* relations and type invariants have names that tell them apart.          *)
(***************************************************************************)
EXTENDS Resilience, Telemetry, UpdateCheck, FiniteSetTheorems, WellFoundedInduction, TLAPS

-----------------------------------------------------------------------------
(***************************************************************************)
(* The circuit breaker: any number of overlapping calls, retry count,      *)
(* threshold and cooldown                                                  *)
(***************************************************************************)
\* Once the circuit has tripped, what the counter still can gain is one for
\* each call in flight, and the call that tripped it no longer is.
InFlightBudget ==
    failures >= Threshold =>
        failures + Cardinality(InFlight) <= Threshold + Cardinality(Calls) - 1

\* A call sleeps only when the loop has an attempt left for it.
RetryBudget == \A c \in Calls : pc[c] = "sleeping" => attempt[c] < MaxAttempts

\* A call in flight has begun its first attempt.
AttemptsCounted == \A c \in InFlight : attempt[c] >= 1

\* The attempts that the calls in flight have left, as pairs of a call and a number.
AttemptsLeft == {p \in InFlight \X (1 .. MaxAttempts) : p[2] > attempt[p[1]]}

\* While the circuit is open, what has leaked and what still can is at most the
\* retries of all calls but the one that tripped it.
LeakBudget ==
    IF IsOpen THEN leaked + Cardinality(AttemptsLeft) <= (Cardinality(Calls) - 1) * Retries
    ELSE leaked = 0

BreakerInv ==
    TypeOK /\ RetryBudget /\ OpenIffTripped /\ InFlightBudget /\ AttemptsCounted /\ LeakBudget

\* Calls in flight are finitely many, at most all of them.
LEMMA InFlightFinite ==
    /\ IsFiniteSet(InFlight)
    /\ Cardinality(InFlight) \in Nat
    /\ Cardinality(Calls) \in Nat
    /\ Cardinality(InFlight) <= Cardinality(Calls)
<1>1. InFlight \subseteq Calls
  BY DEF InFlight
<1>2. QED
  BY <1>1, CallsAssumption, FS_Subset, FS_CardinalityType

\* The breaker starts closed, with no call in flight.
LEMMA BreakerInit == Init => BreakerInv
<1> SUFFICES ASSUME Init PROVE BreakerInv
  OBVIOUS
<1>1. TypeOK
  BY ConfigAssumption DEF Init, TypeOK, Null, MaxAttempts
<1>2. OpenIffTripped
  BY ConfigAssumption DEF Init, OpenIffTripped, IsOpen, Null
<1>3. InFlightBudget
  BY ConfigAssumption DEF Init, InFlightBudget
<1>4. RetryBudget
  BY DEF Init, RetryBudget
<1>5. AttemptsCounted /\ LeakBudget
  BY DEF Init, AttemptsCounted, LeakBudget, InFlight, IsOpen
<1> QED
  BY <1>1, <1>2, <1>3, <1>4, <1>5 DEF BreakerInv

\* Every step keeps the types and the retry budget.
LEMMA StepBreakerTypes == TypeOK /\ RetryBudget /\ [Next]_vars => TypeOK' /\ RetryBudget'
<1> SUFFICES ASSUME TypeOK, RetryBudget, [Next]_vars PROVE TypeOK' /\ RetryBudget'
  OBVIOUS
<1> USE ConfigAssumption DEF TypeOK, RetryBudget, Null, MaxAttempts, breaker
<1>1. ASSUME NEW c \in Calls, FailFast(c) PROVE TypeOK' /\ RetryBudget'
  BY <1>1 DEF FailFast
<1>2. ASSUME NEW c \in Calls, Enter(c) PROVE TypeOK' /\ RetryBudget'
  BY <1>2 DEF Enter, StartAttempt
<1>3. ASSUME NEW c \in Calls, HalfOpen(c) PROVE TypeOK' /\ RetryBudget'
  BY <1>3 DEF HalfOpen, StartAttempt
<1>4. ASSUME NEW c \in Calls, Succeed(c) PROVE TypeOK' /\ RetryBudget'
  BY <1>4 DEF Succeed, Return
<1>5. ASSUME NEW c \in Calls, BackOff(c) PROVE TypeOK' /\ RetryBudget'
  BY <1>5 DEF BackOff, ShouldRetry
<1>6. ASSUME NEW c \in Calls, GiveUp(c) PROVE TypeOK' /\ RetryBudget'
  BY <1>6 DEF GiveUp, Return
<1>7. ASSUME NEW c \in Calls, Retry(c) PROVE TypeOK' /\ RetryBudget'
  BY <1>7 DEF Retry
<1>8. CASE Tick
  BY <1>8 DEF Tick, IsOpen
<1>9. CASE UNCHANGED vars
  BY <1>9 DEF vars
<1> QED
  BY <1>1, <1>2, <1>3, <1>4, <1>5, <1>6, <1>7, <1>8, <1>9
     DEF Next, Arrive, Step

\* Every step keeps the two breaker fields in agreement.
LEMMA StepOpenIffTripped ==
    TypeOK /\ OpenIffTripped /\ [Next]_vars => OpenIffTripped'
<1> SUFFICES ASSUME TypeOK, OpenIffTripped, [Next]_vars PROVE OpenIffTripped'
  OBVIOUS
<1> USE ConfigAssumption DEF TypeOK, OpenIffTripped, IsOpen, Null, breaker
<1>1. ASSUME NEW c \in Calls, HalfOpen(c) \/ Succeed(c) PROVE OpenIffTripped'
  BY <1>1 DEF HalfOpen, Succeed
<1>2. ASSUME NEW c \in Calls, GiveUp(c) PROVE OpenIffTripped'
  BY <1>2 DEF GiveUp
<1>3. ASSUME NEW c \in Calls,
             FailFast(c) \/ Enter(c) \/ BackOff(c) \/ Retry(c)
      PROVE  OpenIffTripped'
  BY <1>3 DEF FailFast, Enter, BackOff, Retry
<1>4. CASE Tick
  BY <1>4 DEF Tick
<1>5. CASE UNCHANGED vars
  BY <1>5 DEF vars
<1> QED
  BY <1>1, <1>2, <1>3, <1>4, <1>5 DEF Next, Arrive, Step

\* A call that gives up spends its own share of the budget; nobody adds to it
\* while the circuit is open.
LEMMA StepInFlightBudget == BreakerInv /\ [Next]_vars => InFlightBudget'
<1> SUFFICES ASSUME BreakerInv, [Next]_vars PROVE InFlightBudget'
  OBVIOUS
<1> USE ConfigAssumption, InFlightFinite
    DEF BreakerInv, TypeOK, OpenIffTripped, InFlightBudget
<1>1. ASSUME NEW c \in Calls, FailFast(c) PROVE InFlightBudget'
  BY <1>1 DEF FailFast, breaker, InFlight
<1>2. ASSUME NEW c \in Calls, Enter(c) PROVE InFlightBudget'
  BY <1>2 DEF Enter, breaker, IsOpen
<1>3. ASSUME NEW c \in Calls, HalfOpen(c) \/ Succeed(c) PROVE InFlightBudget'
  BY <1>3 DEF HalfOpen, Succeed
<1>4. ASSUME NEW c \in Calls, BackOff(c) \/ Retry(c) PROVE InFlightBudget'
  <2>1. InFlight' = InFlight
    BY <1>4 DEF BackOff, Retry, InFlight
  <2> QED
    BY <1>4, <2>1 DEF BackOff, Retry, breaker
<1>5. ASSUME NEW c \in Calls, GiveUp(c) PROVE InFlightBudget'
  <2>1. c \in InFlight /\ InFlight' = InFlight \ {c}
    BY <1>5 DEF GiveUp, Return, InFlight
  <2>2. Cardinality(InFlight') = Cardinality(InFlight) - 1
    BY <2>1, FS_RemoveElement
  <2>3. failures' = failures + 1
    BY <1>5 DEF GiveUp
  <2> QED
    BY <2>2, <2>3
<1>6. CASE Tick
  BY <1>6 DEF Tick, InFlight
<1>7. CASE UNCHANGED vars
  BY <1>7 DEF vars, InFlight
<1> QED
  BY <1>1, <1>2, <1>3, <1>4, <1>5, <1>6, <1>7 DEF Next, Arrive, Step

\* Attempts are counted from one.
LEMMA StepAttemptsCounted ==
    ASSUME TypeOK, AttemptsCounted, [Next]_vars PROVE AttemptsCounted'
<1> USE DEF TypeOK, AttemptsCounted, InFlight, breaker
<1>1. ASSUME NEW c \in Calls, FailFast(c) \/ BackOff(c) PROVE AttemptsCounted'
  BY <1>1 DEF FailFast, BackOff
<1>2. ASSUME NEW c \in Calls, Enter(c) \/ HalfOpen(c) PROVE AttemptsCounted'
  BY <1>2 DEF Enter, HalfOpen, StartAttempt
<1>3. ASSUME NEW c \in Calls, Succeed(c) \/ GiveUp(c) PROVE AttemptsCounted'
  BY <1>3 DEF Succeed, GiveUp, Return
<1>4. ASSUME NEW c \in Calls, Retry(c) PROVE AttemptsCounted'
  BY <1>4 DEF Retry
<1>5. CASE Tick \/ UNCHANGED vars
  BY <1>5 DEF Tick, vars
<1> QED
  BY <1>1, <1>2, <1>3, <1>4, <1>5 DEF Next, Arrive, Step

\* The attempts left are finitely many.
LEMMA AttemptsLeftFinite ==
    ASSUME TypeOK
    PROVE  IsFiniteSet(AttemptsLeft) /\ Cardinality(AttemptsLeft) \in Nat
<1>1. MaxAttempts \in Nat
  BY ConfigAssumption DEF MaxAttempts
<1>2. IsFiniteSet(InFlight)
  BY InFlightFinite
<1>3. IsFiniteSet(1 .. MaxAttempts)
  BY <1>1, FS_Interval
<1>4. IsFiniteSet(InFlight \X (1 .. MaxAttempts))
  BY <1>2, <1>3, FS_Product
<1> QED
  BY <1>4, FS_Subset, FS_CardinalityType DEF AttemptsLeft

\* Second and later attempts of all calls but one: Retries for each at most.
LEMMA RetriesOfTheOthers ==
    ASSUME NEW c \in Calls, NEW S \in SUBSET ((Calls \ {c}) \X (2 .. MaxAttempts))
    PROVE  Cardinality(S) <= (Cardinality(Calls) - 1) * Retries
<1> DEFINE Others == Calls \ {c}
           Again == 2 .. MaxAttempts
<1>1. Retries \in Nat /\ MaxAttempts = Retries + 1 /\ IsFiniteSet(Calls)
  BY ConfigAssumption, CallsAssumption DEF MaxAttempts
<1>2. IsFiniteSet(Again) /\ Cardinality(Again) = Retries
  BY <1>1, FS_Interval
<1>3. IsFiniteSet(Others) /\ Cardinality(Others) = Cardinality(Calls) - 1
  BY <1>1, FS_RemoveElement
<1>4. S \subseteq Others \X Again
  OBVIOUS
<1> HIDE DEF Others, Again
<1>5. IsFiniteSet(Others \X Again) /\ Cardinality(Others \X Again) = Cardinality(Others) * Cardinality(Again)
  BY <1>2, <1>3, FS_Product
<1>6. Cardinality(S) <= Cardinality(Others \X Again)
  BY <1>4, <1>5, FS_Subset
<1> QED
  BY <1>2, <1>3, <1>5, <1>6

\* A retry spends one of the attempts left; nothing else leaks, and no call enters
\* while the circuit is open.
LEMMA StepLeakBudget == BreakerInv /\ [Next]_vars => LeakBudget'
<1> SUFFICES ASSUME BreakerInv, [Next]_vars PROVE LeakBudget'
  OBVIOUS
<1>1. TypeOK /\ TypeOK' /\ LeakBudget /\ AttemptsCounted /\ AttemptsCounted' /\ RetryBudget
  BY StepBreakerTypes, StepAttemptsCounted DEF BreakerInv
<1>2. IsFiniteSet(AttemptsLeft) /\ Cardinality(AttemptsLeft) \in Nat /\ leaked \in Nat
  BY <1>1, AttemptsLeftFinite DEF TypeOK
<1>3. ASSUME NEW c \in Calls, FailFast(c) \/ BackOff(c) PROVE LeakBudget'
  <2>1. AttemptsLeft' = AttemptsLeft /\ UNCHANGED <<openFor, leaked>>
    BY <1>1, <1>3 DEF FailFast, BackOff, AttemptsLeft, InFlight, breaker, TypeOK
  <2> QED
    BY <1>1, <2>1 DEF LeakBudget, IsOpen
<1>4. ASSUME NEW c \in Calls, Enter(c) PROVE LeakBudget'
  BY <1>1, <1>4 DEF Enter, LeakBudget, IsOpen, breaker
<1>5. ASSUME NEW c \in Calls, HalfOpen(c) \/ Succeed(c) PROVE LeakBudget'
  BY <1>5 DEF HalfOpen, Succeed, LeakBudget, IsOpen
<1>6. ASSUME NEW c \in Calls, GiveUp(c) PROVE LeakBudget'
  <2>1. c \notin InFlight' /\ leaked' = leaked /\ AttemptsLeft' \subseteq AttemptsLeft
    BY <1>1, <1>6 DEF GiveUp, Return, AttemptsLeft, InFlight, TypeOK
  <2>2. Cardinality(AttemptsLeft') <= Cardinality(AttemptsLeft) /\ Cardinality(AttemptsLeft') \in Nat
    BY <1>2, <2>1, FS_Subset, FS_CardinalityType
  <2>3. CASE IsOpen
    <3>1. IsOpen'
      BY <1>6, <2>3 DEF GiveUp, IsOpen, Null
    <3>2. Cardinality(Calls) - 1 \in Int /\ Retries \in Nat
      BY InFlightFinite, ConfigAssumption
    <3> QED
      BY <1>1, <1>2, <2>1, <2>2, <2>3, <3>1, <3>2 DEF LeakBudget
  <2>4. CASE ~IsOpen
    <3>1. Cardinality(AttemptsLeft') <= (Cardinality(Calls) - 1) * Retries
      <4>1. MaxAttempts \in Nat
        BY ConfigAssumption DEF MaxAttempts
      <4>2. AttemptsLeft' \subseteq (Calls \ {c}) \X (2 .. MaxAttempts)
        BY <1>1, <2>1, <4>1 DEF AttemptsLeft, AttemptsCounted, InFlight, TypeOK
      <4> QED
        BY <4>2, RetriesOfTheOthers
    <3> QED
      BY <1>1, <2>1, <2>2, <2>4, <3>1 DEF LeakBudget
  <2> QED
    BY <2>3, <2>4
<1>7. ASSUME NEW c \in Calls, Retry(c) PROVE LeakBudget'
  <2> DEFINE next == <<c, attempt[c] + 1>>
  <2>1. next \in AttemptsLeft /\ AttemptsLeft' = AttemptsLeft \ {next}
    BY <1>1, <1>7, ConfigAssumption DEF Retry, AttemptsLeft, InFlight, TypeOK, RetryBudget, MaxAttempts
  <2> HIDE DEF next
  <2>2. Cardinality(AttemptsLeft') = Cardinality(AttemptsLeft) - 1
    BY <1>2, <2>1, FS_RemoveElement
  <2>3. leaked' = (IF IsOpen THEN leaked + 1 ELSE leaked) /\ IsOpen' = IsOpen
    BY <1>7 DEF Retry, IsOpen, breaker
  <2>4. (Cardinality(Calls) - 1) * Retries \in Int
    BY InFlightFinite, ConfigAssumption
  <2> QED
    BY <1>1, <1>2, <2>2, <2>3, <2>4 DEF LeakBudget
<1>8. CASE Tick \/ UNCHANGED vars
  <2>1. AttemptsLeft' = AttemptsLeft /\ leaked' = leaked /\ IsOpen' = IsOpen
    BY <1>1, <1>8, ConfigAssumption DEF Tick, vars, AttemptsLeft, InFlight, TypeOK, IsOpen, Null
  <2> QED
    BY <1>1, <2>1 DEF LeakBudget
<1> QED
  BY <1>3, <1>4, <1>5, <1>6, <1>7, <1>8 DEF Next, Arrive, Step

\* Type correctness, with the strengthening it needs.
THEOREM BreakerInvHolds == Spec => []BreakerInv
<1>1. BreakerInv /\ [Next]_vars => BreakerInv'
  BY StepBreakerTypes, StepOpenIffTripped, StepInFlightBudget, StepAttemptsCounted, StepLeakBudget DEF BreakerInv
<1> QED
  BY BreakerInit, <1>1, PTL DEF Spec

\* Every variable of the breaker keeps its type.
THEOREM BreakerTypes == Spec => []TypeOK
<1>1. BreakerInv => TypeOK
  BY DEF BreakerInv
<1> QED
  BY BreakerInvHolds, <1>1, PTL

\* However calls overlap, the circuit is open exactly when the counter of
\* consecutive failures has reached the threshold.
THEOREM BreakerAgrees == Spec => []OpenIffTripped
<1>1. BreakerInv => OpenIffTripped
  BY DEF BreakerInv
<1> QED
  BY BreakerInvHolds, <1>1, PTL

\* The counter overshoots the threshold by at most the other callers.
THEOREM FailuresStayBounded == Spec => []FailuresBounded
<1>1. BreakerInv => FailuresBounded
  BY InFlightFinite, ConfigAssumption
     DEF BreakerInv, TypeOK, InFlightBudget, FailuresBounded
<1> QED
  BY BreakerInvHolds, <1>1, PTL

\* What calls in flight can do to an upstream whose circuit is open: all of them but
\* the one that tripped it, each its retries.
THEOREM LeakStaysBounded == Spec => []LeakBounded
<1>1. BreakerInv => LeakBounded
  <2> SUFFICES ASSUME BreakerInv PROVE leaked <= (Cardinality(Calls) - 1) * Retries
    BY DEF LeakBounded
  <2>1. leaked \in Nat /\ Cardinality(AttemptsLeft) \in Nat /\ Cardinality(Calls) \in Nat /\ Retries \in Nat
    BY AttemptsLeftFinite, InFlightFinite, ConfigAssumption DEF BreakerInv, TypeOK
  <2>2. CASE IsOpen
    <3>1. (Cardinality(Calls) - 1) * Retries \in Int
      BY <2>1
    <3> QED
      BY <2>1, <2>2, <3>1 DEF BreakerInv, LeakBudget
  <2>3. CASE ~IsOpen
    <3>1. leaked = 0
      BY <2>3 DEF BreakerInv, LeakBudget
    <3>2. Cardinality(Calls) >= 1
      BY <2>1, CallsAssumption, FS_EmptySet
    <3>3. \A n, m \in Nat : n >= 1 => 0 <= (n - 1) * m
      OBVIOUS
    <3> QED
      BY <2>1, <3>1, <3>2, <3>3
  <2> QED
    BY <2>2, <2>3
<1> QED
  BY BreakerInvHolds, <1>1, PTL

-----------------------------------------------------------------------------
(***************************************************************************)
(* Telemetry: any number of processes, calls, days and ids                 *)
(***************************************************************************)
\* No file, and no copy of one a flush holds, counts a call that was not recorded.
Counted(state, calls) == \A day \in Days : state.pending[day] <= calls[day]

\* A request names a day and an id, and counts calls of that day.
Genuine(p) ==
    wire[p].pc # "none" =>
        /\ wire[p].day \in Days
        /\ wire[p].id \in Ids
        /\ wire[p].count <= recorded[wire[p].day]

NothingInvented ==
    /\ Counted(file, recorded)
    /\ \A p \in Procs : Counted(flush[p].state, recorded) /\ Genuine(p)

\* The receipts of this day are still kept.
Recent(day) == today <= day + ReceiptDays

\* Counters come after the receipt, and the receipt stays while its day is recent.
ReceiptFirst ==
    \A day \in Days, id \in Ids :
        Recent(day) /\ <<day, id>> \notin receipts => usage[<<day, id>>] = 0

\* A request whose receipt was new has the receipt's counters to itself.
Owes(p) == wire[p].pc = "receipted"

OwedOnce ==
    \A p \in Procs : Owes(p) /\ Recent(wire[p].day) =>
        /\ Key(p) \in receipts
        /\ usage[Key(p)] = 0
        /\ \A q \in Procs \ {p} : Owes(q) => Key(q) # Key(p)

\* The id of a file was minted for the month the file names.
OfItsMonth(state, minted) ==
    state.id # NoId => state.id \in 1 .. Len(minted) /\ minted[state.id] = state.month

MonthsKept == OfItsMonth(file, mintedFor) /\ \A p \in Procs : OfItsMonth(flush[p].state, mintedFor)

TelemetryInv == TelemetryTypeOK /\ NothingInvented /\ ReceiptFirst /\ OwedOnce /\ UsageNeverInflated /\ MonthsKept

-----------------------------------------------------------------------------
\* A set of naturals that is not empty has a least member.
LEMMA LeastElement ==
    ASSUME NEW S \in SUBSET Nat, S # {}
    PROVE \E n \in S : \A m \in S : n <= m
<1> DEFINE R == {ss \in Nat \X Nat : ss[1] < ss[2]}
<1>0. IsWellFoundedOn(R, Nat)
  BY NatLessThanWellFounded, Zenon DEF OpToRel
<1> HIDE DEF R
<1>1. PICK x \in S : \A y \in S : ~ (<<y, x>> \in R)
  BY <1>0, WFMin
<1>2. ASSUME NEW y \in S PROVE x <= y
  <2>1. x \in Nat /\ y \in Nat OBVIOUS
  <2>2. ~(y < x) BY <1>1, <2>1 DEF R
  <2> QED BY <2>1, <2>2
<1> QED BY <1>1, <1>2

\* A month is a natural number.
LEMMA MonthType ==
    ASSUME NEW day \in Days
    PROVE Month(day) \in Nat
BY CalendarAssumption DEF Days, Month

\* Drawing an id for today leaves the earlier ids to their months.
LEMMA EnsuredFacts ==
    ASSUME TelemetryTypeOK, NEW state \in States, OfItsMonth(state, mintedFor), Mint(Ensured(state, today))
    PROVE  /\ Ensured(state, today) \in States
           /\ Ensured(state, today).id \in Ids
           /\ Ensured(state, today).pending = state.pending
           /\ Ensured(state, today).month = Month(today)
           /\ mintedFor' \in Seq(Nat)
           /\ \A i \in 1 .. Len(mintedFor) : i \in 1 .. Len(mintedFor') /\ mintedFor'[i] = mintedFor[i]
           /\ Ensured(state, today).id \in 1 .. Len(mintedFor')
           /\ mintedFor'[Ensured(state, today).id] = Month(today)
<1> DEFINE after == Ensured(state, today)
<1>1. /\ today \in Days
      /\ mintedFor \in Seq(Nat)
      /\ Len(mintedFor) \in Nat
      /\ Month(today) \in Nat
  BY MonthType DEF TelemetryTypeOK
<1>2. /\ state.id \in Ids \cup {NoId}
      /\ state.month \in Nat
      /\ state.consent \in BOOLEAN
      /\ state.last \in Days \cup {NoDay}
      /\ state.pending \in [Days -> 0 .. MaxCount]
      /\ state = [consent |-> state.consent, month |-> state.month, id |-> state.id,
                  last |-> state.last, pending |-> state.pending]
  BY DEF States
<1>3. CASE state.month = Month(today) /\ state.id # NoId
  <2>1. after = state
    BY <1>3 DEF Ensured
  <2>2. state.id \in 1 .. Len(mintedFor) /\ mintedFor[state.id] = Month(today)
    BY <1>3 DEF OfItsMonth
  <2>3. mintedFor' = mintedFor
    BY <1>1, <2>1, <2>2 DEF Mint
  <2> QED BY <1>1, <1>2, <1>3, <2>1, <2>2, <2>3
<1>4. CASE ~(state.month = Month(today) /\ state.id # NoId)
  <2>1. after = [consent |-> state.consent, month |-> Month(today), id |-> Len(mintedFor) + 1,
                 last |-> state.last, pending |-> state.pending]
    BY <1>4, <1>2 DEF Ensured
  <2>2. Len(mintedFor) + 1 <= MaxIds
    BY <2>1 DEF Mint
  <2>3. mintedFor' = Append(mintedFor, Month(today))
    BY <2>1, <1>1 DEF Mint
  <2>4. Len(mintedFor) + 1 \in Ids
    BY <2>2, <1>1, CalendarAssumption DEF Ids
  <2>5. after \in States
    BY <2>1, <2>4, <1>1, <1>2 DEF States
  <2> QED BY <1>1, <2>1, <2>3, <2>4, <2>5
<1> QED BY <1>3, <1>4

\* The day a flush sends is a completed one.
LEMMA OldestDue ==
    ASSUME TelemetryTypeOK, NEW state, Due(state) # {}
    PROVE (CHOOSE d \in Due(state) : \A e \in Due(state) : d <= e) \in Due(state)
<1>1. Due(state) \in SUBSET Nat
  BY CalendarAssumption DEF Due, Days
<1>2. \E d \in Due(state) : \A e \in Due(state) : d <= e
  BY <1>1, LeastElement
<1> QED BY <1>2

-----------------------------------------------------------------------------
\* The file that disabling telemetry leaves, which is also that of a fresh install.
LEMMA InitDisabled ==
    /\ Disabled \in States
    /\ \A calls \in [Days -> Nat] : Counted(Disabled, calls)
    /\ \A minted : OfItsMonth(Disabled, minted)
<1>1. Disabled \in States
  BY CalendarAssumption DEF Disabled, States, Ids, NoId
<1>2. ASSUME NEW calls \in [Days -> Nat] PROVE Counted(Disabled, calls)
  BY DEF Counted, Disabled
<1>3. ASSUME NEW minted PROVE OfItsMonth(Disabled, minted)
  BY DEF OfItsMonth, Disabled
<1> QED BY <1>1, <1>2, <1>3

\* Nothing has been recorded, minted, sent or counted yet.
LEMMA TelemetryStarts == TelemetryInit => TelemetryInv
<1> SUFFICES ASSUME TelemetryInit PROVE TelemetryInv OBVIOUS
<1>1. TelemetryTypeOK
  <2>1. flush \in [Procs -> [pc : {"idle", "sent"}, state : States, day : Days \cup {NoDay}]]
    BY InitDisabled DEF TelemetryInit, NoFlush
  <2>2. wire \in [Procs -> [pc : {"none", "sent", "receipted", "accepted"}, day : Days \cup {NoDay},
                           id : Ids \cup {NoId}, count : 0 .. MaxCount]]
    BY CalendarAssumption DEF TelemetryInit, NoRequest
  <2>3. today \in Days /\ recorded \in [Days -> 0 .. MaxCalls] /\ mintedFor \in Seq(Nat)
    BY CalendarAssumption DEF TelemetryInit, Days
  <2>4. usage \in [Days \X Ids -> Nat] /\ receipts \subseteq Days \X Ids
    BY DEF TelemetryInit
  <2> QED BY <2>1, <2>2, <2>3, <2>4, InitDisabled DEF TelemetryInit, TelemetryTypeOK
<1>2. NothingInvented
  BY InitDisabled, CalendarAssumption
     DEF TelemetryInit, NothingInvented, Genuine, NoFlush, NoRequest, Days, Counted, Disabled
<1>3. ReceiptFirst /\ OwedOnce
  BY DEF TelemetryInit, ReceiptFirst, OwedOnce, Owes, NoRequest
<1>4. UsageNeverInflated
  <2>1. ASSUME NEW day \in Days, NEW id \in Ids PROVE usage[<<day, id>>] <= recorded[day]
    <3>1. <<day, id>> \in Days \X Ids OBVIOUS
    <3> QED BY <3>1 DEF TelemetryInit
  <2> QED BY <2>1 DEF UsageNeverInflated
<1>5. MonthsKept
  BY InitDisabled DEF TelemetryInit, MonthsKept, NoFlush
<1> QED BY <1>1, <1>2, <1>3, <1>4, <1>5 DEF TelemetryInv

\* Ids stay with their months, and calls recorded stay recorded.
LEMMA Grows ==
    ASSUME TelemetryInv, TelemetryNext
    PROVE  /\ \A i \in 1 .. Len(mintedFor) :
                i \in 1 .. Len(mintedFor') /\ mintedFor'[i] = mintedFor[i]
           /\ \A day \in Days : recorded[day] \in Nat /\ recorded'[day] \in Nat
                                /\ recorded[day] <= recorded'[day]
<1> DEFINE Kept == \A i \in 1 .. Len(mintedFor) :
                        i \in 1 .. Len(mintedFor') /\ mintedFor'[i] = mintedFor[i]
           Counts == \A day \in Days : recorded[day] \in Nat /\ recorded'[day] \in Nat
                                       /\ recorded[day] <= recorded'[day]
<1>1. mintedFor' = mintedFor => Kept
  OBVIOUS
<1>2. recorded' = recorded => Counts
  BY CalendarAssumption DEF TelemetryInv, TelemetryTypeOK
<1>3. file \in States /\ OfItsMonth(file, mintedFor)
  BY DEF TelemetryInv, TelemetryTypeOK, MonthsKept
<1>4. Mint(Ensured(file, today)) => Kept
  BY <1>3, EnsuredFacts DEF TelemetryInv
<1>5. CASE Enable
  <2> DEFINE on == [file EXCEPT !.consent = TRUE]
  <2>1. on \in States /\ OfItsMonth(on, mintedFor)
    BY <1>3 DEF States, OfItsMonth
  <2>2. Mint(Ensured(on, today))
    BY <1>5 DEF Enable, Mint
  <2> QED BY <1>2, <1>5, <2>1, <2>2, EnsuredFacts DEF Enable, TelemetryInv
<1>6. CASE Record
  <2>1. Mint(Ensured(file, today))
    <3>1. Ensured(file, today).id = file'.id
      BY <1>3, <1>6 DEF Record, Ensured, States
    <3> QED BY <3>1, <1>6 DEF Record, Mint
  <2>2. Counts
    BY <1>6, CalendarAssumption DEF Record, TelemetryInv, TelemetryTypeOK
  <2> QED BY <1>4, <2>1, <2>2
<1>7. CASE Disable \/ Purge \/ NextDay \/ \E p \in Procs : FlushFails(p) \/ FlushWrites(p) \/ Ingest(p)
  BY <1>1, <1>2, <1>7
     DEF Disable, Purge, NextDay, FlushFails, FlushWrites, Ingest, Receipt, AddUsage, Drop, backend
<1>8. CASE \E p \in Procs : FlushNothing(p)
  BY <1>2, <1>4, <1>8 DEF FlushNothing, Mint
<1>9. CASE \E p \in Procs : FlushSend(p)
  BY <1>2, <1>4, <1>9 DEF FlushSend
<1> QED BY <1>5, <1>6, <1>7, <1>8, <1>9 DEF TelemetryNext, Flush

\* What the client writes is a file, of calls that were recorded, with an id of its
\* own month.
LEMMA FileStep ==
    ASSUME TelemetryInv, TelemetryNext
    PROVE  file' \in States /\ Counted(file', recorded') /\ OfItsMonth(file', mintedFor')
<1> DEFINE Sound(state) ==
        state \in States /\ Counted(state, recorded') /\ OfItsMonth(state, mintedFor')
<1>1. ASSUME NEW state \in States, Counted(state, recorded), OfItsMonth(state, mintedFor)
      PROVE  Sound(state)
  <2>1. Counted(state, recorded')
    <3> SUFFICES ASSUME NEW day \in Days PROVE state.pending[day] <= recorded'[day]
      BY DEF Counted
    <3>1. state.pending[day] \in Nat
      BY CalendarAssumption DEF States
    <3> QED BY <1>1, <3>1, Grows DEF Counted
  <2>2. OfItsMonth(state, mintedFor')
    BY <1>1, Grows DEF OfItsMonth
  <2> QED BY <1>1, <2>1, <2>2
<1>2. file \in States /\ Counted(file, recorded) /\ OfItsMonth(file, mintedFor)
  BY DEF TelemetryInv, TelemetryTypeOK, NothingInvented, MonthsKept
<1>3. ASSUME NEW state \in States, Counted(state, recorded), OfItsMonth(state, mintedFor),
             Mint(Ensured(state, today))
      PROVE  Sound(Ensured(state, today))
  <2>1. Sound(state)
    BY <1>1, <1>3
  <2>2. Counted(Ensured(state, today), recorded')
    BY <1>3, <2>1, EnsuredFacts DEF Counted, TelemetryInv
  <2> QED BY <1>3, <2>2, EnsuredFacts DEF OfItsMonth, TelemetryInv
<1>4. CASE Enable
  <2> DEFINE on == [file EXCEPT !.consent = TRUE]
  <2>1. on \in States /\ OfItsMonth(on, mintedFor) /\ Counted(on, recorded)
    BY <1>2 DEF States, OfItsMonth, Counted
  <2>2. Mint(Ensured(on, today)) /\ file' = Ensured(on, today)
    BY <1>4 DEF Enable, Mint
  <2> HIDE DEF on
  <2> QED BY <1>3, <2>1, <2>2
<1>5. CASE Disable
  <2>1. recorded' \in [Days -> Nat]
    BY <1>5, CalendarAssumption DEF Disable, TelemetryInv, TelemetryTypeOK
  <2> QED BY <1>5, <2>1, InitDisabled DEF Disable
<1>6. CASE Record
  <2> DEFINE after == Ensured(file, today)
  <2>1. after.id = file'.id /\ after.month = file'.month
    BY <1>2, <1>6 DEF Record, Ensured, States
  <2>2. Mint(after)
    BY <2>1, <1>6 DEF Record, Mint
  <2>3. after \in States /\ OfItsMonth(after, mintedFor') /\ after.pending = file.pending
    BY <1>2, <1>3, <2>2, EnsuredFacts DEF TelemetryInv
  <2> HIDE DEF after
  <2>4. file' = [after EXCEPT !.pending[today] = Add(@)]
    BY <1>6 DEF Record, after
  <2>5. today \in Days /\ file.pending \in [Days -> 0 .. MaxCount] /\ MaxCount \in Nat \ {0}
    BY <1>2, CalendarAssumption DEF TelemetryInv, TelemetryTypeOK, States
  <2>6. Add(after.pending[today]) \in 0 .. MaxCount
    BY <2>3, <2>5 DEF Add
  <2>7. file' \in States
    BY <2>3, <2>4, <2>6 DEF States
  <2>8. file'.pending = [file.pending EXCEPT ![today] = Add(file.pending[today])]
    BY <2>3, <2>4 DEF States
  <2>9. recorded' = [recorded EXCEPT ![today] = recorded[today] + 1] /\ recorded \in [Days -> 0 .. MaxCalls]
    BY <1>6 DEF Record, TelemetryInv, TelemetryTypeOK
  <2>10. Counted(file', recorded')
    <3> SUFFICES ASSUME NEW day \in Days PROVE file'.pending[day] <= recorded'[day]
      BY DEF Counted
    <3>1. file.pending[day] <= recorded[day] /\ recorded[day] \in Nat /\ file.pending[day] \in 0 .. MaxCount
      BY <1>2, <2>5, <2>9, CalendarAssumption DEF Counted
    <3>2. CASE day = today
      <4>1. file'.pending[day] = Add(file.pending[day]) /\ recorded'[day] = recorded[day] + 1
        BY <3>2, <2>5, <2>8, <2>9
      <4>2. Add(file.pending[day]) <= file.pending[day] + 1
        BY <3>1, <2>5 DEF Add
      <4> QED BY <3>1, <4>1, <4>2, <2>5 DEF Add
    <3>3. CASE day # today
      BY <3>1, <3>3, <2>5, <2>8, <2>9
    <3> QED BY <3>2, <3>3
  <2>11. OfItsMonth(file', mintedFor')
    BY <2>1, <2>3 DEF OfItsMonth, after
  <2> QED BY <2>7, <2>10, <2>11
<1>7. CASE Purge \/ NextDay \/ \E p \in Procs : FlushSend(p) \/ FlushFails(p) \/ Ingest(p)
  <2>1. file' = file
    BY <1>7 DEF Purge, NextDay, FlushSend, FlushFails, Ingest, Receipt, AddUsage, Drop, backend
  <2> QED BY <1>1, <1>2, <2>1
<1>8. CASE \E p \in Procs : FlushNothing(p)
  <2>1. Mint(Ensured(file, today)) /\ file' = Ensured(file, today)
    BY <1>8 DEF FlushNothing, Mint
  <2> QED BY <1>2, <1>3, <2>1
<1>9. ASSUME NEW p \in Procs, FlushWrites(p)
      PROVE  Sound(file')
  <2> DEFINE read == flush[p].state
             day == flush[p].day
  <2>1. read \in States /\ Counted(read, recorded) /\ OfItsMonth(read, mintedFor)
        /\ day \in Days \cup {NoDay}
    BY DEF TelemetryInv, TelemetryTypeOK, NothingInvented, MonthsKept
  <2>2. file' = [read EXCEPT !.last = day, !.pending[day] = 0]
    BY <1>9 DEF FlushWrites
  <2>3. Sound(read)
    BY <1>1, <2>1
  <2> HIDE DEF read, day
  <2> DEFINE left == [read.pending EXCEPT ![day] = 0]
  <2>6. read.pending \in [Days -> 0 .. MaxCount] /\ 0 \in 0 .. MaxCount
    BY <2>1, CalendarAssumption DEF States
  <2>7. left \in [Days -> 0 .. MaxCount]
    BY <2>6
  <2>8. file' = [read EXCEPT !.last = day, !.pending = left]
    BY <2>1, <2>2 DEF States
  <2> HIDE DEF left
  <2>4. file' \in States /\ file'.id = read.id /\ file'.month = read.month
        /\ file'.pending = left
    BY <2>1, <2>7, <2>8 DEF States
  <2>5. Counted(file', recorded')
    BY <2>3, <2>4, <2>6, Grows DEF Counted, left
  <2> QED BY <2>3, <2>4, <2>5 DEF OfItsMonth
<1> QED BY <1>4, <1>5, <1>6, <1>7, <1>8, <1>9 DEF TelemetryNext, Flush

\* What a flush holds on to stays such a file.
LEMMA HeldStep ==
    ASSUME TelemetryInv, TelemetryNext
    PROVE  /\ flush' \in [Procs -> [pc : {"idle", "sent"}, state : States, day : Days \cup {NoDay}]]
           /\ \A p \in Procs : /\ Counted(flush'[p].state, recorded')
                               /\ OfItsMonth(flush'[p].state, mintedFor')
<1> DEFINE Holds == [pc : {"idle", "sent"}, state : States, day : Days \cup {NoDay}]
           Sound(state) == Counted(state, recorded') /\ OfItsMonth(state, mintedFor')
           Goal == flush' \in [Procs -> Holds] /\ \A p \in Procs : Sound(flush'[p].state)
<1>1. ASSUME NEW state \in States, Counted(state, recorded), OfItsMonth(state, mintedFor)
      PROVE  Sound(state)
  <2>1. Counted(state, recorded')
    <3> SUFFICES ASSUME NEW day \in Days PROVE state.pending[day] <= recorded'[day]
      BY DEF Counted
    <3>1. state.pending[day] \in Nat
      BY CalendarAssumption DEF States
    <3> QED BY <1>1, <3>1, Grows DEF Counted
  <2>2. OfItsMonth(state, mintedFor')
    BY <1>1, Grows DEF OfItsMonth
  <2> QED BY <2>1, <2>2
<1>2. flush \in [Procs -> Holds]
  BY DEF TelemetryInv, TelemetryTypeOK
<1>3. ASSUME NEW p \in Procs PROVE flush[p].state \in States /\ Sound(flush[p].state)
  BY <1>1, <1>2 DEF TelemetryInv, NothingInvented, MonthsKept
<1>4. NoFlush \in Holds /\ Sound(NoFlush.state)
  <2>1. NoFlush.state = Disabled /\ NoFlush \in Holds
    BY InitDisabled DEF NoFlush
  <2>2. recorded \in [Days -> Nat]
    BY CalendarAssumption DEF TelemetryInv, TelemetryTypeOK
  <2>3. Sound(Disabled)
    BY <1>1, <2>2, InitDisabled
  <2> QED BY <2>1, <2>3
<1>5. ASSUME NEW p \in Procs, flush' = [flush EXCEPT ![p] = NoFlush]
      PROVE  Goal
  BY <1>2, <1>3, <1>4, <1>5
<1>6. ASSUME flush' = flush
      PROVE  Goal
  BY <1>2, <1>3, <1>6
<1>7. ASSUME NEW p \in Procs, FlushSend(p)
      PROVE  Goal
  <2> DEFINE after == Ensured(file, today)
             day == CHOOSE d \in Due(file) : \A e \in Due(file) : d <= e
             held == [pc |-> "sent", state |-> after, day |-> day]
  <2>1. file \in States /\ Counted(file, recorded) /\ OfItsMonth(file, mintedFor)
    BY DEF TelemetryInv, TelemetryTypeOK, NothingInvented, MonthsKept
  <2>2. Mint(after) /\ flush' = [flush EXCEPT ![p] = held]
    BY <1>7 DEF FlushSend
  <2>3. after \in States /\ after.pending = file.pending /\ OfItsMonth(after, mintedFor')
    BY <2>1, <2>2, EnsuredFacts DEF TelemetryInv, OfItsMonth
  <2>4. day \in Days
    BY <1>7, OldestDue DEF FlushSend, Due, TelemetryInv
  <2> HIDE DEF after, day
  <2>5. held \in Holds
    BY <2>3, <2>4
  <2>6. Sound(held.state)
    BY <1>1, <2>1, <2>3 DEF Counted
  <2> QED BY <1>2, <1>3, <2>2, <2>5, <2>6
<1>8. CASE Enable \/ Disable \/ Record \/ Purge \/ NextDay
  BY <1>6, <1>8 DEF Enable, Disable, Record, Purge, NextDay
<1>9. ASSUME NEW p \in Procs, FlushNothing(p) \/ FlushFails(p) \/ FlushWrites(p) \/ Ingest(p)
      PROVE  Goal
  BY <1>5, <1>6, <1>9 DEF FlushNothing, FlushFails, FlushWrites, Ingest, Receipt, AddUsage, Drop
<1> QED BY <1>7, <1>8, <1>9 DEF TelemetryNext, Flush

\* Every request is one that was sent, and its day and id are what they were.
LEMMA WireStep ==
    ASSUME TelemetryInv, TelemetryNext
    PROVE  /\ wire' \in [Procs -> [pc : {"none", "sent", "receipted", "accepted"},
                                   day : Days \cup {NoDay}, id : Ids \cup {NoId},
                                   count : 0 .. MaxCount]]
           /\ \A p \in Procs : Genuine(p)'
<1> DEFINE Wired == [pc : {"none", "sent", "receipted", "accepted"}, day : Days \cup {NoDay},
                     id : Ids \cup {NoId}, count : 0 .. MaxCount]
           Real(request) == request.pc # "none" =>
                                /\ request.day \in Days
                                /\ request.id \in Ids
                                /\ request.count <= recorded'[request.day]
           Goal == wire' \in [Procs -> Wired] /\ \A p \in Procs : Real(wire'[p])
<1>1. SUFFICES Goal
  BY DEF Genuine
<1>2. wire \in [Procs -> Wired]
  BY DEF TelemetryInv, TelemetryTypeOK
<1>3. ASSUME NEW p \in Procs PROVE Real(wire[p])
  <2> SUFFICES ASSUME wire[p].pc # "none" PROVE Real(wire[p])
    OBVIOUS
  <2>1. wire[p].day \in Days /\ wire[p].id \in Ids /\ wire[p].count <= recorded[wire[p].day]
    BY DEF TelemetryInv, NothingInvented, Genuine
  <2>2. wire[p].count \in Nat
    BY <1>2, CalendarAssumption
  <2> QED BY <2>1, <2>2, Grows
<1>4. ASSUME NEW p \in Procs, wire' = [wire EXCEPT ![p] = NoRequest]
      PROVE  Goal
  <2>1. NoRequest \in Wired /\ Real(NoRequest)
    BY CalendarAssumption DEF NoRequest
  <2> QED BY <1>2, <1>3, <1>4, <2>1
<1>5. ASSUME wire' = wire
      PROVE  Goal
  BY <1>2, <1>3, <1>5
<1>6. ASSUME NEW p \in Procs, wire[p].pc # "none", NEW next \in {"receipted", "accepted"},
             wire' = [wire EXCEPT ![p].pc = next]
      PROVE  Goal
  <2>1. wire' \in [Procs -> Wired]
    BY <1>2, <1>6
  <2>2. ASSUME NEW q \in Procs PROVE Real(wire'[q])
    BY <1>2, <1>3, <1>6
  <2> QED BY <2>1, <2>2
<1>7. ASSUME NEW p \in Procs, FlushSend(p)
      PROVE  Goal
  <2> DEFINE after == Ensured(file, today)
             day == CHOOSE d \in Due(file) : \A e \in Due(file) : d <= e
             request == [pc |-> "sent", day |-> day, id |-> after.id, count |-> after.pending[day]]
  <2>1. file \in States /\ Counted(file, recorded) /\ OfItsMonth(file, mintedFor)
    BY DEF TelemetryInv, TelemetryTypeOK, NothingInvented, MonthsKept
  <2>2. Mint(after) /\ wire' = [wire EXCEPT ![p] = request] /\ recorded' = recorded
    BY <1>7 DEF FlushSend
  <2>3. after.id \in Ids /\ after.pending = file.pending
    BY <2>1, <2>2, EnsuredFacts DEF TelemetryInv
  <2>4. day \in Days
    BY <1>7, OldestDue DEF FlushSend, Due, TelemetryInv
  <2> HIDE DEF after, day
  <2>5. after.pending[day] \in 0 .. MaxCount /\ after.pending[day] <= recorded[day]
    BY <2>1, <2>3, <2>4 DEF Counted, States
  <2>6. request \in Wired /\ Real(request)
    BY <2>2, <2>3, <2>4, <2>5
  <2> HIDE DEF request
  <2> QED BY <1>2, <1>3, <2>2, <2>6
<1>8. CASE Enable \/ Disable \/ Record \/ Purge \/ NextDay
  BY <1>5, <1>8 DEF Enable, Disable, Record, Purge, NextDay
<1>9. ASSUME NEW p \in Procs, FlushNothing(p) \/ FlushFails(p) \/ FlushWrites(p) \/ Drop(p)
      PROVE  Goal
  BY <1>4, <1>5, <1>9 DEF FlushNothing, FlushFails, FlushWrites, Drop
<1>10. ASSUME NEW p \in Procs, Receipt(p) \/ AddUsage(p)
       PROVE  Goal
  BY <1>6, <1>10 DEF Receipt, AddUsage
<1> QED BY <1>7, <1>8, <1>9, <1>10 DEF TelemetryNext, Flush, Ingest

\* The rest of the types.
LEMMA TelemetryTypeStep == TelemetryInv /\ TelemetryNext => TelemetryTypeOK'
<1> SUFFICES ASSUME TelemetryInv, TelemetryNext PROVE TelemetryTypeOK'
  OBVIOUS
<1>1. TelemetryTypeOK
  BY DEF TelemetryInv
<1>2. mintedFor' \in Seq(Nat)
  <2>1. file \in States /\ OfItsMonth(file, mintedFor) /\ mintedFor \in Seq(Nat) /\ today \in Days
    BY DEF TelemetryInv, TelemetryTypeOK, MonthsKept
  <2>2. mintedFor' = mintedFor \/ mintedFor' = Append(mintedFor, Month(today))
    BY DEF TelemetryNext, Flush, Ingest, Enable, Disable, Record, Purge, NextDay, FlushNothing, FlushSend,
           FlushFails, FlushWrites, Receipt, AddUsage, Drop, Mint
  <2>3. Month(today) \in Nat
    BY <2>1, MonthType
  <2>4. Append(mintedFor, Month(today)) \in Seq(Nat)
    BY <2>1, <2>3
  <2> QED BY <2>1, <2>2, <2>4
<1>3. today' \in Days
  <2>1. CASE NextDay
    BY <1>1, <2>1, CalendarAssumption DEF TelemetryTypeOK, Days, NextDay
  <2>2. CASE today' = today
    BY <1>1, <2>2 DEF TelemetryTypeOK
  <2> QED BY <2>1, <2>2 DEF TelemetryNext, Flush, Ingest, Enable, Disable, Record, Purge, FlushNothing,
                            FlushSend, FlushFails, FlushWrites, Receipt, AddUsage, Drop
<1>4. recorded' \in [Days -> 0 .. MaxCalls]
  <2>1. CASE Record
    BY <1>1, <2>1, CalendarAssumption DEF TelemetryTypeOK, Record
  <2>2. CASE recorded' = recorded
    BY <1>1, <2>2 DEF TelemetryTypeOK
  <2> QED BY <2>1, <2>2 DEF TelemetryNext, Flush, Ingest, Enable, Disable, Purge, NextDay, FlushNothing,
                            FlushSend, FlushFails, FlushWrites, Receipt, AddUsage, Drop
<1>5. wanted' \in BOOLEAN
  BY <1>1 DEF TelemetryTypeOK, TelemetryNext, Flush, Ingest, Enable, Disable, Record, Purge, NextDay,
              FlushNothing, FlushSend, FlushFails, FlushWrites, Receipt, AddUsage, Drop
<1>6. purged' \in Days \cup {NoDay}
  <2>1. CASE Purge
    BY <1>1, <2>1 DEF TelemetryTypeOK, Purge
  <2>2. CASE purged' = purged
    BY <1>1, <2>2 DEF TelemetryTypeOK
  <2> QED BY <2>1, <2>2 DEF TelemetryNext, Flush, Ingest, Enable, Disable, Record, NextDay, FlushNothing,
                            FlushSend, FlushFails, FlushWrites, Receipt, AddUsage, Drop, backend
<1>7. receipts' \subseteq Days \X Ids /\ usage' \in [Days \X Ids -> Nat]
  <2>1. ASSUME NEW p \in Procs, Receipt(p)
        PROVE  receipts' \subseteq Days \X Ids /\ usage' = usage
    BY <1>1, <2>1 DEF Receipt, TelemetryInv, NothingInvented, Genuine, Key, TelemetryTypeOK
  <2>2. ASSUME NEW p \in Procs, AddUsage(p)
        PROVE  receipts' = receipts /\ usage' \in [Days \X Ids -> Nat]
    <3>1. Key(p) \in Days \X Ids /\ wire[p].count \in Nat
      BY <1>1, <2>2, CalendarAssumption DEF AddUsage, TelemetryInv, NothingInvented, Genuine, Key,
                                            TelemetryTypeOK
    <3>2. usage' = [usage EXCEPT ![Key(p)] = usage[Key(p)] + wire[p].count] /\ receipts' = receipts
      BY <2>2 DEF AddUsage
    <3> QED BY <1>1, <3>1, <3>2 DEF TelemetryTypeOK
  <2>3. CASE receipts' = receipts /\ usage' = usage
    BY <1>1, <2>3 DEF TelemetryTypeOK
  <2>4. CASE Purge
    BY <1>1, <2>4 DEF TelemetryTypeOK, Purge
  <2> QED BY <1>1, <2>1, <2>2, <2>3, <2>4 DEF TelemetryTypeOK, TelemetryNext, Flush, Ingest, Enable,
                                        Disable, Record, NextDay, FlushNothing, FlushSend,
                                        FlushFails, FlushWrites, Drop, backend
<1> QED BY <1>2, <1>3, <1>4, <1>5, <1>6, <1>7, FileStep, HeldStep, WireStep DEF TelemetryTypeOK

\* Who owes the counters of a receipt, and that they are still zero.
LEMMA BackendStep == TelemetryInv /\ TelemetryNext => ReceiptFirst' /\ OwedOnce' /\ UsageNeverInflated'
<1> SUFFICES ASSUME TelemetryInv, TelemetryNext PROVE ReceiptFirst' /\ OwedOnce' /\ UsageNeverInflated'
  OBVIOUS
<1>1. /\ wire \in [Procs -> [pc : {"none", "sent", "receipted", "accepted"}, day : Days \cup {NoDay},
                            id : Ids \cup {NoId}, count : 0 .. MaxCount]]
      /\ usage \in [Days \X Ids -> Nat]
      /\ receipts \subseteq Days \X Ids
      /\ recorded \in [Days -> Nat] /\ recorded' \in [Days -> Nat]
  <2>1. TelemetryTypeOK /\ TelemetryTypeOK'
    BY TelemetryTypeStep DEF TelemetryInv
  <2> QED BY <2>1, CalendarAssumption DEF TelemetryTypeOK
<1>2. ReceiptFirst /\ OwedOnce
  BY DEF TelemetryInv
<1>3. today \in Nat /\ today' \in Nat /\ ReceiptDays \in Nat /\ Days \subseteq Nat
  <2>1. TelemetryTypeOK /\ TelemetryTypeOK'
    BY TelemetryTypeStep DEF TelemetryInv
  <2> QED BY <2>1, CalendarAssumption DEF TelemetryTypeOK, Days
<1>4. \A day \in Days : Recent(day)' => Recent(day)
  <2>1. today' = today \/ today' = today + 1
    BY DEF TelemetryNext, Flush, Ingest, Enable, Disable, Record, Purge, NextDay, FlushNothing, FlushSend,
           FlushFails, FlushWrites, Receipt, AddUsage, Drop
  <2> QED BY <1>3, <2>1 DEF Recent
<1>5. \A day \in Days, id \in Ids : Recent(day) => usage[<<day, id>>] <= recorded[day]
  <2>1. \A day \in Days : Recent(day) => ~(today > day + ReceiptDays)
    BY <1>3 DEF Recent
  <2> QED BY <2>1 DEF TelemetryInv, UsageNeverInflated
<1>6. ASSUME \A day \in Days, id \in Ids : Recent(day)' => usage'[<<day, id>>] <= recorded'[day]
      PROVE  UsageNeverInflated'
  <2>1. \A day \in Days : Recent(day)' \/ today' > day + ReceiptDays
    BY <1>3 DEF Recent
  <2> QED BY <1>6, <2>1 DEF UsageNeverInflated
<1>7. ASSUME usage' = usage
      PROVE  UsageNeverInflated'
  <2>1. ASSUME NEW day \in Days, NEW id \in Ids, Recent(day)' PROVE usage'[<<day, id>>] <= recorded'[day]
    <3>1. usage[<<day, id>>] \in Nat /\ recorded[day] \in Nat /\ recorded'[day] \in Nat
      BY <1>1
    <3>2. usage[<<day, id>>] <= recorded[day] /\ recorded[day] <= recorded'[day]
      BY <1>4, <1>5, <2>1, Grows
    <3> QED BY <1>7, <3>1, <3>2
  <2> QED BY <1>6, <2>1
<1>8. ASSUME NEW p \in Procs, wire[p].pc # "none"
      PROVE  wire[p].day \in Days /\ wire[p].id \in Ids /\ Key(p) = <<wire[p].day, wire[p].id>>
  BY <1>8 DEF TelemetryInv, NothingInvented, Genuine, Key
<1>9. ASSUME usage' = usage,
             \A day \in Days, id \in Ids :
                 Recent(day)' => (<<day, id>> \in receipts <=> <<day, id>> \in receipts'),
             \A p \in Procs : wire'[p].pc = "receipted" => wire'[p] = wire[p]
      PROVE  ReceiptFirst' /\ OwedOnce' /\ UsageNeverInflated'
  <2>1. ReceiptFirst'
    BY <1>2, <1>4, <1>9 DEF ReceiptFirst
  <2>2. OwedOnce'
    <3> SUFFICES ASSUME NEW p \in Procs, Owes(p)', Recent(wire[p].day)'
                 PROVE  /\ Key(p)' \in receipts'
                        /\ (usage[Key(p)])' = 0
                        /\ \A q \in Procs \ {p} : Owes(q)' => Key(q)' # Key(p)'
      BY DEF OwedOnce
    <3>1. \A q \in Procs : Owes(q)' => Owes(q) /\ Key(q)' = Key(q) /\ wire'[q] = wire[q]
      BY <1>9 DEF Owes, Key
    <3>2. Owes(p) /\ wire[p].day \in Days /\ wire[p].id \in Ids /\ Key(p) = <<wire[p].day, wire[p].id>>
      BY <1>8, <3>1 DEF Owes
    <3>3. Recent(wire[p].day)
      <4>1. wire'[p].day = wire[p].day
        BY <3>1
      <4> QED BY <1>4, <3>2, <4>1 DEF Recent
    <3>5. Key(p) \in receipts /\ usage[Key(p)] = 0 /\ \A q \in Procs \ {p} : Owes(q) => Key(q) # Key(p)
      BY <1>2, <3>2, <3>3 DEF OwedOnce
    <3>6. Key(p) \in receipts'
      <4>1. wire'[p].day = wire[p].day
        BY <3>1
      <4> QED BY <1>9, <3>2, <3>5, <4>1 DEF Recent
    <3> QED BY <1>9, <3>1, <3>5, <3>6
  <2> QED BY <1>7, <1>9, <2>1, <2>2
<1>10. ASSUME NEW p \in Procs, Receipt(p)
       PROVE  ReceiptFirst' /\ OwedOnce' /\ UsageNeverInflated'
  <2>1. /\ receipts' = receipts \cup {Key(p)}
        /\ usage' = usage /\ today' = today
        /\ wire[p].pc = "sent"
        /\ \A q \in Procs : wire'[q].pc = IF q # p THEN wire[q].pc
                                        ELSE IF Key(p) \in receipts THEN "accepted" ELSE "receipted"
    BY <1>1, <1>10 DEF Receipt
  <2>2. \A q \in Procs : Key(q)' = Key(q) /\ wire'[q].day = wire[q].day
    BY <1>1, <1>10 DEF Receipt, Key
  <2>3. wire[p].day \in Days /\ wire[p].id \in Ids /\ Key(p) = <<wire[p].day, wire[p].id>>
    BY <1>8, <2>1
  <2>4. ReceiptFirst'
    BY <1>2, <2>1 DEF ReceiptFirst, Recent
  <2>5. OwedOnce'
    <3> SUFFICES ASSUME NEW q \in Procs, Owes(q)', Recent(wire[q].day)
                 PROVE  /\ Key(q) \in receipts'
                        /\ usage[Key(q)] = 0
                        /\ \A r \in Procs \ {q} : Owes(r)' => Key(r) # Key(q)
      BY <2>1, <2>2 DEF OwedOnce, Recent
    <3>1. CASE q = p
      <4>1. Key(p) \notin receipts
        BY <2>1, <3>1 DEF Owes
      <4>2. usage[Key(p)] = 0
        BY <1>2, <2>3, <3>1, <4>1 DEF ReceiptFirst
      <4>3. ASSUME NEW r \in Procs \ {q}, Owes(r)', Key(r) = Key(p) PROVE FALSE
        <5>1. Owes(r) /\ wire[r].pc # "none"
          BY <2>1, <3>1, <4>3 DEF Owes
        <5>2. wire[r].day = wire[p].day
          BY <2>3, <4>3, <5>1, <1>8
        <5> QED BY <1>2, <3>1, <4>1, <4>3, <5>1, <5>2 DEF OwedOnce
      <4> QED BY <2>1, <3>1, <4>2, <4>3
    <3>2. CASE q # p
      <4>1. Owes(q)
        BY <2>1, <3>2 DEF Owes
      <4>2. Key(q) \in receipts /\ usage[Key(q)] = 0 /\ \A r \in Procs \ {q} : Owes(r) => Key(r) # Key(q)
        BY <1>2, <4>1 DEF OwedOnce
      <4>3. ASSUME NEW r \in Procs \ {q}, Owes(r)' PROVE Key(r) # Key(q)
        BY <2>1, <4>2, <4>3 DEF Owes
      <4> QED BY <2>1, <4>2, <4>3
    <3> QED BY <3>1, <3>2
  <2> QED BY <1>7, <2>1, <2>4, <2>5
<1>11. ASSUME NEW p \in Procs, AddUsage(p)
       PROVE  ReceiptFirst' /\ OwedOnce' /\ UsageNeverInflated'
  <2>1. /\ receipts' = receipts
        /\ usage' = [usage EXCEPT ![Key(p)] = usage[Key(p)] + wire[p].count]
        /\ recorded' = recorded /\ today' = today
        /\ Owes(p)
        /\ \A q \in Procs : wire'[q].pc = IF q # p THEN wire[q].pc ELSE "accepted"
    BY <1>1, <1>11 DEF AddUsage, Owes
  <2>2. \A q \in Procs : Key(q)' = Key(q) /\ wire'[q].day = wire[q].day
    BY <1>1, <1>11 DEF AddUsage, Key
  <2>3. /\ wire[p].day \in Days /\ wire[p].id \in Ids /\ Key(p) = <<wire[p].day, wire[p].id>>
        /\ Recent(wire[p].day) => Key(p) \in receipts /\ usage[Key(p)] = 0
    BY <1>2, <1>8, <2>1 DEF OwedOnce, Owes
  <2>4. ReceiptFirst'
    <3> SUFFICES ASSUME NEW day \in Days, NEW id \in Ids, Recent(day), <<day, id>> \notin receipts
                 PROVE  usage'[<<day, id>>] = 0
      BY <2>1 DEF ReceiptFirst, Recent
    <3>1. <<day, id>> # Key(p)
      BY <2>3
    <3> QED BY <1>1, <1>2, <2>1, <3>1 DEF ReceiptFirst
  <2>5. OwedOnce'
    <3> SUFFICES ASSUME NEW q \in Procs, Owes(q)', Recent(wire[q].day)
                 PROVE  /\ Key(q) \in receipts
                        /\ usage'[Key(q)] = 0
                        /\ \A r \in Procs \ {q} : Owes(r)' => Key(r) # Key(q)
      BY <2>1, <2>2 DEF OwedOnce, Recent
    <3>1. q # p /\ Owes(q)
      BY <2>1 DEF Owes
    <3>2. Key(q) \in receipts /\ usage[Key(q)] = 0 /\ \A r \in Procs \ {q} : Owes(r) => Key(r) # Key(q)
      BY <1>2, <3>1 DEF OwedOnce
    <3>3. ASSUME NEW r \in Procs \ {q}, Owes(r)' PROVE Key(r) # Key(q)
      BY <2>1, <3>2, <3>3 DEF Owes
    <3>4. Key(p) # Key(q)
      BY <2>1, <3>1, <3>2
    <3> QED BY <1>1, <2>1, <3>2, <3>3, <3>4
  <2>6. UsageNeverInflated'
    <3>1. ASSUME NEW day \in Days, NEW id \in Ids, Recent(day) PROVE usage'[<<day, id>>] <= recorded[day]
      <4>1. CASE <<day, id>> = Key(p)
        <5>1. day = wire[p].day /\ wire[p].count \in Nat
          BY <1>1, <4>1, CalendarAssumption DEF Key
        <5>2. usage'[<<day, id>>] = wire[p].count
          BY <1>1, <2>1, <2>3, <3>1, <4>1, <5>1
        <5>3. wire[p].count <= recorded[wire[p].day]
          BY <2>1 DEF TelemetryInv, NothingInvented, Genuine, Owes
        <5> QED BY <5>1, <5>2, <5>3
      <4>2. CASE <<day, id>> # Key(p)
        <5>1. usage'[<<day, id>>] = usage[<<day, id>>]
          BY <1>1, <2>1, <4>2
        <5> QED BY <1>5, <3>1, <5>1
      <4> QED BY <4>1, <4>2
    <3> QED BY <1>6, <2>1, <3>1 DEF Recent
  <2> QED BY <2>4, <2>5, <2>6
<1>12. CASE Purge
  <2>1. usage' = usage /\ wire' = wire /\ receipts' = {k \in receipts : k[1] + ReceiptDays >= today} /\ today' = today
    BY <1>12 DEF Purge
  <2>2. ASSUME NEW day \in Days, NEW id \in Ids, Recent(day)'
        PROVE  <<day, id>> \in receipts <=> <<day, id>> \in receipts'
    BY <1>3, <2>1, <2>2 DEF Recent
  <2> QED BY <1>9, <2>1, <2>2
<1>13. CASE Enable \/ Disable \/ Record \/ NextDay
  <2>1. backend' = backend /\ wire' = wire
    BY <1>13 DEF Enable, Disable, Record, NextDay, backend
  <2> QED BY <1>9, <2>1 DEF backend
<1>14. ASSUME NEW p \in Procs, Flush(p) \/ Drop(p)
       PROVE  ReceiptFirst' /\ OwedOnce' /\ UsageNeverInflated'
  <2>1. backend' = backend
    BY <1>14 DEF Flush, FlushNothing, FlushSend, FlushFails, FlushWrites, Drop, backend
  <2>2. \A q \in Procs : wire'[q].pc = "receipted" => wire'[q] = wire[q]
    BY <1>1, <1>14 DEF Flush, FlushNothing, FlushSend, FlushFails, FlushWrites, Drop, NoRequest
  <2> QED BY <1>9, <2>1, <2>2 DEF backend
<1> QED BY <1>10, <1>11, <1>12, <1>13, <1>14 DEF TelemetryNext, Ingest

-----------------------------------------------------------------------------
\* Every step of the client, of a request or of the backend keeps the invariant.
LEMMA TelemetryStep == TelemetryInv /\ [TelemetryNext]_telemetryVars => TelemetryInv'
<1>1. ASSUME TelemetryInv, TelemetryNext PROVE TelemetryInv'
  <2>1. TelemetryTypeOK' /\ ReceiptFirst' /\ OwedOnce' /\ UsageNeverInflated'
    BY <1>1, TelemetryTypeStep, BackendStep
  <2>2. NothingInvented'
    BY <1>1, FileStep, HeldStep, WireStep DEF NothingInvented
  <2>3. MonthsKept'
    BY <1>1, FileStep, HeldStep DEF MonthsKept
  <2> QED BY <2>1, <2>2, <2>3 DEF TelemetryInv
<1>2. ASSUME TelemetryInv, UNCHANGED telemetryVars PROVE TelemetryInv'
  BY <1>2 DEF telemetryVars, backend, TelemetryInv, TelemetryTypeOK, NothingInvented, Genuine,
              Counted, Recent, ReceiptFirst, OwedOnce, Owes, Key, UsageNeverInflated, MonthsKept, OfItsMonth
<1> QED BY <1>1, <1>2

\* The invariant of the telemetry client and its backend.
LEMMA TelemetryInvHolds == TelemetrySpec => []TelemetryInv
BY TelemetryStarts, TelemetryStep, PTL DEF TelemetrySpec

\* Every variable of the telemetry client and its backend has its type.
THEOREM TelemetryTypes == TelemetrySpec => []TelemetryTypeOK
<1>1. TelemetryInv => TelemetryTypeOK BY DEF TelemetryInv
<1> QED BY <1>1, TelemetryInvHolds, PTL

\* However flushes of several processes overlap, time out or write an old file back,
\* and whenever the cron purges, the backend counts no day of an id higher than the
\* calls the user really made, as long as the receipts of that day are kept.
THEOREM UsageIsGenuine == TelemetrySpec => []UsageNeverInflated
<1>1. TelemetryInv => UsageNeverInflated BY DEF TelemetryInv
<1> QED BY <1>1, TelemetryInvHolds, PTL

\* Every flush is sent under an id minted in its own calendar month, so that no id
\* connects two months, whatever older file another process has written back.
THEOREM IdsLastAMonth == TelemetrySpec => IdResetsMonthly
<1> DEFINE Sends == \A p \in Procs : wire[p].pc = "none" /\ wire'[p].pc = "sent" =>
                        mintedFor'[wire'[p].id] = Month(today)
<1>1. ASSUME TelemetryInv, [TelemetryNext]_telemetryVars PROVE [Sends]_telemetryVars
  <2>1. ASSUME NEW p \in Procs, wire[p].pc = "none", wire'[p].pc = "sent", TelemetryNext
        PROVE  mintedFor'[wire'[p].id] = Month(today)
    <3>1. wire \in [Procs -> [pc : {"none", "sent", "receipted", "accepted"}, day : Days \cup {NoDay},
                            id : Ids \cup {NoId}, count : 0 .. MaxCount]]
      BY <1>1 DEF TelemetryInv, TelemetryTypeOK
    <3>2. ASSUME NEW q \in Procs, FlushNothing(q) \/ FlushFails(q) \/ FlushWrites(q) \/ Ingest(q)
          PROVE  FALSE
      BY <2>1, <3>1, <3>2
         DEF FlushNothing, FlushFails, FlushWrites, Ingest, Receipt, AddUsage, Drop, NoRequest
    <3>3. ~(Enable \/ Disable \/ Record \/ Purge \/ NextDay)
      BY <2>1 DEF Enable, Disable, Record, Purge, NextDay
    <3>4. PICK q \in Procs : FlushSend(q)
      BY <2>1, <3>2, <3>3 DEF TelemetryNext, Flush
    <3>5. q = p /\ wire'[p].id = Ensured(file, today).id /\ Mint(Ensured(file, today))
      BY <2>1, <3>1, <3>4 DEF FlushSend
    <3>6. file \in States /\ OfItsMonth(file, mintedFor)
      BY <1>1 DEF TelemetryInv, TelemetryTypeOK, MonthsKept
    <3> QED BY <1>1, <3>5, <3>6, EnsuredFacts DEF TelemetryInv
  <2> QED BY <1>1, <2>1
<1> QED BY <1>1, TelemetryInvHolds, PTL DEF TelemetrySpec, IdResetsMonthly

-----------------------------------------------------------------------------
(***************************************************************************)
(* The update check: any number of processes and versions, any soak        *)
(***************************************************************************)
\* What a process keeps of its check, in each of its stages.
Fetchings ==
    [pc : {"fetching", "served"}, kind : {"start", "check", "update"}, read : FileType,
     current : Versions, began : 1 .. now, latest : 0 .. MaxVersion,
     willing : BOOLEAN, mixed : BOOLEAN]
Decidings ==
    [pc : {"deciding"}, kind : {"start", "check", "update"}, latest : Versions, current : Versions,
     willing : BOOLEAN, mixed : BOOLEAN]
Installings == [pc : {"installing"}, latest : Versions]

Typed ==
    /\ now \in 1 .. MaxTime
    /\ {published, installed} \subseteq Versions
    /\ saved \in FileType
    /\ process \in [Processes -> {Idle} \cup Fetchings \cup Decidings \cup Installings]
    /\ \A p \in Processes : process[p].pc = "served" => process[p].latest # 0
    /\ known \in [Versions -> 0 .. now]
    /\ {choice, reverted, hasty} \subseteq BOOLEAN

\* A word on silent updates that is on is the user's, or one a check brought back.
WordKept ==
    /\ saved.auto => Willing
    /\ \A p \in Processes : Out(p) /\ process[p].read.auto => Willing /\ process[p].willing
    /\ \A p \in Processes :
        process[p].pc = "deciding" /\ process[p].kind = "start" => process[p].willing

\* A file that names a version says since when, and that is not before a check first
\* heard of it.
Aged(s) ==
    /\ s.latest # 0 => s.seen # 0
    /\ s.latest # 0 => known[s.latest] # 0 /\ known[s.latest] <= s.seen

AgesKnown == Aged(saved) /\ \A p \in Processes : Out(p) => Aged(process[p].read)

\* Unless told so, a process decides on the version and age in the file.
FileStill ==
    \A p \in Processes :
        /\ Out(p) /\ ~process[p].mixed => /\ saved.latest = process[p].read.latest
                                          /\ saved.seen = process[p].read.seen
        /\ process[p].pc = "deciding" /\ ~process[p].mixed => saved.latest = process[p].latest

UpdateInv == Typed /\ WordKept /\ AgesKnown /\ FileStill /\ SilentUpdatesAsAsked

-----------------------------------------------------------------------------
\* The days counted from 1 follow the clock.
LEMMA DayNotLater ==
    ASSUME NEW a \in Nat, NEW b \in Nat, a <= b
    PROVE  1 + (a \div Day) \in 0 .. 1 + (b \div Day)
BY BoundsAssumption

\* What the stage of a process says of it.
LEMMA StageOf ==
    ASSUME Typed, NEW p \in Processes
    PROVE  /\ Out(p) => process[p] \in Fetchings
           /\ process[p].pc = "deciding" => process[p] \in Decidings
           /\ process[p].pc = "installing" => process[p] \in Installings
<1>1. process[p] \in {Idle} \cup Fetchings \cup Decidings \cup Installings
  BY DEF Typed
<1>2. \A s \in Fetchings : s.pc \in {"fetching", "served"}
  BY DEF Fetchings
<1>3. \A s \in Decidings : s.pc = "deciding"
  BY DEF Decidings
<1>4. \A s \in Installings : s.pc = "installing"
  BY DEF Installings
<1>5. Idle.pc = "idle"
  BY DEF Idle
<1> QED BY <1>1, <1>2, <1>3, <1>4, <1>5 DEF Out

\* A fresh install has no state file and no check at work.
LEMMA UpdateStarts == UpdateInit => UpdateInv
<1> SUFFICES ASSUME UpdateInit PROVE UpdateInv
  OBVIOUS
<1>1. now = 1 /\ now \in 1 .. MaxTime /\ 1 \in Versions /\ Today \in Nat
  BY BoundsAssumption DEF UpdateInit, Versions, Today
<1>2. saved \in FileType
  BY <1>1, BoundsAssumption DEF UpdateInit, NoState, FileType
<1>3. \A p \in Processes : process[p] = Idle /\ process[p].pc = "idle" /\ ~Out(p)
  BY DEF UpdateInit, Idle, Out
<1>4. known \in [Versions -> 0 .. now]
  BY <1>1 DEF UpdateInit
<1>5. Typed
  BY <1>1, <1>2, <1>3, <1>4 DEF UpdateInit, Typed
<1>7. AgesKnown
  BY <1>3 DEF UpdateInit, AgesKnown, Aged, NoState
<1>8. WordKept /\ FileStill /\ SilentUpdatesAsAsked
  BY <1>3 DEF UpdateInit, WordKept, FileStill, SilentUpdatesAsAsked, NoState
<1> QED BY <1>5, <1>7, <1>8 DEF UpdateInv

\* As time goes on, what was a file stays one.
LEMMA TypesGrow ==
    ASSUME now \in 1 .. MaxTime, now' \in 1 .. MaxTime, now <= now'
    PROVE  FileType \subseteq FileType' /\ Fetchings \subseteq Fetchings'
<1>1. now \in Nat /\ now' \in Nat
  BY BoundsAssumption
<1>2. Today \in Nat /\ Today' \in Nat /\ Today <= Today'
  BY <1>1, BoundsAssumption, DayNotLater DEF Today
<1>3. FileType \subseteq FileType'
  BY <1>1, <1>2 DEF FileType
<1>4. 1 .. now \subseteq 1 .. now'
  BY <1>1
<1> QED BY <1>3, <1>4 DEF Fetchings

\* What each stage of a check keeps implies the types.
LEMMA TypesFollow == Typed => UpdateTypeOK
<1> SUFFICES ASSUME Typed PROVE UpdateTypeOK
  OBVIOUS
<1>1. ASSUME NEW p \in Processes
      PROVE  /\ process[p].pc \in {"idle", "fetching", "served", "deciding", "installing"}
             /\ Out(p) => process[p].read \in FileType /\ process[p].began \in 1 .. now
             /\ process[p].pc \in {"deciding", "installing"} => process[p].latest \in Versions
  BY StageOf DEF Typed, Idle, Fetchings, Decidings, Installings
<1> QED BY <1>1 DEF Typed, UpdateTypeOK

\* A check that comes back, with a version or without.
LEMMA ReturnedStage ==
    ASSUME Typed, NEW p \in Processes, Out(p), NEW latest \in 0 .. MaxVersion
    PROVE  Returned(p, latest) \in {Idle} \cup Decidings
<1>1. process[p] \in Fetchings
  BY StageOf
<1>2. latest # 0 => latest \in Versions
  BY BoundsAssumption DEF Versions
<1> QED BY <1>1, <1>2 DEF Returned, Deciding, Decidings, Fetchings

\* What the write after a fetch leaves in the file.
LEMMA RecordedFile ==
    ASSUME Typed, NEW p \in Processes, WriteBack(p)
    PROVE  /\ process[p] \in Fetchings
           /\ process[p].latest \in Versions
           /\ FirstSeen(p) \in 1 .. now
           /\ saved' = [day |-> DayOfCheck(p), latest |-> process[p].latest, seen |-> FirstSeen(p),
                        auto |-> process[p].read.auto]
           /\ saved' \in FileType
           /\ known' = [known EXCEPT ![process[p].latest] =
                          IF @ = 0 \/ process[p].began < @ THEN process[p].began ELSE @]
<1>1. process[p] \in Fetchings /\ process[p].pc = "served"
  BY StageOf DEF WriteBack, Out
<1>2. /\ process[p].read \in FileType /\ process[p].began \in 1 .. now /\ now \in Nat
      /\ process[p].latest \in Versions
  <2>1. process[p].read \in FileType /\ process[p].began \in 1 .. now
        /\ process[p].latest \in 0 .. MaxVersion
    BY <1>1 DEF Fetchings
  <2>2. process[p].latest # 0
    BY <1>1 DEF Typed
  <2>3. now \in Nat
    BY BoundsAssumption DEF Typed
  <2> QED BY <2>1, <2>2, <2>3, BoundsAssumption DEF Versions
<1>3. DayOfCheck(p) \in 0 .. Today
  BY <1>2, DayNotLater DEF DayOfCheck, Today
<1>4. FirstSeen(p) \in 1 .. now
  BY <1>2 DEF FirstSeen, FileType
<1>5. saved' = [day |-> DayOfCheck(p), latest |-> process[p].latest, seen |-> FirstSeen(p),
                auto |-> process[p].read.auto]
  BY <1>2 DEF WriteBack, FileType
<1>6. saved' \in FileType
  BY <1>2, <1>3, <1>4, <1>5, BoundsAssumption DEF FileType, Versions
<1> QED BY <1>1, <1>2, <1>4, <1>5, <1>6 DEF WriteBack

\* A write under a process at work changes nothing of it but what is noted of it.
LEMMA DisturbedStages ==
    ASSUME Typed, NEW p \in Processes
    PROVE  /\ Disturbed(p) \in [Processes -> {Idle} \cup Fetchings \cup Decidings \cup Installings]
           /\ \A q \in Processes \ {p} :
                /\ Disturbed(p)[q].pc = process[q].pc
                /\ process[q].pc \in {"fetching", "served", "deciding"} =>
                        Disturbed(p)[q] = [process[q] EXCEPT !.mixed = TRUE]
<1> DEFINE Stages == {Idle} \cup Fetchings \cup Decidings \cup Installings
<1>1. ASSUME NEW q \in Processes
      PROVE  /\ process[q] \in Stages
             /\ process[q].pc \in {"idle", "fetching", "served", "deciding", "installing"}
             /\ Disturbed(p)[q] = IF q = p \/ process[q].pc \in {"idle", "installing"} THEN process[q]
                                  ELSE [process[q] EXCEPT !.mixed = TRUE]
  BY TypesFollow DEF Disturbed, Typed, UpdateTypeOK
<1>2. ASSUME NEW s \in Fetchings
      PROVE [s EXCEPT !.mixed = TRUE] \in Fetchings /\ [s EXCEPT !.mixed = TRUE].pc = s.pc
  BY DEF Fetchings
<1>3. ASSUME NEW s \in Decidings
      PROVE [s EXCEPT !.mixed = TRUE] \in Decidings /\ [s EXCEPT !.mixed = TRUE].pc = s.pc
  BY DEF Decidings
<1>4. ASSUME NEW q \in Processes
      PROVE  Disturbed(p)[q] \in Stages /\ Disturbed(p)[q].pc = process[q].pc
  BY <1>1, <1>2, <1>3, StageOf DEF Out
<1>5. Disturbed(p) \in [Processes -> Stages]
  BY <1>4 DEF Disturbed
<1> QED BY <1>1, <1>4, <1>5

\* Every step keeps the stages and their types.
LEMMA TypedStep == Typed /\ UpdateNext => Typed'
<1> SUFFICES ASSUME Typed, UpdateNext PROVE Typed'
  OBVIOUS
<1> DEFINE Stages == {Idle} \cup Fetchings \cup Decidings \cup Installings
           Answered(procs) == \A p \in Processes : procs[p].pc = "served" => procs[p].latest # 0
<1>1. /\ process \in [Processes -> Stages] /\ Answered(process)
      /\ now \in 1 .. MaxTime /\ now \in Nat /\ {published, installed} \subseteq Versions
      /\ saved \in FileType /\ known \in [Versions -> 0 .. now]
      /\ {choice, reverted, hasty} \subseteq BOOLEAN /\ saved.auto \in BOOLEAN
      /\ saved.latest \in 0 .. MaxVersion
  BY BoundsAssumption DEF Typed, FileType
<1>2. Idle \in Stages /\ Idle.pc = "idle"
  BY DEF Idle
<1>3. ASSUME now' = now
      PROVE  FileType' = FileType /\ Fetchings' = Fetchings
  BY <1>3 DEF FileType, Fetchings, Today
<1>4. Decidings' = Decidings /\ Installings' = Installings
  BY DEF Decidings, Installings
<1>5. ASSUME NEW p \in Processes, NEW kind \in {"start", "check", "update"}, Begin(p, kind)
      PROVE  Typed'
  <2>1. UNCHANGED <<now, published, installed, saved, choice, reverted, known, hasty>>
    BY <1>5 DEF Begin
  <2>2. 0 \in 0 .. MaxVersion /\ now \in 1 .. now /\ Willing \in BOOLEAN
    BY <1>1, BoundsAssumption DEF Willing
  <2>3. Fetching(kind) \in Fetchings /\ Fetching(kind).pc = "fetching"
    BY <1>1, <2>2 DEF Fetching, Fetchings
  <2>4. ASSUME ~NeedsFetch(kind)
        PROVE  /\ Deciding(kind, saved.latest, installed, Willing, FALSE) \in Decidings
               /\ Deciding(kind, saved.latest, installed, Willing, FALSE).pc = "deciding"
    <3>1. saved.latest \in Versions
      BY <1>1, <2>4, BoundsAssumption DEF NeedsFetch, Versions
    <3> QED BY <1>1, <2>2, <3>1 DEF Deciding, Decidings
  <2>5. PICK s \in Stages : process' = [process EXCEPT ![p] = s] /\ s.pc # "served"
    BY <1>5, <2>3, <2>4 DEF Begin
  <2>6. process' \in [Processes -> Stages] /\ Answered(process')
    BY <1>1, <2>5
  <2> QED BY <1>1, <1>3, <1>4, <2>1, <2>6 DEF Typed
<1>6. ASSUME NEW p \in Processes, Serve(p)
      PROVE  Typed'
  <2>1. UNCHANGED <<now, published, installed, saved, choice, reverted, known, hasty>>
    BY <1>6 DEF Serve
  <2>2. process[p] \in Fetchings
    BY <1>6, StageOf DEF Serve, Out
  <2>3. published \in 0 .. MaxVersion /\ published # 0
    BY <1>1, BoundsAssumption DEF Versions
  <2> DEFINE served == [process[p] EXCEPT !.pc = "served", !.latest = published]
  <2>4. served \in Fetchings /\ served.latest = published
    BY <2>2, <2>3 DEF Fetchings
  <2>5. process' = [process EXCEPT ![p] = served]
    BY <1>1, <1>6 DEF Serve
  <2> HIDE DEF served
  <2>6. process' \in [Processes -> Stages] /\ Answered(process')
    BY <1>1, <2>3, <2>4, <2>5
  <2> QED BY <1>1, <1>3, <1>4, <2>1, <2>6 DEF Typed
<1>7. ASSUME NEW p \in Processes, WriteBack(p)
      PROVE  Typed'
  <2>1. UNCHANGED <<now, published, installed, choice, reverted, hasty>>
    BY <1>7 DEF WriteBack
  <2> DEFINE after == Returned(p, process[p].latest)
  <2>2. after \in {Idle} \cup Decidings
    <3>1. Out(p) /\ process[p].latest \in 0 .. MaxVersion
      BY <1>7, RecordedFile DEF WriteBack, Out, Fetchings
    <3> QED BY <3>1, ReturnedStage
  <2>3. process' = [Disturbed(p) EXCEPT ![p] = after]
    BY <1>7 DEF WriteBack
  <2> HIDE DEF after
  <2>4. after \in Stages /\ after.pc # "served"
    BY <1>2, <2>2 DEF Decidings
  <2>5. process' \in [Processes -> Stages]
    BY <2>3, <2>4, DisturbedStages
  <2>6. Answered(process')
    <3> SUFFICES ASSUME NEW q \in Processes, process'[q].pc = "served" PROVE process'[q].latest # 0
      OBVIOUS
    <3>1. q # p /\ process'[q] = Disturbed(p)[q] /\ process[q].pc = "served"
      BY <2>3, <2>4, DisturbedStages
    <3>2. process'[q] = [process[q] EXCEPT !.mixed = TRUE] /\ process[q] \in Fetchings
      BY <3>1, DisturbedStages, StageOf DEF Out
    <3>3. process'[q].latest = process[q].latest
      BY <3>2 DEF Fetchings
    <3> QED BY <1>1, <3>1, <3>3
  <2>7. known' \in [Versions -> 0 .. now]
    <3>1. process[p].began \in 0 .. now /\ process[p].latest \in Versions
      BY <1>1, <1>7, RecordedFile DEF Fetchings
    <3> QED BY <1>1, <1>7, <3>1, RecordedFile
  <2>8. saved' \in FileType
    BY <1>7, RecordedFile
  <2> QED BY <1>1, <1>3, <1>4, <2>1, <2>5, <2>6, <2>7, <2>8 DEF Typed
<1>8. ASSUME NEW p \in Processes, FetchFails(p)
      PROVE  Typed'
  <2>1. UNCHANGED <<now, published, installed, saved, choice, reverted, known, hasty>>
    BY <1>8 DEF FetchFails
  <2> DEFINE after == Returned(p, process[p].read.latest)
  <2>2. process[p].read.latest \in 0 .. MaxVersion
    BY <1>8, StageOf DEF FetchFails, Fetchings, FileType
  <2>3. after \in {Idle} \cup Decidings
    BY <1>8, <2>2, ReturnedStage DEF FetchFails
  <2>4. process' = [process EXCEPT ![p] = after]
    BY <1>8 DEF FetchFails
  <2> HIDE DEF after
  <2>5. after \in Stages /\ after.pc # "served"
    BY <1>2, <2>3 DEF Decidings
  <2>6. process' \in [Processes -> Stages] /\ Answered(process')
    BY <1>1, <2>4, <2>5
  <2> QED BY <1>1, <1>3, <1>4, <2>1, <2>6 DEF Typed
<1>9. ASSUME NEW p \in Processes, Decide(p)
      PROVE  Typed'
  <2>1. UNCHANGED <<now, published, installed, saved, choice, reverted, known>>
    BY <1>9 DEF Decide
  <2>2. hasty' \in BOOLEAN
    BY <1>1, <1>9 DEF Decide
  <2>3. process[p].latest \in Versions
    BY <1>9, StageOf DEF Decide, Decidings
  <2>4. [pc |-> "installing", latest |-> process[p].latest] \in Installings
    BY <2>3 DEF Installings
  <2> DEFINE installing == [pc |-> "installing", latest |-> process[p].latest]
  <2>5. PICK s \in Stages : process' = [process EXCEPT ![p] = s] /\ s.pc # "served"
    <3>1. \/ process' = [process EXCEPT ![p] = installing]
          \/ process' = [process EXCEPT ![p] = Idle]
      BY <1>9 DEF Decide
    <3>2. installing \in Stages /\ installing.pc = "installing"
      BY <2>4
    <3> QED BY <1>2, <3>1, <3>2
  <2>6. process' \in [Processes -> Stages] /\ Answered(process')
    BY <1>1, <2>5
  <2> QED BY <1>1, <1>3, <1>4, <2>1, <2>2, <2>6 DEF Typed
<1>10. ASSUME NEW p \in Processes, InstallEnds(p)
       PROVE  Typed'
  <2>1. UNCHANGED <<now, published, saved, choice, reverted, known, hasty>>
    BY <1>10 DEF InstallEnds
  <2>2. installed' \in Versions
    BY <1>1, <1>10, StageOf DEF InstallEnds, Installings
  <2>3. process' = [process EXCEPT ![p] = Idle]
    BY <1>10 DEF InstallEnds
  <2>4. process' \in [Processes -> Stages] /\ Answered(process')
    BY <1>1, <1>2, <2>3
  <2> QED BY <1>1, <1>3, <1>4, <2>1, <2>2, <2>4 DEF Typed
<1>11. ASSUME NEW enabled \in BOOLEAN, SetAutoUpdate(enabled)
       PROVE  Typed'
  <2>1. UNCHANGED <<now, published, installed, process, known, hasty>>
    BY <1>11 DEF SetAutoUpdate
  <2>2. saved' \in FileType
    BY <1>1, <1>11 DEF SetAutoUpdate, FileType
  <2>3. choice' \in BOOLEAN /\ reverted' \in BOOLEAN
    BY <1>11 DEF SetAutoUpdate
  <2> QED BY <1>1, <1>3, <1>4, <2>1, <2>2, <2>3 DEF Typed
<1>12. ASSUME NEW version \in Versions, Publish(version)
       PROVE  Typed'
  <2>1. UNCHANGED <<now, installed, saved, process, choice, reverted, known, hasty>>
        /\ published' \in Versions
    BY <1>12 DEF Publish
  <2> QED BY <1>1, <1>3, <1>4, <2>1 DEF Typed
<1>13. ASSUME TimePasses
       PROVE  Typed'
  <2>1. UNCHANGED <<published, installed, saved, process, choice, reverted, known, hasty>>
    BY <1>13 DEF TimePasses
  <2>2. now' \in 1 .. MaxTime /\ now <= now' /\ 0 .. now \subseteq 0 .. now'
    BY <1>1, <1>13, BoundsAssumption DEF TimePasses
  <2>3. FileType \subseteq FileType' /\ Fetchings \subseteq Fetchings'
    BY <1>1, <2>2, TypesGrow
  <2>4. process' \in [Processes -> {Idle} \cup Fetchings' \cup Decidings \cup Installings]
    BY <1>1, <2>1, <2>3
  <2>5. known' \in [Versions -> 0 .. now'] /\ saved' \in FileType'
    BY <1>1, <2>1, <2>2, <2>3
  <2> QED BY <1>1, <1>4, <2>1, <2>2, <2>4, <2>5 DEF Typed
<1> QED BY <1>5, <1>6, <1>7, <1>8, <1>9, <1>10, <1>11, <1>12, <1>13 DEF UpdateNext

\* A check that is out has just read the file, or is one that was out already and
\* knows whether the file has changed since.
LEMMA OutStep ==
    ASSUME Typed, UpdateNext, NEW q \in Processes, Out(q)'
    PROVE  \/ /\ process'[q].read = saved /\ saved' = saved
              /\ process'[q].willing = Willing /\ Willing' = Willing
              /\ ~process'[q].mixed
           \/ /\ Out(q)
              /\ process'[q].read = process[q].read /\ process'[q].willing = process[q].willing
              /\ \/ process'[q].mixed
                 \/ /\ process'[q].mixed = process[q].mixed
                    /\ saved'.latest = saved.latest /\ saved'.seen = saved.seen
<1> DEFINE Stages == {Idle} \cup Fetchings \cup Decidings \cup Installings
           Begun == /\ process'[q].read = saved /\ saved' = saved
                    /\ process'[q].willing = Willing /\ Willing' = Willing
                    /\ ~process'[q].mixed
           Stays == /\ Out(q)
                    /\ process'[q].read = process[q].read /\ process'[q].willing = process[q].willing
                    /\ \/ process'[q].mixed
                       \/ /\ process'[q].mixed = process[q].mixed
                          /\ saved'.latest = saved.latest /\ saved'.seen = saved.seen
<1>1. process \in [Processes -> Stages] /\ saved \in FileType
  BY DEF Typed
<1>2. ASSUME process'[q] = process[q], saved'.latest = saved.latest, saved'.seen = saved.seen
      PROVE  Stays
  BY <1>2 DEF Out
<1>3. ASSUME NEW p \in Processes, NEW s, process' = [process EXCEPT ![p] = s],
             s.pc \notin {"fetching", "served"}, saved' = saved
      PROVE  Stays
  <2>1. q # p
    BY <1>1, <1>3 DEF Out
  <2> QED BY <1>1, <1>2, <1>3, <2>1
<1>4. ASSUME NEW p \in Processes, NEW kind \in {"start", "check", "update"}, Begin(p, kind)
      PROVE  Begun \/ Stays
  <2>1. saved' = saved /\ Willing' = Willing
    BY <1>4 DEF Begin, Willing
  <2>2. CASE NeedsFetch(kind) /\ q = p
    BY <1>1, <1>4, <2>1, <2>2 DEF Begin, Fetching
  <2>3. CASE q # p
    BY <1>1, <1>2, <1>4, <2>1, <2>3 DEF Begin
  <2>4. CASE ~NeedsFetch(kind)
    BY <1>3, <1>4, <2>1, <2>4 DEF Begin, Deciding
  <2> QED BY <2>2, <2>3, <2>4
<1>5. ASSUME NEW p \in Processes, Serve(p)
      PROVE  Stays
  <2>1. CASE q = p
    <3>1. process[p] \in Fetchings
      BY <1>5, StageOf DEF Serve, Out
    <3> QED BY <1>1, <1>5, <2>1, <3>1 DEF Serve, Out, Fetchings
  <2>2. CASE q # p
    BY <1>1, <1>2, <1>5, <2>2 DEF Serve
  <2> QED BY <2>1, <2>2
<1>6. ASSUME NEW p \in Processes, WriteBack(p)
      PROVE  Stays
  <2>1. process' = [Disturbed(p) EXCEPT ![p] = Returned(p, process[p].latest)]
    BY <1>6 DEF WriteBack
  <2>2. Returned(p, process[p].latest).pc \in {"idle", "deciding"}
    BY DEF Returned, Deciding, Idle
  <2>3. q # p /\ process'[q] = Disturbed(p)[q] /\ process[q].pc \in {"fetching", "served"}
    BY <2>1, <2>2, DisturbedStages DEF Out
  <2>4. process'[q] = [process[q] EXCEPT !.mixed = TRUE] /\ process[q] \in Fetchings
    BY <2>3, DisturbedStages, StageOf DEF Out
  <2> QED BY <2>3, <2>4 DEF Out, Fetchings
<1>7. ASSUME NEW p \in Processes, FetchFails(p)
      PROVE  Stays
  <2>1. Returned(p, process[p].read.latest).pc \in {"idle", "deciding"}
    BY DEF Returned, Deciding, Idle
  <2> QED BY <1>3, <1>7, <2>1 DEF FetchFails
<1>8. ASSUME NEW p \in Processes, Decide(p)
      PROVE  Stays
  <2> DEFINE installing == [pc |-> "installing", latest |-> process[p].latest]
  <2>1. \/ process' = [process EXCEPT ![p] = installing]
        \/ process' = [process EXCEPT ![p] = Idle]
    BY <1>8 DEF Decide
  <2>2. saved' = saved /\ Idle.pc = "idle" /\ installing.pc = "installing"
    BY <1>8 DEF Decide, Idle
  <2> QED BY <1>3, <2>1, <2>2
<1>9. ASSUME NEW p \in Processes, InstallEnds(p)
      PROVE  Stays
  BY <1>3, <1>9 DEF InstallEnds, Idle
<1>10. ASSUME NEW enabled \in BOOLEAN, SetAutoUpdate(enabled)
       PROVE  Stays
  <2>1. saved'.latest = saved.latest /\ saved'.seen = saved.seen /\ process' = process
    BY <1>1, <1>10 DEF SetAutoUpdate, FileType
  <2> QED BY <1>2, <2>1
<1>11. CASE TimePasses \/ \E version \in Versions : Publish(version)
  BY <1>2, <1>11 DEF TimePasses, Publish
<1> QED BY <1>4, <1>5, <1>6, <1>7, <1>8, <1>9, <1>10, <1>11 DEF UpdateNext

\* A process that decides did so already, or has begun on the file as it is, or its
\* check has come back: with the version the file now names, or with the one it read.
LEMMA DecidingStep ==
    ASSUME Typed, UpdateNext, NEW q \in Processes, process'[q].pc = "deciding"
    PROVE  \/ /\ process[q].pc = "deciding"
              /\ process'[q].kind = process[q].kind /\ process'[q].latest = process[q].latest
              /\ process'[q].willing = process[q].willing
              /\ \/ process'[q].mixed
                 \/ process'[q].mixed = process[q].mixed /\ saved'.latest = saved.latest
           \/ /\ saved' = saved /\ process'[q].latest = saved.latest
              /\ process'[q].willing = Willing
              /\ process'[q].kind = "start" => saved.auto
           \/ /\ Out(q)
              /\ process'[q].willing = process[q].willing /\ process'[q].mixed = process[q].mixed
              /\ process'[q].kind = "start" => process[q].read.auto
              /\ \/ saved'.latest = process'[q].latest
                 \/ saved' = saved /\ process'[q].latest = process[q].read.latest
<1> DEFINE Stages == {Idle} \cup Fetchings \cup Decidings \cup Installings
           Already == /\ process[q].pc = "deciding"
                      /\ process'[q].kind = process[q].kind /\ process'[q].latest = process[q].latest
                      /\ process'[q].willing = process[q].willing
                      /\ \/ process'[q].mixed
                         \/ process'[q].mixed = process[q].mixed /\ saved'.latest = saved.latest
           Begun == /\ saved' = saved /\ process'[q].latest = saved.latest
                    /\ process'[q].willing = Willing
                    /\ process'[q].kind = "start" => saved.auto
           Back == /\ Out(q)
                   /\ process'[q].willing = process[q].willing /\ process'[q].mixed = process[q].mixed
                   /\ process'[q].kind = "start" => process[q].read.auto
                   /\ \/ saved'.latest = process'[q].latest
                      \/ saved' = saved /\ process'[q].latest = process[q].read.latest
<1>1. process \in [Processes -> Stages] /\ saved \in FileType
  BY DEF Typed
<1>2. ASSUME process'[q] = process[q], saved'.latest = saved.latest
      PROVE  Already
  BY <1>2
<1>3. ASSUME NEW p \in Processes, NEW s, process' = [process EXCEPT ![p] = s],
             s.pc # "deciding", saved' = saved
      PROVE  Already
  <2>1. q # p
    BY <1>1, <1>3
  <2> QED BY <1>1, <1>2, <1>3, <2>1
<1>4. ASSUME NEW p \in Processes, NEW kind \in {"start", "check", "update"}, Begin(p, kind)
      PROVE  Begun \/ Already
  <2>1. saved' = saved
    BY <1>4 DEF Begin
  <2>2. CASE ~NeedsFetch(kind) /\ q = p
    <3>1. kind = "start" /\ saved.auto
      BY <1>4, <2>2 DEF Begin, NeedsFetch, Installs
    <3> QED BY <1>1, <1>4, <2>1, <2>2, <3>1 DEF Begin, Deciding
  <2>3. CASE q # p
    BY <1>1, <1>2, <1>4, <2>1, <2>3 DEF Begin
  <2>4. CASE NeedsFetch(kind)
    <3>1. process' = [process EXCEPT ![p] = Fetching(kind)]
      BY <1>4, <2>4 DEF Begin
    <3>2. Fetching(kind).pc = "fetching"
      BY DEF Fetching
    <3> QED BY <1>3, <2>1, <3>1, <3>2
  <2> QED BY <2>2, <2>3, <2>4
<1>5. ASSUME NEW p \in Processes, Serve(p)
      PROVE  Already
  <2>1. process[p] \in Fetchings
    BY <1>5, StageOf DEF Serve, Out
  <2>2. q # p
    BY <1>1, <1>5, <2>1 DEF Serve, Fetchings
  <2> QED BY <1>1, <1>2, <1>5, <2>2 DEF Serve
<1>6. ASSUME NEW p \in Processes, NEW latest, Returned(p, latest).pc = "deciding"
      PROVE  /\ Returned(p, latest).latest = latest
             /\ Returned(p, latest).willing = process[p].willing
             /\ Returned(p, latest).mixed = process[p].mixed
             /\ Returned(p, latest).kind = "start" => process[p].read.auto
  BY <1>6 DEF Returned, Deciding, Idle, Installs
<1>7. ASSUME NEW p \in Processes, WriteBack(p)
      PROVE  Back \/ Already
  <2>1. process' = [Disturbed(p) EXCEPT ![p] = Returned(p, process[p].latest)]
    BY <1>7 DEF WriteBack
  <2>2. saved'.latest = process[p].latest /\ Out(p)
    <3>1. saved'.latest = process[p].latest
      BY <1>7, RecordedFile
    <3>2. Out(p)
      BY <1>7 DEF WriteBack, Out
    <3> QED BY <3>1, <3>2
  <2>3. CASE q = p
    <3>1. process'[q] = Returned(p, process[p].latest)
      BY <2>1, <2>3, DisturbedStages
    <3> QED BY <1>6, <2>2, <2>3, <3>1
  <2>4. CASE q # p
    <3>1. process'[q] = Disturbed(p)[q] /\ process[q].pc = "deciding"
      BY <2>1, <2>4, DisturbedStages
    <3>2. process'[q] = [process[q] EXCEPT !.mixed = TRUE] /\ process[q] \in Decidings
      BY <2>4, <3>1, DisturbedStages, StageOf
    <3> QED BY <3>1, <3>2 DEF Decidings
  <2> QED BY <2>3, <2>4
<1>8. ASSUME NEW p \in Processes, FetchFails(p)
      PROVE  Back \/ Already
  <2>1. process' = [process EXCEPT ![p] = Returned(p, process[p].read.latest)] /\ saved' = saved /\ Out(p)
    BY <1>8 DEF FetchFails
  <2>2. CASE q = p
    <3>1. process'[q] = Returned(p, process[p].read.latest)
      BY <1>1, <2>1, <2>2
    <3> QED BY <1>6, <2>1, <2>2, <3>1
  <2>3. CASE q # p
    BY <1>1, <1>2, <2>1, <2>3
  <2> QED BY <2>2, <2>3
<1>9. ASSUME NEW p \in Processes, Decide(p)
      PROVE  Already
  <2> DEFINE installing == [pc |-> "installing", latest |-> process[p].latest]
  <2>1. \/ process' = [process EXCEPT ![p] = installing]
        \/ process' = [process EXCEPT ![p] = Idle]
    BY <1>9 DEF Decide
  <2>2. saved' = saved /\ Idle.pc = "idle" /\ installing.pc = "installing"
    BY <1>9 DEF Decide, Idle
  <2> QED BY <1>3, <2>1, <2>2
<1>10. ASSUME NEW p \in Processes, InstallEnds(p)
       PROVE  Already
  BY <1>3, <1>10 DEF InstallEnds, Idle
<1>11. ASSUME NEW enabled \in BOOLEAN, SetAutoUpdate(enabled)
       PROVE  Already
  <2>1. saved'.latest = saved.latest /\ process' = process
    BY <1>1, <1>11 DEF SetAutoUpdate, FileType
  <2> QED BY <1>2, <2>1
<1>12. CASE TimePasses \/ \E version \in Versions : Publish(version)
  BY <1>2, <1>12 DEF TimePasses, Publish
<1> QED BY <1>4, <1>5, <1>7, <1>8, <1>9, <1>10, <1>11, <1>12 DEF UpdateNext

\* The user's word, and the copies of it that checks hold.
LEMMA WordStep == UpdateInv /\ UpdateNext => WordKept'
<1> SUFFICES ASSUME UpdateInv, UpdateNext PROVE WordKept'
  OBVIOUS
<1>1. Typed /\ WordKept /\ saved \in FileType
  BY DEF UpdateInv, Typed
<1>2. saved'.auto => Willing'
  <2>1. ASSUME NEW p \in Processes, WriteBack(p) PROVE saved'.auto = process[p].read.auto /\ Out(p)
    <3>1. saved'.auto = process[p].read.auto
      BY <1>1, <2>1, RecordedFile
    <3>2. Out(p)
      BY <2>1 DEF WriteBack, Out
    <3> QED BY <3>1, <3>2
  <2>2. ASSUME NEW p \in Processes, WriteBack(p) PROVE Willing' = Willing
    BY <2>2 DEF WriteBack, Willing
  <2>3. ASSUME NEW enabled \in BOOLEAN, SetAutoUpdate(enabled)
        PROVE  saved'.auto = enabled /\ choice' = enabled
    BY <1>1, <2>3 DEF SetAutoUpdate, FileType
  <2>4. CASE saved' = saved /\ choice' = choice /\ reverted' = reverted
    BY <1>1, <2>4 DEF WordKept, Willing
  <2>5. ASSUME NEW p \in Processes, WriteBack(p) PROVE saved'.auto => Willing'
    BY <1>1, <2>1, <2>2, <2>5 DEF WordKept
  <2>6. ASSUME NEW enabled \in BOOLEAN, SetAutoUpdate(enabled) PROVE saved'.auto => Willing'
    BY <2>3, <2>6 DEF Willing
  <2> QED BY <2>4, <2>5, <2>6 DEF UpdateNext, Begin, Serve, FetchFails, Decide, InstallEnds, Publish,
                                  TimePasses
<1>3. ASSUME NEW q \in Processes, Out(q), Willing PROVE Willing'
  <2>1. ASSUME NEW enabled \in BOOLEAN, SetAutoUpdate(enabled) PROVE reverted'
    BY <1>3, <2>1 DEF SetAutoUpdate
  <2>2. CASE choice' = choice /\ reverted' = reverted
    BY <1>3, <2>2 DEF Willing
  <2> QED BY <2>1, <2>2 DEF UpdateNext, Begin, Serve, WriteBack, FetchFails, Decide, InstallEnds,
                            Publish, TimePasses, Willing
<1>4. ASSUME NEW q \in Processes, Out(q)', process'[q].read.auto
      PROVE  Willing' /\ process'[q].willing
  BY <1>1, <1>3, <1>4, OutStep DEF WordKept
<1>5. ASSUME NEW q \in Processes, process'[q].pc = "deciding", process'[q].kind = "start"
      PROVE  process'[q].willing
  BY <1>1, <1>5, DecidingStep DEF WordKept
<1> QED BY <1>2, <1>4, <1>5 DEF WordKept

\* No version becomes younger.
LEMMA AgesKept ==
    ASSUME Typed, UpdateNext, NEW v \in Versions, known[v] # 0
    PROVE  known'[v] # 0 /\ known'[v] <= known[v]
<1>1. known \in [Versions -> 0 .. now] /\ now \in Nat
  BY BoundsAssumption DEF Typed
<1>2. ASSUME NEW p \in Processes, WriteBack(p) PROVE known'[v] # 0 /\ known'[v] <= known[v]
  <2>1. process[p].began \in 1 .. now
    BY <1>2, RecordedFile DEF Fetchings
  <2> QED BY <1>1, <1>2, <2>1, RecordedFile
<1>3. CASE known' = known
  BY <1>1, <1>3
<1> QED BY <1>2, <1>3 DEF UpdateNext, Begin, Serve, FetchFails, Decide, InstallEnds, SetAutoUpdate,
                          Publish, TimePasses

\* A version is never noted as seen before a check first heard of it.
LEMMA AgeStep == UpdateInv /\ UpdateNext => AgesKnown'
<1> SUFFICES ASSUME UpdateInv, UpdateNext PROVE AgesKnown'
  OBVIOUS
<1> DEFINE AgedNow(s) == /\ s.latest # 0 => s.seen # 0
                         /\ s.latest # 0 => known'[s.latest] # 0 /\ known'[s.latest] <= s.seen
<1>1. Typed /\ AgesKnown /\ saved \in FileType /\ known \in [Versions -> 0 .. now] /\ now \in Nat
      /\ MaxVersion \in Nat
  BY BoundsAssumption DEF UpdateInv, Typed
<1>2. Typed' /\ known' \in [Versions -> 0 .. now'] /\ now' \in Nat
  <2>1. Typed'
    BY <1>1, TypedStep
  <2> QED BY <2>1, BoundsAssumption DEF Typed
<1>3. ASSUME NEW s \in FileType, Aged(s) PROVE AgedNow(s)
  <2> SUFFICES ASSUME s.latest # 0 PROVE known'[s.latest] # 0 /\ known'[s.latest] <= s.seen
    BY <1>3 DEF Aged
  <2>1. s.latest \in Versions /\ s.seen \in Nat
    BY <1>1 DEF FileType, Versions
  <2>2. known[s.latest] # 0 /\ known[s.latest] <= s.seen
    BY <1>3 DEF Aged
  <2>3. known'[s.latest] # 0 /\ known'[s.latest] <= known[s.latest]
    BY <1>1, <2>1, <2>2, AgesKept
  <2>4. known[s.latest] \in Nat /\ known'[s.latest] \in Nat
    BY <1>1, <1>2, <2>1
  <2> QED BY <2>1, <2>2, <2>3, <2>4
<1>4. AgedNow(saved)
  BY <1>1, <1>3 DEF AgesKnown
<1>5. AgedNow(saved')
  <2>1. ASSUME NEW p \in Processes, WriteBack(p) PROVE AgedNow(saved')
    <3>1. /\ process[p] \in Fetchings /\ process[p].latest \in Versions
          /\ saved'.latest = process[p].latest /\ saved'.seen = FirstSeen(p)
          /\ known' = [known EXCEPT ![process[p].latest] =
                IF @ = 0 \/ process[p].began < @ THEN process[p].began ELSE @]
      BY <1>1, <2>1, RecordedFile
    <3>2. process[p].began \in 1 .. now /\ process[p].read \in FileType /\ process[p].latest # 0
      BY <1>1, <3>1 DEF Fetchings, Versions
    <3>3. Out(p)
      BY <2>1 DEF WriteBack, Out
    <3>4. /\ known'[process[p].latest] # 0
          /\ known'[process[p].latest] \in Nat
          /\ known'[process[p].latest] <= process[p].began
      BY <1>1, <3>1, <3>2
    <3>5. CASE process[p].latest = process[p].read.latest /\ process[p].read.seen # 0
      <4>1. AgedNow(process[p].read)
        BY <1>1, <1>3, <3>2, <3>3 DEF AgesKnown
      <4> QED BY <3>1, <3>5, <4>1 DEF FirstSeen
    <3>6. CASE ~(process[p].latest = process[p].read.latest /\ process[p].read.seen # 0)
      <4>1. FirstSeen(p) = process[p].began
        BY <3>6 DEF FirstSeen
      <4> QED BY <1>1, <3>1, <3>2, <3>4, <4>1
    <3> QED BY <3>5, <3>6
  <2>2. CASE saved'.latest = saved.latest /\ saved'.seen = saved.seen
    BY <1>4, <2>2
  <2>3. ASSUME NEW enabled \in BOOLEAN, SetAutoUpdate(enabled)
        PROVE  saved'.latest = saved.latest /\ saved'.seen = saved.seen
    BY <1>1, <2>3 DEF SetAutoUpdate, FileType
  <2> QED BY <2>1, <2>2, <2>3 DEF UpdateNext, Begin, Serve, FetchFails, Decide, InstallEnds, Publish,
                                  TimePasses
<1>6. ASSUME NEW q \in Processes, Out(q)' PROVE AgedNow(process'[q].read)
  <2>1. CASE process'[q].read = saved
    BY <1>4, <2>1
  <2>2. CASE Out(q) /\ process'[q].read = process[q].read
    <3>1. process[q].read \in FileType
      BY <1>1, <2>2, StageOf DEF Fetchings
    <3> QED BY <1>1, <1>3, <2>2, <3>1 DEF AgesKnown
  <2> QED BY <1>1, <1>6, <2>1, <2>2, OutStep
<1> QED BY <1>5, <1>6 DEF AgesKnown, Aged

\* The file changes under a process only when that is noted.
LEMMA StillStep == UpdateInv /\ UpdateNext => FileStill'
<1> SUFFICES ASSUME UpdateInv, UpdateNext PROVE FileStill'
  OBVIOUS
<1>1. Typed /\ FileStill
  BY DEF UpdateInv
<1>2. ASSUME NEW q \in Processes, Out(q)', ~process'[q].mixed
      PROVE  saved'.latest = process'[q].read.latest /\ saved'.seen = process'[q].read.seen
  BY <1>1, <1>2, OutStep DEF FileStill
<1>3. ASSUME NEW q \in Processes, process'[q].pc = "deciding", ~process'[q].mixed
      PROVE  saved'.latest = process'[q].latest
  BY <1>1, <1>3, DecidingStep DEF FileStill
<1> QED BY <1>2, <1>3 DEF FileStill

\* A silent update that goes ahead was asked for and has soaked.
LEMMA HastyStep == UpdateInv /\ UpdateNext => SilentUpdatesAsAsked'
<1> SUFFICES ASSUME UpdateInv, UpdateNext PROVE ~hasty'
  BY DEF SilentUpdatesAsAsked
<1>1. ~hasty /\ Typed
  BY DEF UpdateInv, SilentUpdatesAsAsked
<1>2. ASSUME NEW p \in Processes, Decide(p) PROVE ~hasty'
  <2>1. process[p].pc = "deciding" /\ process[p] \in Decidings
    BY <1>1, <1>2, StageOf DEF Decide
  <2>2. SUFFICES ASSUME process[p].kind = "start", Soaked
                 PROVE  process[p].willing /\ (process[p].mixed \/ now >= known[process[p].latest] + Soak)
    BY <1>1, <1>2 DEF Decide
  <2>3. process[p].willing
    BY <2>1, <2>2 DEF UpdateInv, WordKept
  <2>4. ASSUME ~process[p].mixed PROVE now >= known[process[p].latest] + Soak
    <3>1. saved.latest = process[p].latest /\ process[p].latest \in Versions
      BY <2>1, <2>4 DEF UpdateInv, FileStill, Decidings
    <3>2. saved.latest # 0
      BY <3>1, BoundsAssumption DEF Versions
    <3>3. known[saved.latest] <= saved.seen
      BY <3>2 DEF UpdateInv, AgesKnown, Aged
    <3>4. known[saved.latest] \in Nat /\ saved.seen \in Nat /\ now \in Nat /\ Soak \in Nat
      BY <1>1, <3>1, BoundsAssumption DEF Typed, FileType
    <3> QED BY <2>2, <3>1, <3>3, <3>4 DEF Soaked
  <2> QED BY <2>3, <2>4
<1>3. CASE hasty' = hasty
  BY <1>1, <1>3
<1> QED BY <1>2, <1>3 DEF UpdateNext, Begin, Serve, WriteBack, FetchFails, InstallEnds,
                          SetAutoUpdate, Publish, TimePasses

-----------------------------------------------------------------------------
\* Every step of a process, the registry, the user or the clock keeps the invariant.
LEMMA UpdateStep == UpdateInv /\ [UpdateNext]_updateVars => UpdateInv'
<1>1. ASSUME UpdateInv, UpdateNext PROVE UpdateInv'
  <2>1. Typed' /\ WordKept' /\ AgesKnown' /\ FileStill' /\ SilentUpdatesAsAsked'
    BY <1>1, TypedStep, WordStep, AgeStep, StillStep, HastyStep DEF UpdateInv
  <2> QED BY <2>1 DEF UpdateInv
<1>2. ASSUME UpdateInv, UNCHANGED updateVars PROVE UpdateInv'
  <2>1. Typed'
    BY <1>2 DEF updateVars, UpdateInv, Typed, Fetchings, Decidings, Installings, FileType, Today
  <2>2. WordKept' /\ AgesKnown' /\ FileStill' /\ SilentUpdatesAsAsked'
    BY <1>2 DEF updateVars, UpdateInv, WordKept, Willing, AgesKnown, Aged, FileStill,
                SilentUpdatesAsAsked, Out
  <2> QED BY <2>1, <2>2 DEF UpdateInv
<1> QED BY <1>1, <1>2

\* The invariant of the update check.
LEMMA UpdateInvHolds == UpdateSpec => []UpdateInv
BY UpdateStarts, UpdateStep, PTL DEF UpdateSpec

\* Every variable of the update check has its type, and a check at work names a
\* version that was published.
THEOREM UpdateTypes == UpdateSpec => []UpdateTypeOK
<1>1. UpdateInv => UpdateTypeOK BY TypesFollow DEF UpdateInv
<1> QED BY <1>1, UpdateInvHolds, PTL

\* Processes that share the state file, with checks that overlap and times of day in
\* any order, install nothing silently that the user has not asked for, nor a version
\* before it has soaked, unless the file changed under them.
THEOREM SilentUpdatesHold == UpdateSpec => []SilentUpdatesAsAsked
<1>1. UpdateInv => SilentUpdatesAsAsked BY DEF UpdateInv
<1> QED BY <1>1, UpdateInvHolds, PTL
=============================================================================
