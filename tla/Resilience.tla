----------------------------- MODULE Resilience -----------------------------
(***************************************************************************)
(* withResilience (src/shared/resilience.ts): timeout, retries and the     *)
(* circuit breaker of ONE breaker key `network:operation`.                 *)
(*                                                                         *)
(* Node runs one callback at a time, so the code between two awaits is one *)
(* step.  A call awaits its attempt (runWithTimeout) and its backoff       *)
(* (sleep); every other call on the key may run there, and the breaker is  *)
(* read only on entry and written only when a call ends.                   *)
(***************************************************************************)
EXTENDS Integers, FiniteSets

CONSTANTS
    Calls,      \* slots for overlapping withResilience calls on the key
    Retries,    \* config.retries
    RetryOn,    \* config.retryOn, a subset of HttpStatus
    Threshold,  \* config.circuitBreaker.threshold
    Cooldown    \* config.circuitBreaker.cooldownMs, in ticks of the clock

ASSUME CallsAssumption == IsFiniteSet(Calls) /\ Calls # {}
ASSUME ConfigAssumption == /\ Retries \in Nat
                           /\ Threshold \in Nat \ {0}
                           /\ Cooldown \in Nat \ {0}

VARIABLES
    failures,   \* breaker.consecutiveFailures
    openFor,    \* Date.now() - breaker.openedAt capped at Cooldown, or Null
    pc,         \* pc[c]: where call c is
    attempt,    \* attempt[c]: the loop's attempt counter
    result,     \* result[c]: how the slot's last call ended
    leaked      \* ghost: retries begun since the circuit opened and stayed open

breaker == <<failures, openFor>>
vars == <<failures, openFor, pc, attempt, result, leaked>>

Null == -1
MaxAttempts == Retries + 1

(***************************************************************************)
(* Errors an attempt can end with.  An HTTP failure is its status; the     *)
(* other ones are what classifyError makes of the thrown value.            *)
(***************************************************************************)
HttpStatus == {"401", "404", "429", "500", "503"}
Errors == HttpStatus \cup {"timeout", "network_unavailable",
                           "not_implemented", "network_api_error"}

ClassifyError(e) ==
    CASE e = "401"                  -> "auth_error"
      [] e = "429"                  -> "rate_limit"
      [] e \in {"404", "500", "503"} -> "network_api_error"
      [] OTHER                      -> e

IsRetryable(e) ==
    /\ ClassifyError(e) \notin {"circuit_open", "not_implemented",
                                "auth_error", "config_error"}
    /\ \/ e = "429"
       \/ e \in HttpStatus /\ e \in RetryOn
       \/ e \notin HttpStatus /\ e \in {"timeout", "network_unavailable"}

\* Bug variant: the loop bound compared with <=.
ShouldRetryOnceMore(c, e) == IsRetryable(e) /\ attempt[c] <= MaxAttempts

ShouldRetry(c, e) == IsRetryable(e) /\ attempt[c] < MaxAttempts

IsOpen == openFor # Null
InFlight == {c \in Calls : pc[c] # "idle"}

Init ==
    /\ failures = 0
    /\ openFor = Null
    /\ pc = [c \in Calls |-> "idle"]
    /\ attempt = [c \in Calls |-> 0]
    /\ result = [c \in Calls |-> "none"]
    /\ leaked = 0

(***************************************************************************)
(* Entry                                                                   *)
(***************************************************************************)
\* Bug variant: a refused call re-stamps openedAt.
FailFastRestamps(c) ==
    /\ pc[c] = "idle" /\ IsOpen /\ openFor < Cooldown
    /\ openFor' = 0
    /\ UNCHANGED <<failures, pc, attempt, result, leaked>>

\* The circuit is open and cooling down: throw circuit_open, touch nothing.
FailFast(c) ==
    /\ pc[c] = "idle"
    /\ IsOpen
    /\ openFor < Cooldown
    /\ result' = [result EXCEPT ![c] = "circuit_open"]
    /\ UNCHANGED <<breaker, pc, attempt, leaked>>

StartAttempt(c) ==
    /\ pc' = [pc EXCEPT ![c] = "attempting"]
    /\ attempt' = [attempt EXCEPT ![c] = 1]
    /\ result' = [result EXCEPT ![c] = "none"]

\* The circuit is closed.
Enter(c) ==
    /\ pc[c] = "idle"
    /\ ~IsOpen
    /\ StartAttempt(c)
    /\ UNCHANGED <<breaker, leaked>>

\* The cooldown has elapsed: reset the breaker and let the call through.
HalfOpen(c) ==
    /\ pc[c] = "idle"
    /\ openFor = Cooldown
    /\ failures' = 0
    /\ openFor' = Null
    /\ StartAttempt(c)
    /\ leaked' = 0

(***************************************************************************)
(* The attempt settles: fn resolved, fn rejected, or the timer won.        *)
(***************************************************************************)
Return(c, r) ==
    /\ pc' = [pc EXCEPT ![c] = "idle"]
    /\ attempt' = [attempt EXCEPT ![c] = 0]
    /\ result' = [result EXCEPT ![c] = r]

\* Bug variant: success resets the counter and forgets openedAt.
SucceedLeavesOpen(c) ==
    /\ pc[c] = "attempting"
    /\ failures' = 0
    /\ Return(c, "ok")
    /\ UNCHANGED <<openFor, leaked>>

Succeed(c) ==
    /\ pc[c] = "attempting"
    /\ failures' = 0
    /\ openFor' = Null
    /\ Return(c, "ok")
    /\ leaked' = 0

BackOff(c) ==
    /\ pc[c] = "attempting"
    /\ \E e \in Errors : ShouldRetry(c, e)
    /\ pc' = [pc EXCEPT ![c] = "sleeping"]
    /\ UNCHANGED <<breaker, attempt, result, leaked>>

GiveUp(c) ==
    /\ pc[c] = "attempting"
    /\ \E e \in Errors : ~ShouldRetry(c, e)
    /\ failures' = failures + 1
    /\ openFor' = IF failures' >= Threshold THEN 0 ELSE openFor
    /\ Return(c, "error")
    /\ UNCHANGED leaked

\* Bug variant: the attempt is not counted.
RetryUncounted(c) ==
    /\ pc[c] = "sleeping"
    /\ pc' = [pc EXCEPT ![c] = "attempting"]
    /\ UNCHANGED <<breaker, attempt, result, leaked>>

\* The backoff sleep ends; the breaker is not looked at again.
Retry(c) ==
    /\ pc[c] = "sleeping"
    /\ pc' = [pc EXCEPT ![c] = "attempting"]
    /\ attempt' = [attempt EXCEPT ![c] = @ + 1]
    /\ leaked' = IF IsOpen THEN leaked + 1 ELSE leaked
    /\ UNCHANGED <<breaker, result>>

\* Time passes; only the age of an open circuit matters.
Tick ==
    /\ IsOpen
    /\ openFor < Cooldown
    /\ openFor' = openFor + 1
    /\ UNCHANGED <<failures, pc, attempt, result, leaked>>

Step(c) == Succeed(c) \/ BackOff(c) \/ GiveUp(c) \/ Retry(c)
Arrive(c) == FailFast(c) \/ Enter(c) \/ HalfOpen(c)

Next == Tick \/ \E c \in Calls : Arrive(c) \/ Step(c)

(***************************************************************************)
(* An attempt settles because runWithTimeout races it against a timer, a   *)
(* sleep ends, and time passes.  Nobody is obliged to call.                *)
(***************************************************************************)
Fairness == WF_vars(Tick) /\ \A c \in Calls : WF_vars(Step(c))

Spec == Init /\ [][Next]_vars
FairSpec == Spec /\ Fairness

-----------------------------------------------------------------------------
(***************************************************************************)
(* Properties                                                              *)
(***************************************************************************)
\* Every variable has its type.
TypeOK ==
    /\ failures \in Nat
    /\ openFor \in 0..Cooldown \cup {Null}
    /\ pc \in [Calls -> {"idle", "attempting", "sleeping"}]
    /\ attempt \in [Calls -> 0..MaxAttempts]
    /\ result \in [Calls -> {"none", "ok", "error", "circuit_open"}]
    /\ leaked \in Nat

\* The two fields of BreakerState, reset and set at three places with awaits
\* between them, never disagree: the circuit is open exactly when the counter
\* has reached the threshold, whatever overlapping calls did.
OpenIffTripped == IsOpen <=> failures >= Threshold

\* Only calls that were in flight when the circuit opened can still count: the
\* counter never exceeds the threshold by more than the other callers.
FailuresBounded == failures <= Threshold + Cardinality(Calls) - 1

\* The backoff loop does not look at the breaker, so calls in flight keep
\* reaching an upstream whose circuit is open; this is all they can do to it.
LeakBounded == leaked <= (Cardinality(Calls) - 1) * Retries

\* "The cooldown will lift automatically" (the circuit_open hint): neither the
\* callers that are refused nor the ones still in flight can put it off forever.
CooldownLifts == IsOpen ~> (~IsOpen \/ openFor = Cooldown)

\* Every call that was let through returns or throws.
CallsReturn == \A c \in Calls : c \in InFlight ~> c \notin InFlight
=============================================================================
