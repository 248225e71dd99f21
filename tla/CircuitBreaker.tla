--------------------------- MODULE CircuitBreaker ---------------------------
(***************************************************************************)
(* Retry with a circuit breaker (cpn/retry.go): the firings of a           *)
(* transition, and of its clones in child CPNs, share one                  *)
(* CircuitBreakerState.  Each firing is looked at by canFireWith           *)
(* (transition.go), then runs doRetry.  Every method of the breaker holds  *)
(* its mutex, so a call is one step; the calls of different firings        *)
(* interleave.  Time passes in ticks.                                      *)
(***************************************************************************)
EXTENDS Integers

CONSTANTS
  Firing,            \* concurrent firings that share the breaker
  FailureThreshold,  \* CircuitBreakerConfig
  OpenDuration,
  MaxAttempts,       \* RetryPolicy
  MaxTime,           \* bound: ticks of the clock
  MaxFailures        \* bound: failures in a row

ASSUME BreakerAssumption ==
  /\ FailureThreshold \in Nat \ {0}
  /\ OpenDuration \in Nat
  /\ MaxAttempts \in Nat \ {0}
  /\ MaxTime \in Nat /\ MaxFailures \in Nat

Never == -1    \* TrippedAt == nil

VARIABLES
  now,        \* nowFunc()
  failures,   \* CircuitBreakerState.Failures
  trippedAt,  \* CircuitBreakerState.TrippedAt
  pc,         \* location of each firing
  attempt,    \* doRetry's attempt
  lastFail    \* time of the last failure (history)

vars == <<now, failures, trippedAt, pc, attempt, lastFail>>

(* Every variable has its type. *)
TypeOK ==
  /\ now \in Nat /\ failures \in Nat /\ trippedAt \in Nat \cup {Never}
  /\ pc \in [Firing -> {"idle", "gate", "fire", "calling", "sleep"}]
  /\ attempt \in [Firing -> 1..MaxAttempts]
  /\ lastFail \in Nat
-----------------------------------------------------------------------------
(* Allow: the answer, and the state it leaves behind.                        *)
Elapsed == trippedAt # Never /\ now - trippedAt > OpenDuration
Allowed == trippedAt = Never \/ Elapsed

Allow == trippedAt' = (IF Elapsed THEN Never ELSE trippedAt) /\ UNCHANGED failures

(* Slip: the threshold is compared with > . *)
RecordFailure_OffByOne ==
  /\ failures' = failures + 1
  /\ trippedAt' = IF failures' > FailureThreshold THEN now ELSE trippedAt

RecordFailure ==
  /\ failures' = failures + 1
  /\ trippedAt' = IF failures' >= FailureThreshold THEN now ELSE trippedAt

RecordSuccess == failures' = 0 /\ trippedAt' = Never
-----------------------------------------------------------------------------
(* canFireWith asks the breaker; doRetry asks it again, once.                *)
CanFire(f) ==
  /\ pc[f] = "idle"
  /\ Allow
  /\ pc' = [pc EXCEPT ![f] = IF Allowed THEN "gate" ELSE "idle"]
  /\ UNCHANGED <<now, attempt, lastFail>>

Gate(f) ==
  /\ pc[f] = "gate"
  /\ Allow
  /\ pc' = [pc EXCEPT ![f] = IF Allowed THEN "fire" ELSE "idle"]
  /\ attempt' = [attempt EXCEPT ![f] = 1]
  /\ UNCHANGED <<now, lastFail>>

(* fire() is called.                                                         *)
Call(f) ==
  /\ pc[f] = "fire"
  /\ pc' = [pc EXCEPT ![f] = "calling"]
  /\ UNCHANGED <<now, failures, trippedAt, attempt, lastFail>>

Succeeds(f) ==
  /\ pc[f] = "calling"
  /\ RecordSuccess
  /\ pc' = [pc EXCEPT ![f] = "idle"]
  /\ UNCHANGED <<now, attempt, lastFail>>

(* A failed attempt is retried after a wait, unless it was the last one or   *)
(* RetryOn refuses the error.                                                *)
Fails(f) ==
  /\ pc[f] = "calling" /\ failures < MaxFailures
  /\ RecordFailure
  /\ lastFail' = now
  /\ \/ pc' = [pc EXCEPT ![f] = "idle"]
     \/ attempt[f] < MaxAttempts /\ pc' = [pc EXCEPT ![f] = "sleep"]
  /\ UNCHANGED <<now, attempt>>

Wake(f) ==
  /\ pc[f] = "sleep"
  /\ pc' = [pc EXCEPT ![f] = "fire"]
  /\ attempt' = [attempt EXCEPT ![f] = @ + 1]
  /\ UNCHANGED <<now, failures, trippedAt, lastFail>>

(* The context ends during the wait.                                         *)
Cancelled(f) ==
  /\ pc[f] = "sleep"
  /\ pc' = [pc EXCEPT ![f] = "idle"]
  /\ UNCHANGED <<now, failures, trippedAt, attempt, lastFail>>

Tick ==
  /\ now < MaxTime
  /\ now' = now + 1
  /\ UNCHANGED <<failures, trippedAt, pc, attempt, lastFail>>

Init ==
  /\ now = 0 /\ failures = 0 /\ trippedAt = Never
  /\ pc = [f \in Firing |-> "idle"] /\ attempt = [f \in Firing |-> 1]
  /\ lastFail = 0

Step(f) == CanFire(f) \/ Gate(f) \/ Call(f) \/ Succeeds(f) \/ Fails(f) \/ Wake(f) \/ Cancelled(f)

Next == Tick \/ \E f \in Firing : Step(f)

Spec == Init /\ [][Next]_vars
-----------------------------------------------------------------------------
(* closed -> open -> half-open: a firing passes the gate only while fewer    *)
(* than FailureThreshold failures are on record, or when the last of them is *)
(* more than OpenDuration old, whatever order firings report in.             *)
QuietPeriod ==
  [][\A f \in Firing : pc[f] = "gate" /\ pc'[f] = "fire" =>
       failures < FailureThreshold \/ now - lastFail > OpenDuration]_vars

(* A breaker is open only on enough failures in a row: a success closes it.  *)
OpenIsEarned == trippedAt # Never => failures >= FailureThreshold
=============================================================================
