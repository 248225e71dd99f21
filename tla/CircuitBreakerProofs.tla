------------------------ MODULE CircuitBreakerProofs ------------------------
(***************************************************************************)
(* Proofs about CircuitBreaker, for any number of firings, any threshold,  *)
(* duration and number of attempts.                                        *)
(***************************************************************************)
EXTENDS CircuitBreaker, TLAPS

(* The strengthening: the breaker remembers the last failure when it is      *)
(* open, and a half-open breaker is one whose last failure is old.           *)
Memory ==
  /\ OpenIsEarned
  /\ lastFail <= now
  /\ trippedAt # Never => trippedAt = lastFail
  /\ failures >= FailureThreshold /\ trippedAt = Never => now - lastFail > OpenDuration

(* doRetry only waits when an attempt is left.                               *)
RoomToRetry == \A f \in Firing : pc[f] = "sleep" => attempt[f] < MaxAttempts

(* The type invariant of the breaker and of doRetry's counter.               *)
LEMMA TypeStep == TypeOK /\ RoomToRetry /\ [Next]_vars => TypeOK'
<1> SUFFICES ASSUME TypeOK, RoomToRetry, [Next]_vars PROVE TypeOK'
  OBVIOUS
<1> USE BreakerAssumption DEF TypeOK, Never
<1>1. CASE Tick
  BY <1>1 DEF Tick
<1>2. ASSUME NEW f \in Firing, CanFire(f) PROVE TypeOK'
  BY <1>2 DEF CanFire, Allow
<1>3. ASSUME NEW f \in Firing, Gate(f) PROVE TypeOK'
  BY <1>3 DEF Gate, Allow
<1>4. ASSUME NEW f \in Firing, Call(f) PROVE TypeOK'
  BY <1>4 DEF Call
<1>5. ASSUME NEW f \in Firing, Succeeds(f) PROVE TypeOK'
  BY <1>5 DEF Succeeds, RecordSuccess
<1>6. ASSUME NEW f \in Firing, Fails(f) PROVE TypeOK'
  BY <1>6 DEF Fails, RecordFailure
<1>7. ASSUME NEW f \in Firing, Wake(f) PROVE TypeOK'
  <2>1. attempt[f] + 1 \in 1..MaxAttempts
    BY <1>7 DEF Wake, RoomToRetry
  <2> QED
    BY <1>7, <2>1 DEF Wake
<1>8. ASSUME NEW f \in Firing, Cancelled(f) PROVE TypeOK'
  BY <1>8 DEF Cancelled
<1>9. CASE UNCHANGED vars
  BY <1>9 DEF vars
<1> QED
  BY <1>1, <1>2, <1>3, <1>4, <1>5, <1>6, <1>7, <1>8, <1>9 DEF Next, Step

(* Only a failed attempt goes to sleep, and it checked that one is left.     *)
LEMMA RoomStep == TypeOK /\ RoomToRetry /\ [Next]_vars => RoomToRetry'
<1> SUFFICES ASSUME TypeOK, RoomToRetry, [Next]_vars PROVE RoomToRetry'
  OBVIOUS
<1> USE DEF TypeOK, RoomToRetry
<1>1. CASE Tick \/ UNCHANGED vars
  BY <1>1 DEF Tick, vars
<1>2. ASSUME NEW f \in Firing, CanFire(f) \/ Gate(f) \/ Call(f) \/ Succeeds(f) \/ Wake(f) \/ Cancelled(f)
      PROVE  RoomToRetry'
  <2>1. pc'[f] # "sleep" /\ \A g \in Firing \ {f} : pc'[g] = pc[g] /\ attempt'[g] = attempt[g]
    BY <1>2 DEF CanFire, Gate, Call, Succeeds, Wake, Cancelled
  <2> QED
    BY <2>1
<1>3. ASSUME NEW f \in Firing, Fails(f) PROVE RoomToRetry'
  <2>1. UNCHANGED attempt /\ \A g \in Firing \ {f} : pc'[g] = pc[g]
    BY <1>3 DEF Fails
  <2>2. pc'[f] = "sleep" => attempt[f] < MaxAttempts
    BY <1>3 DEF Fails
  <2> QED
    BY <2>1, <2>2
<1> QED
  BY <1>1, <1>2, <1>3 DEF Next, Step

(* Every method of the breaker keeps what it remembers.                      *)
LEMMA MemoryStep == TypeOK /\ Memory /\ [Next]_vars => Memory'
<1> SUFFICES ASSUME TypeOK, Memory, [Next]_vars PROVE Memory'
  OBVIOUS
<1> USE BreakerAssumption DEF TypeOK, Memory, OpenIsEarned, Never
<1>1. CASE Tick
  BY <1>1 DEF Tick
<1>2. ASSUME NEW f \in Firing, CanFire(f) \/ Gate(f) PROVE Memory'
  <2>1. Allow /\ UNCHANGED <<now, lastFail>>
    BY <1>2 DEF CanFire, Gate
  <2> QED
    BY <2>1 DEF Allow, Elapsed
<1>3. ASSUME NEW f \in Firing, Call(f) \/ Wake(f) \/ Cancelled(f) PROVE Memory'
  BY <1>3 DEF Call, Wake, Cancelled
<1>4. ASSUME NEW f \in Firing, Succeeds(f) PROVE Memory'
  BY <1>4 DEF Succeeds, RecordSuccess
<1>5. ASSUME NEW f \in Firing, Fails(f) PROVE Memory'
  <2>1. RecordFailure /\ lastFail' = now /\ now' = now
    BY <1>5 DEF Fails
  <2> QED
    BY <2>1 DEF RecordFailure
<1>6. CASE UNCHANGED vars
  BY <1>6 DEF vars
<1> QED
  BY <1>1, <1>2, <1>3, <1>4, <1>5, <1>6 DEF Next, Step

(* All three parts hold in every reachable state.                            *)
THEOREM BreakerInvariant == Spec => [](TypeOK /\ RoomToRetry /\ Memory)
<1>1. Init => TypeOK /\ RoomToRetry /\ Memory
  BY BreakerAssumption DEF Init, TypeOK, RoomToRetry, Memory, OpenIsEarned, Never
<1> QED
  BY <1>1, TypeStep, RoomStep, MemoryStep, PTL DEF Spec

(* OpenIsEarned: no interleaving of reports leaves the breaker open without  *)
(* enough failures in a row.                                                 *)
THEOREM OpenIsEarnedHolds == Spec => []OpenIsEarned
<1>1. Memory => OpenIsEarned
  BY DEF Memory
<1> QED
  BY <1>1, BreakerInvariant, PTL

(* QuietPeriod: doRetry's gate never lets a firing through within            *)
(* OpenDuration of the failure that tripped the breaker.                     *)
THEOREM QuietPeriodHolds == Spec => QuietPeriod
<1> DEFINE Quiet == \A f \in Firing : pc[f] = "gate" /\ pc'[f] = "fire" =>
                      failures < FailureThreshold \/ now - lastFail > OpenDuration
<1>1. TypeOK /\ Memory /\ [Next]_vars => [Quiet]_vars
  <2> SUFFICES ASSUME TypeOK, Memory, Next, NEW f \in Firing, pc[f] = "gate", pc'[f] = "fire",
                      failures >= FailureThreshold
               PROVE  now - lastFail > OpenDuration
    BY BreakerAssumption DEF TypeOK
  <2>1. Gate(f)
    <3>1. ASSUME NEW g \in Firing, Step(g), g # f PROVE FALSE
      BY <3>1 DEF Step, CanFire, Gate, Call, Succeeds, Fails, Wake, Cancelled, TypeOK
    <3>2. ~Tick
      BY DEF Tick
    <3>3. Step(f)
      BY <3>1, <3>2 DEF Next
    <3> QED
      BY <3>3 DEF Step, CanFire, Call, Succeeds, Fails, Wake, Cancelled
  <2>2. Allowed
    BY <2>1 DEF Gate, TypeOK
  <2> QED
    BY <2>2, BreakerAssumption DEF Allowed, Elapsed, Memory, TypeOK, Never
<1> QED
  BY <1>1, BreakerInvariant, PTL DEF Spec, QuietPeriod
=============================================================================
