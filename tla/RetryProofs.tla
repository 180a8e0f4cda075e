------------------------------ MODULE RetryProofs ------------------------------
(***************************************************************************)
(* Proofs about pipeline/shared/retry.py: CircuitBreaker, for every        *)
(* threshold, timeout, set of amounts and bound, and RetryAsync, for every *)
(* finite set of coroutines and every configuration of attempts, delays,   *)
(* threshold and timeout.                                                  *)
(*                                                                         *)
(* The inductive invariant of CircuitBreaker is the conjunction of its     *)
(* type invariant and its two safety invariants: which state the breaker   *)
(* is in is decided by its value, and how long it has rejected is decided  *)
(* by the history clock.  RetriesBounded of RetryAsync is not inductive by *)
(* itself: it needs to know that every call on a later attempt was paid    *)
(* for by a record first (RetriesPaid).                                    *)
(***************************************************************************)
EXTENDS CircuitBreaker, RetryAsync, BreakerLemmas, FiniteSetTheorems, TLAPS

BreakerInv == BreakerTypeOK /\ ClosedIffUnderThreshold /\ CooldownCountsQuiet

-------------------------------------------------------------------------------
\* A new breaker is closed and under every threshold.
LEMMA BreakerInitInvariant == BreakerInit => BreakerInv
BY ThresholdAssumption, ResetTimeoutAssumption, BoundsAssumption
DEF BreakerInit, BreakerInv, BreakerTypeOK, ClosedIffUnderThreshold, CooldownCountsQuiet, NewBreaker,
    Breakers, CircuitStates

\* No step of the breaker's clients or of time breaks the invariant.
LEMMA BreakerStepInvariant == BreakerInv /\ [BreakerNext]_breakerVars => BreakerInv'
<1> SUFFICES ASSUME BreakerInv, [BreakerNext]_breakerVars PROVE BreakerInv'
  OBVIOUS
<1> USE ThresholdAssumption, ResetTimeoutAssumption, BoundsAssumption
        DEF BreakerInv, BreakerTypeOK, ClosedIffUnderThreshold, CooldownCountsQuiet
<1>0. ASSUME breaker' = Observed(breaker), inFlight' \in 0..MaxInFlight, quiet' = quiet
      PROVE  BreakerInv'
  <2>1. /\ breaker' \in Breakers
        /\ breaker'.value = breaker.value
        /\ breaker'.cooldown = breaker.cooldown
    BY <1>0, ObservedBreaker
  <2>2. \/ breaker.state = "OPEN" /\ breaker.cooldown = 0 /\ breaker'.state = "HALF_OPEN"
        \/ breaker'.state = breaker.state
    BY <1>0, ObservedBreaker
  <2> QED BY <1>0, <2>1, <2>2
<1>1. CASE CheckPasses
  <2>1. inFlight' \in 0..MaxInFlight
    BY <1>1 DEF CheckPasses
  <2> QED BY <1>0, <1>1, <2>1 DEF CheckPasses
<1>2. CASE CheckRaises
  BY <1>0, <1>2 DEF CheckRaises
<1>3. CASE Record
  <2>1. PICK amount \in Amounts :
          /\ inFlight > 0
          /\ breaker' = Recorded(breaker, amount, Threshold, ResetTimeout)
          /\ inFlight' = inFlight - 1
          /\ quiet' = IF breaker.value + amount >= Threshold THEN 0 ELSE quiet
    BY <1>3 DEF Record
  <2>2. amount \in Nat
    BY AmountsAssumption
  <2>3. breaker.value \in Nat
    BY DEF Breakers
  <2>4. /\ breaker' \in Breakers
        /\ breaker'.value = breaker.value + amount
        /\ breaker.value + amount >= Threshold =>
              breaker'.state = "OPEN" /\ breaker'.cooldown = ResetTimeout
        /\ breaker.value + amount < Threshold =>
              breaker'.state = breaker.state /\ breaker'.cooldown = breaker.cooldown
    <3>1. breaker \in Breakers /\ Threshold \in Nat
      OBVIOUS
    <3> HIDE DEF BreakerInv, BreakerTypeOK, ClosedIffUnderThreshold, CooldownCountsQuiet
    <3> DEFINE r == Recorded(breaker, amount, Threshold, ResetTimeout)
    <3>2. /\ r \in Breakers
          /\ r.value = breaker.value + amount
          /\ breaker.value + amount >= Threshold =>
                r.state = "OPEN" /\ r.cooldown = ResetTimeout
          /\ breaker.value + amount < Threshold =>
                r.state = breaker.state /\ r.cooldown = breaker.cooldown
      BY <3>1, <2>2, RecordedBreaker
    <3>3. breaker' = r
      BY <2>1
    <3> QED BY <3>2, <3>3
  <2>5. inFlight' \in 0..MaxInFlight /\ quiet' \in 0..ResetTimeout
    <3>1. inFlight \in 0..MaxInFlight /\ quiet \in 0..ResetTimeout
      OBVIOUS
    <3>2. inFlight' \in 0..MaxInFlight
      BY <2>1, <3>1
    <3>3. quiet' = 0 \/ quiet' = quiet
      BY <2>1
    <3> QED BY <3>1, <3>2, <3>3
  <2>6. CASE breaker.value + amount >= Threshold
    <3>1. breaker'.value >= Threshold /\ quiet' = 0
      BY <2>1, <2>4, <2>6
    <3> QED BY <3>1, <2>2, <2>3, <2>4, <2>5, <2>6
  <2>7. CASE breaker.value + amount < Threshold
    <3>1. breaker'.value < Threshold /\ breaker.value < Threshold /\ quiet' = quiet
      BY <2>1, <2>2, <2>3, <2>4, <2>7
    <3> QED BY <3>1, <2>2, <2>3, <2>4, <2>5, <2>7
  <2> QED BY <2>2, <2>3, <2>6, <2>7
<1>4. CASE Abandon
  BY <1>4 DEF Abandon
<1>5. CASE Reset
  BY <1>5, ClearedBreaker DEF Reset
<1>6. CASE BreakerTick
  <2>1. /\ breaker' \in Breakers
        /\ breaker'.state = breaker.state
        /\ breaker'.value = breaker.value
        /\ breaker'.cooldown = IF breaker.cooldown > 0 THEN breaker.cooldown - 1 ELSE 0
    BY <1>6, ElapsedBreaker DEF BreakerTick
  <2>2. breaker.cooldown \in Nat
    BY DEF Breakers
  <2>3. /\ inFlight' = inFlight
        /\ quiet' = IF quiet < ResetTimeout THEN quiet + 1 ELSE quiet
    BY <1>6 DEF BreakerTick
  <2>4. quiet' \in 0..ResetTimeout
    BY <2>3
  <2>5. breaker.cooldown + quiet = ResetTimeout
          => breaker'.cooldown + quiet' = ResetTimeout
    BY <2>1, <2>2, <2>3
  <2> QED BY <2>1, <2>3, <2>4, <2>5
<1>7. CASE UNCHANGED breakerVars
  BY <1>7 DEF breakerVars
<1> QED BY <1>1, <1>2, <1>3, <1>4, <1>5, <1>6, <1>7 DEF BreakerNext

\* The inductive invariant holds in every behaviour.
THEOREM BreakerInvariance == BreakerSpec => []BreakerInv
BY BreakerInitInvariant, BreakerStepInvariant, PTL DEF BreakerSpec

\* Type correctness.
THEOREM BreakerTypeCorrect == BreakerSpec => []BreakerTypeOK
BY BreakerInvariance, PTL DEF BreakerInv

\* The breaker is closed exactly under its threshold (retry.py:77-98).
THEOREM ClosedExactly == BreakerSpec => []ClosedIffUnderThreshold
BY BreakerInvariance, PTL DEF BreakerInv

\* A tripped breaker's timeout counts from the last over-threshold record
\* (retry.py:80, 93, 105-107).
THEOREM TimeoutCountsFromLastRecord == BreakerSpec => []CooldownCountsQuiet
BY BreakerInvariance, PTL DEF BreakerInv

-------------------------------------------------------------------------------
\* Over the threshold a check passes only in the HALF_OPEN state, after a full
\* timeout without a record (retry.py:79-82, 100-103).
THEOREM Admission == BreakerSpec => AdmissionNeedsQuiet
<1> DEFINE A == (inFlight' > inFlight /\ breaker.value >= Threshold)
                  => (quiet = ResetTimeout /\ breaker'.state = "HALF_OPEN")
<1>1. BreakerInv /\ [BreakerNext]_breakerVars => [A]_breakerVars
  <2> SUFFICES ASSUME BreakerInv, BreakerNext, inFlight' > inFlight, breaker.value >= Threshold
               PROVE  quiet = ResetTimeout /\ breaker'.state = "HALF_OPEN"
    OBVIOUS
  <2> USE ThresholdAssumption, ResetTimeoutAssumption, BoundsAssumption
  <2>1. inFlight \in Nat /\ breaker \in Breakers
    BY DEF BreakerInv, BreakerTypeOK
  <2>2. CheckPasses
    BY <2>1 DEF BreakerNext, CheckRaises, Record, Abandon, Reset, BreakerTick
  <2>3. breaker.state # "CLOSED" /\ breaker.cooldown + quiet = ResetTimeout
    BY <2>1 DEF BreakerInv, ClosedIffUnderThreshold, CooldownCountsQuiet, Breakers
  <2>4. ~(breaker.state = "OPEN" /\ breaker.cooldown > 0)
    BY <2>1, <2>2, OpenBreaker DEF CheckPasses
  <2>5. breaker' = Observed(breaker)
    BY <2>2 DEF CheckPasses
  <2>6. breaker.cooldown \in Nat /\ quiet \in Nat /\ breaker.state \in CircuitStates
    BY <2>1 DEF BreakerInv, BreakerTypeOK, Breakers
  <2>7. breaker.state = "OPEN" => breaker.cooldown = 0
    BY <2>4, <2>6
  <2>8. breaker'.state = "HALF_OPEN"
    BY <2>1, <2>3, <2>5, <2>6, <2>7 DEF Observed, Breakers, CircuitStates
  <2>9. breaker.cooldown = 0
    BY <2>3, <2>6, <2>7 DEF CircuitStates, BreakerInv, CooldownCountsQuiet
  <2> QED BY <2>3, <2>6, <2>8, <2>9
<1>2. QED
  BY <1>1, BreakerInvariance, PTL DEF BreakerSpec, AdmissionNeedsQuiet

\* A tripped breaker is closed by a reset alone, and whatever is recorded while
\* it is tripped leaves it OPEN (retry.py:89-98).
THEOREM Recovery == BreakerSpec => RecoveryNeedsReset
<1> DEFINE A == breaker.state # "CLOSED" =>
                  /\ breaker'.state = "CLOSED" => breaker'.value = 0
                  /\ breaker'.value # breaker.value => breaker'.state # "HALF_OPEN"
<1>1. BreakerInv /\ [BreakerNext]_breakerVars => [A]_breakerVars
  <2> SUFFICES ASSUME BreakerInv, BreakerNext, breaker.state # "CLOSED"
               PROVE  /\ breaker'.state = "CLOSED" => breaker'.value = 0
                      /\ breaker'.value # breaker.value => breaker'.state # "HALF_OPEN"
    OBVIOUS
  <2> USE ThresholdAssumption, ResetTimeoutAssumption
  <2>1. breaker \in Breakers /\ breaker.value \in Nat /\ breaker.value >= Threshold
    BY DEF BreakerInv, BreakerTypeOK, ClosedIffUnderThreshold, Breakers
  <2>2. CASE CheckPasses \/ CheckRaises
    <3>1. breaker' = Observed(breaker)
      BY <2>2 DEF CheckPasses, CheckRaises
    <3>2. breaker'.value = breaker.value /\ breaker'.state \in {breaker.state, "HALF_OPEN"}
      BY <2>1, <3>1, ObservedBreaker
    <3> QED BY <3>2
  <2>3. CASE Record
    <3>1. PICK amount \in Amounts :
            breaker' = Recorded(breaker, amount, Threshold, ResetTimeout)
      BY <2>3 DEF Record
    <3>2. amount \in Nat
      BY AmountsAssumption
    <3> DEFINE r == Recorded(breaker, amount, Threshold, ResetTimeout)
    <3>3. breaker \in Breakers /\ Threshold \in Nat /\ ResetTimeout \in Nat
      BY <2>1
    <3>4. /\ r \in Breakers
          /\ r.value = breaker.value + amount
          /\ breaker.value + amount >= Threshold =>
                r.state = "OPEN" /\ r.cooldown = ResetTimeout
      BY <3>2, <3>3, RecordedBreaker
    <3>5. breaker.value + amount >= Threshold
      BY <2>1, <3>2
    <3> QED BY <3>1, <3>4, <3>5
  <2>4. CASE Abandon
    BY <2>4 DEF Abandon
  <2>5. CASE Reset
    BY <2>1, <2>5, ClearedBreaker DEF Reset
  <2>6. CASE BreakerTick
    BY <2>1, <2>6, ElapsedBreaker DEF BreakerTick
  <2> QED BY <2>2, <2>3, <2>4, <2>5, <2>6 DEF BreakerNext
<1>2. QED
  BY <1>1, BreakerInvariance, PTL DEF BreakerSpec, RecoveryNeedsReset

-------------------------------------------------------------------------------
RetriesPaid == retried <= breaker.value

RetryInv == TypeOK /\ RetriesPaid /\ RetriesBounded /\ RetryAccounting

-------------------------------------------------------------------------------
\* One more failure recorded, with the constants of this module: the breaker is
\* under its threshold or rejects the check that follows.
LEMMA RecordedFailure ==
    ASSUME NEW b \in Breakers
    PROVE  /\ Recorded(b, 1, Threshold, ResetTimeout) \in Breakers
           /\ Recorded(b, 1, Threshold, ResetTimeout).value = b.value + 1
           /\ \/ b.value + 1 < Threshold
              \/ IsOpen(Recorded(b, 1, Threshold, ResetTimeout))
<1> DEFINE r == Recorded(b, 1, Threshold, ResetTimeout)
<1>1. Threshold \in Nat /\ ResetTimeout \in Nat /\ ResetTimeout > 0 /\ 1 \in Nat
  BY ThresholdAssumption, ResetTimeoutAssumption, TimeoutAssumption
<1>2. /\ r \in Breakers
      /\ r.value = b.value + 1
      /\ b.value + 1 >= Threshold => r.state = "OPEN" /\ r.cooldown = ResetTimeout
  BY <1>1, RecordedBreaker
<1>3. b.value \in Nat
  BY DEF Breakers
<1> HIDE DEF r
<1>4. IsOpen(r) <=> r.state = "OPEN" /\ r.cooldown > 0
  BY <1>2, OpenBreaker
<1>5. b.value + 1 < Threshold \/ IsOpen(r)
  BY <1>1, <1>2, <1>3, <1>4
<1> QED BY <1>2, <1>5 DEF r

\* Where the breaker, the coroutine and the count of later attempts are after
\* the head of the loop.
LEMMA AfterBegin ==
    ASSUME NEW c \in Callers, NEW n, NEW b \in Breakers, BeginAttempt(c, n, b),
           pc \in [Callers -> {"idle", "awaiting", "sleeping"}]
    PROVE  /\ breaker' \in Breakers
           /\ breaker'.value = b.value
           /\ \E where \in {"idle", "awaiting"} : pc' = [pc EXCEPT ![c] = where]
           /\ \/ retried' = retried
              \/ retried' = retried + 1 /\ ~IsOpen(b)
<1>1. breaker' = Observed(b)
  BY DEF BeginAttempt
<1>2. breaker' \in Breakers /\ breaker'.value = b.value
  BY <1>1, ObservedBreaker
<1>3. \E where \in {"idle", "awaiting"} : pc' = [pc EXCEPT ![c] = where]
  BY DEF BeginAttempt, Finish
<1>4. \/ retried' = retried
      \/ retried' = retried + 1 /\ ~IsOpen(b)
  BY DEF BeginAttempt
<1> QED BY <1>2, <1>3, <1>4

-------------------------------------------------------------------------------
\* The delay after an attempt that is not the last one is a time, and at most
\* max_delay_seconds.
LEMMA BackoffType ==
    ASSUME NEW c \in Callers, NEW n \in 1..MaxAttempts[c]
    PROVE  Backoff(n) \in 0..MaxDelay
<1> DEFINE power == ExponentialBase^(n - 1)
<1>1. power \in Nat
  BY PowersAssumption
<1>2. BaseDelay \in Nat /\ MaxDelay \in Nat
  BY DelayAssumption
<1>3. Backoff(n) = IF BaseDelay * power < MaxDelay THEN BaseDelay * power ELSE MaxDelay
  BY DEF Backoff
<1> HIDE DEF power
<1>4. BaseDelay * power \in Nat
  BY <1>1, <1>2
<1> QED
  BY <1>2, <1>3, <1>4

\* The head of the loop, in an attempt that there is.
LEMMA BeginTypes ==
    ASSUME TypeOK, NEW c \in Callers, NEW n \in 1..MaxAttempts[c], NEW b \in Breakers,
           BeginAttempt(c, n, b), UNCHANGED <<delay, failures, unrecorded>>,
           invocations' \in [Callers -> 0..MaxInvocations]
    PROVE  TypeOK'
<1>1. breaker' \in Breakers
  BY ObservedBreaker DEF BeginAttempt
<1>2. n \in Nat /\ retried' \in Nat
  BY AttemptsAssumption DEF BeginAttempt, TypeOK
<1>3. attempt' = [attempt EXCEPT ![c] = n]
  BY DEF BeginAttempt
<1>4. \/ pc' = [pc EXCEPT ![c] = "idle"] /\ outcome' = [outcome EXCEPT ![c] = "budget_exceeded"]
      \/ pc' = [pc EXCEPT ![c] = "awaiting"] /\ outcome' = outcome
  BY DEF BeginAttempt, Finish
<1> QED
  BY <1>1, <1>2, <1>3, <1>4 DEF TypeOK, Outcomes

\* An invocation ends.
LEMMA FinishTypes ==
    ASSUME TypeOK, NEW c \in Callers, NEW how \in Outcomes, Finish(c, how),
           UNCHANGED <<breaker, attempt, delay>>, retried' = retried,
           invocations' \in [Callers -> 0..MaxInvocations],
           failures' \in Nat, unrecorded' \in Nat
    PROVE  TypeOK'
BY DEF TypeOK, Finish

\* Nobody has called yet.
LEMMA InitTypes == Init => TypeOK
<1>1. NewBreaker \in Breakers
  BY DEF NewBreaker, Breakers, CircuitStates
<1>2. 0 \in 0..MaxDelay /\ 0 \in 0..MaxInvocations
  BY DelayAssumption, InvocationsAssumption
<1> QED
  BY <1>1, <1>2 DEF Init, TypeOK, Outcomes

\* No step of a coroutine or of the clock breaks the types.
LEMMA NextTypes == TypeOK /\ [Next]_vars => TypeOK'
<1> SUFFICES ASSUME TypeOK, [Next]_vars PROVE TypeOK'
  OBVIOUS
<1>0. breaker \in Breakers /\ MaxAttempts \in [Callers -> Nat]
  BY AttemptsAssumption DEF TypeOK
<1>1. CASE Tick
  <2>1. breaker' \in Breakers
    BY <1>0, <1>1, ElapsedBreaker DEF Tick
  <2>2. delay' \in [Callers -> 0..MaxDelay]
    BY <1>1, DelayAssumption DEF Tick, TypeOK
  <2> QED
    BY <1>1, <2>1, <2>2 DEF Tick, TypeOK
<1>2. ASSUME NEW c \in Callers, Invoke(c) PROVE TypeOK'
  <2>1. invocations' \in [Callers -> 0..MaxInvocations]
    BY <1>2, InvocationsAssumption DEF Invoke, TypeOK
  <2>2. CASE MaxAttempts[c] > 0 /\ BeginAttempt(c, 1, breaker)
    <3>1. 1 \in 1..MaxAttempts[c]
      BY <1>0, <2>2
    <3> QED
      BY <1>0, <1>2, <2>1, <2>2, <3>1, BeginTypes DEF Invoke
  <2>3. CASE Finish(c, "raise_none") /\ UNCHANGED <<breaker, attempt, retried>>
    BY <1>2, <2>1, <2>3, FinishTypes DEF Invoke, TypeOK, Outcomes
  <2> QED
    BY <1>2, <2>2, <2>3 DEF Invoke
<1>3. ASSUME NEW c \in Callers, FuncReturns(c) \/ FuncRaisesOther(c) PROVE TypeOK'
  <2>1. PICK how \in Outcomes : Finish(c, how)
    BY <1>3 DEF FuncReturns, FuncRaisesOther, Outcomes
  <2> QED
    BY <1>3, <2>1, FinishTypes DEF FuncReturns, FuncRaisesOther, TypeOK
<1>4. ASSUME NEW c \in Callers, FuncRaisesRetryable(c) PROVE TypeOK'
  <2>1. failures' \in Nat /\ UNCHANGED <<breaker, attempt, invocations, retried>>
    BY <1>4 DEF FuncRaisesRetryable, TypeOK
  <2>2. CASE Finish(c, "exhausted") /\ unrecorded' = unrecorded + 1 /\ UNCHANGED delay
    BY <2>1, <2>2, FinishTypes DEF TypeOK, Outcomes
  <2>3. CASE /\ attempt[c] # MaxAttempts[c]
             /\ pc' = [pc EXCEPT ![c] = "sleeping"]
             /\ delay' = [delay EXCEPT ![c] = Backoff(attempt[c])]
             /\ UNCHANGED <<outcome, unrecorded>>
    <3>1. attempt[c] \in 1..MaxAttempts[c] /\ MaxAttempts[c] \in Nat
      BY <1>0, <1>4 DEF FuncRaisesRetryable, TypeOK
    <3>2. Backoff(attempt[c]) \in 0..MaxDelay
      BY <3>1, BackoffType
    <3>3. attempt[c] \in 1..(MaxAttempts[c] - 1)
      BY <2>3, <3>1
    <3> QED
      BY <2>1, <2>3, <3>2, <3>3 DEF TypeOK
  <2> QED
    BY <1>4, <2>2, <2>3 DEF FuncRaisesRetryable
<1>5. ASSUME NEW c \in Callers, Wake(c) PROVE TypeOK'
  <2> DEFINE recorded == Recorded(breaker, 1, Threshold, ResetTimeout)
  <2>1. /\ BeginAttempt(c, attempt[c] + 1, recorded)
        /\ UNCHANGED <<delay, invocations, failures, unrecorded>>
    BY <1>5 DEF Wake
  <2>2. recorded \in Breakers
    BY <1>0, RecordedFailure
  <2> HIDE DEF recorded
  <2>3. attempt[c] + 1 \in 1..MaxAttempts[c]
    <3>1. attempt[c] \in 1..(MaxAttempts[c] - 1) /\ MaxAttempts[c] \in Nat
      BY <1>0, <1>5 DEF Wake, TypeOK
    <3> QED
      BY <3>1
  <2>4. invocations' \in [Callers -> 0..MaxInvocations]
    BY <2>1 DEF TypeOK
  <2> QED
    BY <2>1, <2>2, <2>3, <2>4, BeginTypes
<1>6. CASE UNCHANGED vars
  BY <1>6 DEF vars, TypeOK
<1> QED
  BY <1>1, <1>2, <1>3, <1>4, <1>5, <1>6 DEF Next, FuncEnds

\* The sleepers, after one coroutine has moved.
LEMMA SleepersAfter ==
    ASSUME NEW c \in Callers, NEW where,
           pc \in [Callers -> {"idle", "awaiting", "sleeping"}],
           pc' = [pc EXCEPT ![c] = where]
    PROVE  Sleeping' = IF where = "sleeping" THEN Sleeping \cup {c} ELSE Sleeping \ {c}
BY DEF Sleeping

\* Their number.
LEMMA SleepersCount ==
    /\ IsFiniteSet(Sleeping)
    /\ Cardinality(Sleeping) \in Nat
    /\ \A c : /\ c \in Sleeping => Cardinality(Sleeping \ {c}) = Cardinality(Sleeping) - 1
              /\ c \notin Sleeping => /\ Cardinality(Sleeping \cup {c}) = Cardinality(Sleeping) + 1
                                      /\ Sleeping \ {c} = Sleeping
<1>1. IsFiniteSet(Sleeping)
  BY CallersAssumption, FS_Subset DEF Sleeping
<1>2. Cardinality(Sleeping) \in Nat
  BY <1>1, FS_CardinalityType
<1>3. ASSUME NEW c, c \in Sleeping
      PROVE  Cardinality(Sleeping \ {c}) = Cardinality(Sleeping) - 1
  BY <1>1, <1>3, FS_RemoveElement
<1>4. ASSUME NEW c, c \notin Sleeping
      PROVE  Cardinality(Sleeping \cup {c}) = Cardinality(Sleeping) + 1 /\ Sleeping \ {c} = Sleeping
  BY <1>1, <1>4, FS_AddElement
<1> QED BY <1>1, <1>2, <1>3, <1>4

\* No failure yet, and nobody asleep.
LEMMA RetryInitInvariant == Init => RetryInv
<1> SUFFICES ASSUME Init PROVE RetryInv
  OBVIOUS
<1>1. TypeOK /\ breaker.value = 0
  BY InitTypes DEF Init, NewBreaker
<1>2. Sleeping = {}
  BY DEF Init, Sleeping
<1>3. Cardinality(Sleeping) = 0
  BY <1>2, FS_EmptySet
<1>4. RetriesPaid /\ RetriesBounded /\ RetryAccounting
  BY <1>1, <1>3, ThresholdAssumption
  DEF Init, RetriesPaid, RetriesBounded, RetryAccounting
<1> QED BY <1>1, <1>4 DEF RetryInv

\* A coroutine that was not asleep leaves its await for "idle" or "awaiting".
LEMMA StaysAwake ==
    ASSUME NEW c \in Callers, pc[c] # "sleeping", NEW where \in {"idle", "awaiting"},
           pc \in [Callers -> {"idle", "awaiting", "sleeping"}],
           pc' = [pc EXCEPT ![c] = where]
    PROVE  Sleeping' = Sleeping
BY DEF Sleeping

\* A step moves one failure at a time: from a call to a sleeper, from a sleeper
\* to the breaker, or from a last attempt to nowhere.
LEMMA RetryStepInvariant == RetryInv /\ [Next]_vars => RetryInv'
<1> SUFFICES ASSUME RetryInv, [Next]_vars PROVE RetryInv'
  OBVIOUS
<1>0. /\ breaker \in Breakers /\ breaker.value \in Nat
      /\ pc \in [Callers -> {"idle", "awaiting", "sleeping"}]
      /\ failures \in Nat /\ unrecorded \in Nat /\ retried \in Nat
      /\ retried <= breaker.value /\ retried < Threshold
      /\ breaker.value + Cardinality(Sleeping) + unrecorded = failures
  BY DEF RetryInv, TypeOK, Breakers, RetriesPaid, RetriesBounded, RetryAccounting
<1>A. Threshold \in Nat /\ Cardinality(Sleeping) \in Nat
  BY ThresholdAssumption, SleepersCount
<1>T. TypeOK'
  BY NextTypes DEF RetryInv
\* The breaker keeps its value and the coroutines asleep stay the same.
<1>S. ASSUME breaker' \in Breakers, breaker'.value = breaker.value,
             pc' \in [Callers -> {"idle", "awaiting", "sleeping"}],
             Sleeping' = Sleeping,
             UNCHANGED <<failures, unrecorded, retried>>
      PROVE  RetryInv'
  <2>2. RetriesPaid' /\ RetriesBounded'
    BY <1>0, <1>S DEF RetriesPaid, RetriesBounded
  <2>3. RetryAccounting'
    BY <1>0, <1>S DEF RetryAccounting
  <2> QED BY <1>T, <2>2, <2>3 DEF RetryInv
<1>1. CASE Tick
  <2>1. Sleeping' = Sleeping
    BY <1>1 DEF Tick, Sleeping
  <2>2. breaker' \in Breakers /\ breaker'.value = breaker.value
    BY <1>0, <1>1, ElapsedBreaker DEF Tick
  <2> QED BY <1>0, <1>1, <1>S, <2>1, <2>2 DEF Tick
<1>2. ASSUME NEW c \in Callers, Invoke(c) PROVE RetryInv'
  <2>1. CASE MaxAttempts[c] = 0 /\ Finish(c, "raise_none") /\ UNCHANGED <<breaker, attempt, retried>>
    <3>1. pc' = [pc EXCEPT ![c] = "idle"] /\ pc[c] = "idle"
      BY <1>2, <2>1 DEF Invoke, Finish
    <3>2. Sleeping' = Sleeping
      BY <1>0, <3>1, StaysAwake
    <3>3. pc' \in [Callers -> {"idle", "awaiting", "sleeping"}]
      BY <1>0, <3>1
    <3> QED BY <1>0, <1>2, <1>S, <2>1, <3>2, <3>3 DEF Invoke
  <2>2. CASE BeginAttempt(c, 1, breaker)
    <3>1. PICK where \in {"idle", "awaiting"} : pc' = [pc EXCEPT ![c] = where]
      BY <1>0, <2>2, AfterBegin
    <3>2. pc[c] = "idle" /\ UNCHANGED <<failures, unrecorded>>
      BY <1>2 DEF Invoke
    <3>3. Sleeping' = Sleeping
      BY <1>0, <3>1, <3>2, StaysAwake
    <3>4. retried' = retried
      BY <2>2 DEF BeginAttempt
    <3>5. breaker' \in Breakers /\ breaker'.value = breaker.value
      BY <1>0, <2>2, AfterBegin
    <3>6. pc' \in [Callers -> {"idle", "awaiting", "sleeping"}]
      BY <1>0, <3>1
    <3> QED BY <1>S, <3>2, <3>3, <3>4, <3>5, <3>6
  <2> QED BY <1>2, <2>1, <2>2 DEF Invoke
<1>3. ASSUME NEW c \in Callers, FuncReturns(c) \/ FuncRaisesOther(c) PROVE RetryInv'
  <2>1. /\ pc' = [pc EXCEPT ![c] = "idle"] /\ pc[c] = "awaiting"
        /\ UNCHANGED <<breaker, failures, unrecorded, retried>>
    BY <1>3 DEF FuncReturns, FuncRaisesOther, Finish
  <2>2. Sleeping' = Sleeping
    BY <1>0, <2>1, StaysAwake
  <2>3. pc' \in [Callers -> {"idle", "awaiting", "sleeping"}]
    BY <1>0, <2>1
  <2> QED BY <1>0, <1>S, <2>1, <2>2, <2>3
<1>4. ASSUME NEW c \in Callers, FuncRaisesRetryable(c) PROVE RetryInv'
  <2>0. pc[c] = "awaiting" /\ failures' = failures + 1 /\ breaker' = breaker /\ retried' = retried
    BY <1>4 DEF FuncRaisesRetryable
  <2>1. CASE attempt[c] = MaxAttempts[c]
    <3>1. pc' = [pc EXCEPT ![c] = "idle"] /\ unrecorded' = unrecorded + 1
      BY <1>4, <2>1 DEF FuncRaisesRetryable, Finish
    <3>2. Sleeping' = Sleeping
      BY <1>0, <2>0, <3>1, StaysAwake
    <3>3. Cardinality(Sleeping') = Cardinality(Sleeping)
      BY <3>2
    <3>5. RetriesPaid' /\ RetriesBounded'
      BY <1>0, <2>0 DEF RetriesPaid, RetriesBounded
    <3>6. breaker.value + Cardinality(Sleeping) + (unrecorded + 1) = failures + 1
      BY <1>0, <1>A
    <3>7. RetryAccounting'
      BY <2>0, <3>1, <3>3, <3>6 DEF RetryAccounting
    <3> QED BY <1>T, <3>5, <3>7 DEF RetryInv
  <2>2. CASE attempt[c] # MaxAttempts[c]
    <3>1. pc' = [pc EXCEPT ![c] = "sleeping"] /\ unrecorded' = unrecorded
      BY <1>4, <2>2 DEF FuncRaisesRetryable
    <3>2. Sleeping' = Sleeping \cup {c} /\ c \notin Sleeping
      BY <1>0, <2>0, <3>1, SleepersAfter DEF Sleeping
    <3>3. Cardinality(Sleeping') = Cardinality(Sleeping) + 1
      BY <3>2, SleepersCount
    <3>5. RetriesPaid' /\ RetriesBounded'
      BY <1>0, <2>0 DEF RetriesPaid, RetriesBounded
    <3>6. RetryAccounting'
      BY <1>0, <1>A, <2>0, <3>1, <3>3 DEF RetryAccounting
    <3> QED BY <1>T, <3>5, <3>6 DEF RetryInv
  <2> QED BY <2>1, <2>2
<1>5. ASSUME NEW c \in Callers, Wake(c) PROVE RetryInv'
  <2> DEFINE recorded == Recorded(breaker, 1, Threshold, ResetTimeout)
  <2>1. /\ pc[c] = "sleeping"
        /\ BeginAttempt(c, attempt[c] + 1, recorded)
        /\ UNCHANGED <<failures, unrecorded>>
    BY <1>5 DEF Wake
  <2>2. /\ recorded \in Breakers
        /\ recorded.value = breaker.value + 1
        /\ breaker.value + 1 < Threshold \/ IsOpen(recorded)
    BY <1>0, RecordedFailure
  <2> HIDE DEF recorded
  <2>3. breaker' \in Breakers /\ breaker'.value = breaker.value + 1
    BY <1>0, <2>1, <2>2, AfterBegin
  <2>4. retried' = retried \/ (retried' = retried + 1 /\ ~IsOpen(recorded))
    BY <1>0, <2>1, <2>2, AfterBegin
  <2>5. PICK where \in {"idle", "awaiting"} : pc' = [pc EXCEPT ![c] = where]
    BY <1>0, <2>1, <2>2, AfterBegin
  <2>6. Sleeping' = Sleeping \ {c} /\ c \in Sleeping
    BY <1>0, <2>1, <2>5, SleepersAfter DEF Sleeping
  <2>7. Cardinality(Sleeping') = Cardinality(Sleeping) - 1
    BY <2>6, SleepersCount
  <2>9. RetriesPaid' /\ RetriesBounded'
    BY <1>0, <1>A, <2>2, <2>3, <2>4 DEF RetriesPaid, RetriesBounded
  <2>10. RetryAccounting'
    BY <1>0, <1>A, <2>1, <2>3, <2>7 DEF RetryAccounting
  <2> QED BY <1>T, <2>9, <2>10 DEF RetryInv
<1>6. CASE UNCHANGED vars
  <2>1. Sleeping' = Sleeping
    BY <1>6 DEF vars, Sleeping
  <2> QED BY <1>0, <1>6, <1>S, <2>1 DEF vars
<1> QED BY <1>1, <1>2, <1>3, <1>4, <1>5, <1>6 DEF Next, FuncEnds

\* The inductive invariant holds in every behaviour of retry_async.
THEOREM RetryInvariance == Spec => []RetryInv
BY RetryInitInvariant, RetryStepInvariant, PTL DEF Spec

\* Types; no sleep over max_delay_seconds, no attempt over max_attempts.
THEOREM RetryTypeCorrect == Spec => []TypeOK
BY RetryInvariance, PTL DEF RetryInv

\* The breaker bounds the calls on later attempts of all coroutines together
\* (retry.py:149-150, 182-183).
THEOREM BoundedRetries == Spec => []RetriesBounded
BY RetryInvariance, PTL DEF RetryInv

\* What the breaker's value counts (retry.py:155-183).
THEOREM FailuresAccounted == Spec => []RetryAccounting
BY RetryInvariance, PTL DEF RetryInv

-------------------------------------------------------------------------------
\* What holds of the breaker with clients of any kind holds of the one that
\* retry_async feeds, although it checks in the same step as it records.
LEMMA RetryStepClosed ==
    TypeOK /\ ClosedIffUnderThreshold /\ [Next]_vars => ClosedIffUnderThreshold'
<1> SUFFICES ASSUME TypeOK, ClosedIffUnderThreshold, [Next]_vars
             PROVE  ClosedIffUnderThreshold'
  OBVIOUS
<1>0. /\ breaker \in Breakers /\ breaker.value \in Nat /\ Threshold \in Nat
      /\ breaker.state = "CLOSED" <=> breaker.value < Threshold
  BY ThresholdAssumption DEF TypeOK, ClosedIffUnderThreshold, Breakers
<1>1. ASSUME NEW b \in Breakers, b.state = "CLOSED" <=> b.value < Threshold,
             breaker' = Observed(b)
      PROVE  ClosedIffUnderThreshold'
  BY <1>1, ObservedBreaker DEF ClosedIffUnderThreshold
<1>2. CASE UNCHANGED breaker
  BY <1>0, <1>2 DEF ClosedIffUnderThreshold
<1>3. CASE Tick
  BY <1>0, <1>3, ElapsedBreaker DEF Tick, ClosedIffUnderThreshold
<1>4. ASSUME NEW c \in Callers, Invoke(c) PROVE ClosedIffUnderThreshold'
  BY <1>0, <1>1, <1>2, <1>4 DEF Invoke, BeginAttempt
<1>5. ASSUME NEW c \in Callers, FuncEnds(c) PROVE ClosedIffUnderThreshold'
  BY <1>2, <1>5 DEF FuncEnds, FuncReturns, FuncRaisesOther, FuncRaisesRetryable
<1>6. ASSUME NEW c \in Callers, Wake(c) PROVE ClosedIffUnderThreshold'
  <2> DEFINE recorded == Recorded(breaker, 1, Threshold, ResetTimeout)
  <2>1. Threshold \in Nat /\ ResetTimeout \in Nat /\ 1 \in Nat /\ breaker \in Breakers
    BY <1>0, ResetTimeoutAssumption
  <2>2. /\ recorded \in Breakers
        /\ recorded.value = breaker.value + 1
        /\ breaker.value + 1 >= Threshold => recorded.state = "OPEN"
        /\ breaker.value + 1 < Threshold => recorded.state = breaker.state
    BY <2>1, RecordedBreaker
  <2>3. breaker' = Observed(recorded)
    BY <1>6 DEF Wake, BeginAttempt
  <2> HIDE DEF recorded
  <2>4. recorded.state = "CLOSED" <=> recorded.value < Threshold
    BY <1>0, <2>2
  <2> QED
    BY <1>1, <2>2, <2>3, <2>4
<1>7. CASE UNCHANGED vars
  BY <1>2, <1>7 DEF vars
<1> QED
  BY <1>3, <1>4, <1>5, <1>6, <1>7 DEF Next

\* Also under retry_async the breaker is CLOSED exactly under its threshold: no
\* coroutine that succeeds, gives up or is rejected closes it again
\* (retry.py:77-98, 148-183).
THEOREM RetryClosedExactly == Spec => []ClosedIffUnderThreshold
<1>1. Init => ClosedIffUnderThreshold
  BY ThresholdAssumption DEF Init, NewBreaker, ClosedIffUnderThreshold
<1> QED
  BY <1>1, InitTypes, NextTypes, RetryStepClosed, PTL DEF Spec
===============================================================================
