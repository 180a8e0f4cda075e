------------------------------ MODULE RetryAsync ------------------------------
(***************************************************************************)
(* retry_async (pipeline/shared/retry.py): coroutines that each run one    *)
(* call of an external function at a time with retries, all checking and   *)
(* feeding the same circuit breaker.                                       *)
(*                                                                         *)
(* A coroutine gives up the event loop at its two awaits only: in the      *)
(* function it calls and in the sleep between attempts.  What it does from *)
(* one await to the next is one step; in particular the record() after a   *)
(* sleep and the check() at the head of the next attempt are one step.     *)
(* The function is external: it returns, raises an exception the           *)
(* configuration retries, or raises another one, after any time.           *)
(***************************************************************************)
EXTENDS SharedBreaker, FiniteSets

CONSTANTS Callers,         \* coroutines sharing the breaker
          MaxAttempts,     \* [Callers -> Nat]: config.max_attempts of each
          BaseDelay,       \* base_delay_seconds, in clock units
          MaxDelay,        \* max_delay_seconds
          ExponentialBase, \* exponential_base
          MaxInvocations   \* bound: calls of retry_async each caller makes

ASSUME CallersAssumption == IsFiniteSet(Callers)
ASSUME AttemptsAssumption == MaxAttempts \in [Callers -> Nat]
ASSUME DelayAssumption == BaseDelay \in Nat /\ MaxDelay \in Nat
ASSUME PowersAssumption ==
    \A c \in Callers : \A n \in 1..MaxAttempts[c] : ExponentialBase^(n - 1) \in Nat
ASSUME TimeoutAssumption == ResetTimeout > 0
ASSUME InvocationsAssumption == MaxInvocations \in Nat

Outcomes == {"none", "result", "budget_exceeded", "exhausted", "not_retryable",
             "raise_none"}

VARIABLES pc,            \* where each coroutine is suspended, or "idle"
          attempt,       \* the loop variable of each running invocation
          delay,         \* time each sleeping coroutine still sleeps
          outcome,       \* how the last invocation of each caller ended
          invocations,   \* history: invocations each caller has begun
          failures,      \* history: retryable failures, over all callers
          unrecorded,    \* history: last-attempt failures, over all callers
          retried        \* history: calls of func on a second or later attempt

vars == <<breaker, pc, attempt, delay, outcome, invocations, failures,
          unrecorded, retried>>

Init ==
    /\ breaker = NewBreaker
    /\ pc = [c \in Callers |-> "idle"]
    /\ attempt = [c \in Callers |-> 0]
    /\ delay = [c \in Callers |-> 0]
    /\ outcome = [c \in Callers |-> "none"]
    /\ invocations = [c \in Callers |-> 0]
    /\ failures = 0
    /\ unrecorded = 0
    /\ retried = 0

\* Mutant: no cap on the exponential delay.
BackoffUncapped(n) == BaseDelay * ExponentialBase^(n - 1)

\* The delay after the n-th attempt.
Backoff(n) ==
    LET exponential == BaseDelay * ExponentialBase^(n - 1)
    IN  IF exponential < MaxDelay THEN exponential ELSE MaxDelay

Finish(c, how) ==
    /\ pc' = [pc EXCEPT ![c] = "idle"]
    /\ outcome' = [outcome EXCEPT ![c] = how]

\* The head of the loop in attempt n, reached with the breaker equal to b:
\* check() raises out of retry_async or func is called.
BeginAttempt(c, n, b) ==
    /\ breaker' = Observed(b)
    /\ attempt' = [attempt EXCEPT ![c] = n]
    /\ \/ /\ IsOpen(b)
          /\ Finish(c, "budget_exceeded")
          /\ UNCHANGED retried
       \/ /\ ~IsOpen(b)
          /\ pc' = [pc EXCEPT ![c] = "awaiting"]
          /\ retried' = IF n > 1 THEN retried + 1 ELSE retried
          /\ UNCHANGED outcome

\* A caller enters retry_async.  With max_attempts = 0 the loop body never
\* runs and "raise last_exception" raises None, a TypeError.
Invoke(c) ==
    /\ pc[c] = "idle"
    /\ invocations[c] < MaxInvocations
    /\ invocations' = [invocations EXCEPT ![c] = @ + 1]
    /\ \/ /\ MaxAttempts[c] > 0
          /\ BeginAttempt(c, 1, breaker)
       \/ /\ MaxAttempts[c] = 0
          /\ Finish(c, "raise_none")
          /\ UNCHANGED <<breaker, attempt, retried>>
    /\ UNCHANGED <<delay, failures, unrecorded>>

FuncReturns(c) ==
    /\ pc[c] = "awaiting"
    /\ Finish(c, "result")
    /\ UNCHANGED <<breaker, attempt, delay, invocations, failures, unrecorded, retried>>

\* An exception outside retryable_exceptions leaves retry_async at once.
FuncRaisesOther(c) ==
    /\ pc[c] = "awaiting"
    /\ Finish(c, "not_retryable")
    /\ UNCHANGED <<breaker, attempt, delay, invocations, failures, unrecorded, retried>>

\* A retryable exception: the last attempt gives up without a record, the
\* others go to sleep.
FuncRaisesRetryable(c) ==
    /\ pc[c] = "awaiting"
    /\ failures' = failures + 1
    /\ \/ /\ attempt[c] = MaxAttempts[c]
          /\ Finish(c, "exhausted")
          /\ unrecorded' = unrecorded + 1
          /\ UNCHANGED delay
       \/ /\ attempt[c] # MaxAttempts[c]
          /\ pc' = [pc EXCEPT ![c] = "sleeping"]
          /\ delay' = [delay EXCEPT ![c] = Backoff(attempt[c])]
          /\ UNCHANGED <<outcome, unrecorded>>
    /\ UNCHANGED <<breaker, attempt, invocations, retried>>

\* Mutant: the next attempt is checked before the failure is recorded.
WakeCheckFirst(c) ==
    /\ pc[c] = "sleeping"
    /\ delay[c] = 0
    /\ attempt' = [attempt EXCEPT ![c] = @ + 1]
    /\ breaker' = Recorded(Observed(breaker), 1, Threshold, ResetTimeout)
    /\ \/ IsOpen(breaker) /\ Finish(c, "budget_exceeded") /\ UNCHANGED retried
       \/ /\ ~IsOpen(breaker)
          /\ pc' = [pc EXCEPT ![c] = "awaiting"]
          /\ retried' = retried + 1
          /\ UNCHANGED outcome
    /\ UNCHANGED <<delay, invocations, failures, unrecorded>>

\* Mutant: a sleeper wakes without recording its failure.
WakeUnrecorded(c) ==
    /\ pc[c] = "sleeping"
    /\ delay[c] = 0
    /\ BeginAttempt(c, attempt[c] + 1, breaker)
    /\ UNCHANGED <<delay, invocations, failures, unrecorded>>

\* Mutant: a sleeper waits for the breaker to close instead of being rejected.
WakeWhenClosed(c) ==
    /\ pc[c] = "sleeping"
    /\ delay[c] = 0
    /\ breaker.state = "CLOSED"
    /\ BeginAttempt(c, attempt[c] + 1, Recorded(breaker, 1, Threshold, ResetTimeout))
    /\ UNCHANGED <<delay, invocations, failures, unrecorded>>

\* The sleep is over: record the failure, then check and begin the next attempt.
Wake(c) ==
    /\ pc[c] = "sleeping"
    /\ delay[c] = 0
    /\ BeginAttempt(c, attempt[c] + 1, Recorded(breaker, 1, Threshold, ResetTimeout))
    /\ UNCHANGED <<delay, invocations, failures, unrecorded>>

Tick ==
    /\ breaker' = Elapsed(breaker)
    /\ delay' = [c \in Callers |-> IF delay[c] > 0 THEN delay[c] - 1 ELSE 0]
    /\ UNCHANGED <<pc, attempt, outcome, invocations, failures, unrecorded, retried>>

FuncEnds(c) == FuncReturns(c) \/ FuncRaisesOther(c) \/ FuncRaisesRetryable(c)

Next == Tick \/ \E c \in Callers : Invoke(c) \/ FuncEnds(c) \/ Wake(c)

Spec == Init /\ [][Next]_vars

\* The event loop wakes sleepers, time passes, and the called function ends in
\* one of its three ways (an HTTP client has its own timeout).
FairSpec ==
    /\ Spec
    /\ WF_vars(Tick)
    /\ \A c \in Callers : WF_vars(FuncEnds(c)) /\ WF_vars(Wake(c))

-------------------------------------------------------------------------------
\* Types; a coroutine never sleeps longer than max_delay_seconds, never calls
\* func more than max_attempts times, and never sleeps after the last attempt.
TypeOK ==
    /\ breaker \in Breakers
    /\ pc \in [Callers -> {"idle", "awaiting", "sleeping"}]
    /\ attempt \in [Callers -> Nat]
    /\ \A c \in Callers :
          /\ pc[c] = "awaiting" => attempt[c] \in 1..MaxAttempts[c]
          /\ pc[c] = "sleeping" => attempt[c] \in 1..(MaxAttempts[c] - 1)
    /\ delay \in [Callers -> 0..MaxDelay]
    /\ outcome \in [Callers -> Outcomes]
    /\ invocations \in [Callers -> 0..MaxInvocations]
    /\ failures \in Nat /\ unrecorded \in Nat /\ retried \in Nat

Sleeping == {c \in Callers : pc[c] = "sleeping"}

\* The breaker's value is the number of retryable failures, less those of
\* coroutines still asleep (the record comes after the sleep) and less every
\* failure of a last attempt (which is never recorded) (retry.py:155-183).
RetryAccounting ==
    breaker.value + Cardinality(Sleeping) + unrecorded = failures

\* However many coroutines share the breaker, and however often it goes through
\* HALF_OPEN again, func is called on a second or later attempt fewer than
\* Threshold times altogether: the breaker stops runaway retry loops
\* (retry.py:6, 149-150, 182-183).
RetriesBounded == retried < Threshold

\* Every invocation of retry_async ends: in a result, in the last exception or
\* in BudgetExceededError.
EveryInvocationEnds ==
    \A c \in Callers : pc[c] # "idle" ~> pc[c] = "idle"
===============================================================================
