---------------------------- MODULE CircuitBreaker ----------------------------
(***************************************************************************)
(* One CircuitBreaker (pipeline/shared/retry.py) used by clients that each *)
(* call check() before an operation, run the operation across an await,    *)
(* and call record(amount) afterwards.  Several operations may be between  *)
(* their check and their record at once: the event loop switches clients   *)
(* at the await, so check and record are separate atomic steps.            *)
(***************************************************************************)
EXTENDS SharedBreaker

CONSTANTS Amounts,        \* the values passed to record
          MaxValue,       \* bound: no record beyond this value
          MaxInFlight     \* bound: operations between check and record

ASSUME AmountsAssumption == Amounts \subseteq Nat
ASSUME BoundsAssumption == MaxValue \in Nat /\ MaxInFlight \in Nat

VARIABLES inFlight,   \* operations whose check passed and that have not recorded
          quiet       \* history: time since the last record that left the value
                      \* at or over the threshold, capped at ResetTimeout

breakerVars == <<breaker, inFlight, quiet>>

BreakerInit ==
    /\ breaker = NewBreaker
    /\ inFlight = 0
    /\ quiet = 0

\* check() passes: the operation may start.
CheckPasses ==
    /\ inFlight < MaxInFlight
    /\ ~IsOpen(breaker)
    /\ breaker' = Observed(breaker)
    /\ inFlight' = inFlight + 1
    /\ UNCHANGED quiet

\* check() raises BudgetExceededError: the operation never starts.
CheckRaises ==
    /\ IsOpen(breaker)
    /\ breaker' = Observed(breaker)
    /\ UNCHANGED <<inFlight, quiet>>

\* An operation comes back from its await and records its cost.
Record ==
    \E amount \in Amounts :
        /\ inFlight > 0
        /\ breaker.value + amount <= MaxValue
        /\ breaker' = Recorded(breaker, amount, Threshold, ResetTimeout)
        /\ inFlight' = inFlight - 1
        /\ quiet' = IF breaker.value + amount >= Threshold THEN 0 ELSE quiet

\* An operation fails or is cancelled across its await and records nothing.
Abandon ==
    /\ inFlight > 0
    /\ inFlight' = inFlight - 1
    /\ UNCHANGED <<breaker, quiet>>

Reset ==
    /\ breaker' = Cleared(breaker)
    /\ UNCHANGED <<inFlight, quiet>>

BreakerTick ==
    /\ breaker' = Elapsed(breaker)
    /\ quiet' = IF quiet < ResetTimeout THEN quiet + 1 ELSE quiet
    /\ UNCHANGED inFlight

BreakerNext == CheckPasses \/ CheckRaises \/ Record \/ Abandon \/ Reset \/ BreakerTick

BreakerSpec == BreakerInit /\ [][BreakerNext]_breakerVars

\* Time passes; nothing is assumed of the clients.
BreakerFairSpec == BreakerSpec /\ WF_breakerVars(BreakerTick)

-------------------------------------------------------------------------------
\* Types of the breaker, the in-flight count and the history clock.
BreakerTypeOK ==
    /\ breaker \in Breakers
    /\ inFlight \in 0..MaxInFlight
    /\ quiet \in 0..ResetTimeout

\* The breaker is CLOSED exactly while the recorded value is under the
\* threshold, whatever interleaving of late records, resets and expired
\* timeouts led there: HALF_OPEN is not a way back to CLOSED
\* (retry.py:77-98).
ClosedIffUnderThreshold ==
    breaker.state = "CLOSED" <=> breaker.value < Threshold

\* Once tripped, the breaker has let exactly the time not spent in quiet since
\* the last over-threshold record pass on its timeout: a record that arrives
\* late, also in the OPEN state, starts the whole timeout again
\* (retry.py:80, 93, 105-107).  HALF_OPEN is reached with the timeout spent.
CooldownCountsQuiet ==
    /\ breaker.state # "CLOSED" => breaker.cooldown + quiet = ResetTimeout
    /\ breaker.state = "HALF_OPEN" => breaker.cooldown = 0

\* An operation is admitted over the threshold only after a full reset timeout
\* in which no operation recorded anything, and it finds the breaker HALF_OPEN
\* (retry.py:79-82, 100-103).
AdmissionNeedsQuiet ==
    [][ (inFlight' > inFlight /\ breaker.value >= Threshold)
            => (quiet = ResetTimeout /\ breaker'.state = "HALF_OPEN") ]_breakerVars

\* Only reset() closes a tripped breaker, and it forgets the whole recorded
\* value; no successful call and no timeout does.  In particular the record of
\* a call admitted in HALF_OPEN, however small, trips it again
\* (retry.py:89-98).
RecoveryNeedsReset ==
    [][ breaker.state # "CLOSED" =>
            /\ breaker'.state = "CLOSED" => breaker'.value = 0
            /\ breaker'.value # breaker.value => breaker'.state # "HALF_OPEN" ]_breakerVars

\* Rejection is never permanent: an OPEN breaker comes to admit calls again by
\* the passing of time alone, although operations admitted before the trip may
\* come back late and re-arm the timeout (retry.py:77-83, 105-107).
RejectionEnds ==
    IsOpen(breaker) ~> ~IsOpen(breaker)

===============================================================================
