------------------------------- MODULE Breaker -------------------------------
(***************************************************************************)
(* The circuit breaker object of pipeline/shared/retry.py as a value and   *)
(* the operators its methods apply to it.  CircuitBreaker drives one       *)
(* breaker; RetryAsync and CostBudget hold breakers in their state.        *)
(*                                                                         *)
(* The monotonic clock is abstracted: instead of _last_trip_time a breaker *)
(* carries the time left until the reset timeout has elapsed since the     *)
(* last trip, so "elapsed >= reset_timeout_seconds" is cooldown = 0.       *)
(*                                                                         *)
(* An operator marked "Mutant" is a plausible bug in the definition below  *)
(* it; nothing uses it but the check that the properties notice the bug.   *)
(***************************************************************************)
EXTENDS Integers

CircuitStates == {"CLOSED", "OPEN", "HALF_OPEN"}

Breakers == [state : CircuitStates, value : Nat, cooldown : Nat]

NewBreaker == [state |-> "CLOSED", value |-> 0, cooldown |-> 0]

\* Mutant: the timeout counts as elapsed one time unit early.
ObservedEarly(b) ==
    [b EXCEPT !.state = IF @ = "OPEN" /\ b.cooldown <= 1 THEN "HALF_OPEN" ELSE @]

\* Mutant: an expired timeout closes the breaker, keeping the value.
ObservedCloses(b) ==
    [b EXCEPT !.state = IF @ = "OPEN" /\ b.cooldown = 0 THEN "CLOSED" ELSE @]

\* Reading the state property moves an expired OPEN breaker to HALF_OPEN.
Observed(b) ==
    [b EXCEPT !.state = IF @ = "OPEN" /\ b.cooldown = 0 THEN "HALF_OPEN" ELSE @]

\* Mutant: is_open reads the field _state instead of the property state.
IsOpenRaw(b) == b.state = "OPEN"

\* is_open, and the condition under which check raises.
IsOpen(b) == Observed(b).state = "OPEN"

\* Mutant: a breaker that is OPEN already does not re-arm its timeout.
TrippedOnce(b, timeout) ==
    IF b.state = "OPEN" THEN b ELSE [b EXCEPT !.state = "OPEN", !.cooldown = timeout]

\* _trip re-arms the reset timeout, also when the breaker is already OPEN.
Tripped(b, timeout) == [b EXCEPT !.state = "OPEN", !.cooldown = timeout]

\* Mutant: > instead of >=, the off-by-one at the threshold.
RecordedOver(b, amount, threshold, timeout) ==
    LET added == [b EXCEPT !.value = @ + amount]
    IN  IF added.value > threshold THEN Tripped(added, timeout) ELSE added

\* record: add first, compare with the threshold afterwards.
Recorded(b, amount, threshold, timeout) ==
    LET added == [b EXCEPT !.value = @ + amount]
    IN  IF added.value >= threshold THEN Tripped(added, timeout) ELSE added

\* reset keeps _last_trip_time.
Cleared(b) == [b EXCEPT !.state = "CLOSED", !.value = 0]

\* Mutant: the clock runs past the end of the timeout.
ElapsedBelowZero(b) == [b EXCEPT !.cooldown = @ - 1]

\* One unit of monotonic time passes; nothing but the clock changes.
Elapsed(b) == [b EXCEPT !.cooldown = IF @ > 0 THEN @ - 1 ELSE 0]
==============================================================================
