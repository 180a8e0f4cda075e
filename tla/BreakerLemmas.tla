----------------------------- MODULE BreakerLemmas -----------------------------
(***************************************************************************)
(* What each method of the circuit breaker returns, for every breaker,     *)
(* amount, threshold and timeout: the facts that the proofs about the      *)
(* components holding breakers rest on, so that none of them has to expand *)
(* the operators of Breaker.                                               *)
(***************************************************************************)
EXTENDS Breaker, TLAPS

\* Looking at a breaker keeps its value and its clock, and never closes it.
LEMMA ObservedBreaker ==
    ASSUME NEW b \in Breakers
    PROVE  /\ Observed(b) \in Breakers
           /\ Observed(b).value = b.value
           /\ Observed(b).cooldown = b.cooldown
           /\ b.state = "OPEN" /\ b.cooldown = 0 => Observed(b).state = "HALF_OPEN"
           /\ ~(b.state = "OPEN" /\ b.cooldown = 0) => Observed(b).state = b.state
BY DEF Observed, Breakers, CircuitStates

\* A breaker rejects exactly while it is OPEN with time left on its timeout.
LEMMA OpenBreaker ==
    ASSUME NEW b \in Breakers
    PROVE  IsOpen(b) <=> b.state = "OPEN" /\ b.cooldown > 0
BY DEF IsOpen, Observed, Breakers, CircuitStates

\* A record adds its amount; at the threshold it trips with the full timeout,
\* below it changes nothing else.
LEMMA RecordedBreaker ==
    ASSUME NEW b \in Breakers, NEW amount \in Nat, NEW t \in Nat, NEW timeout \in Nat
    PROVE  /\ Recorded(b, amount, t, timeout) \in Breakers
           /\ Recorded(b, amount, t, timeout).value = b.value + amount
           /\ b.value + amount >= t =>
                 /\ Recorded(b, amount, t, timeout).state = "OPEN"
                 /\ Recorded(b, amount, t, timeout).cooldown = timeout
           /\ b.value + amount < t =>
                 /\ Recorded(b, amount, t, timeout).state = b.state
                 /\ Recorded(b, amount, t, timeout).cooldown = b.cooldown
<1> DEFINE added == [b EXCEPT !.value = @ + amount]
<1>1. /\ added \in Breakers
      /\ added.value = b.value + amount
      /\ added.state = b.state
      /\ added.cooldown = b.cooldown
  BY DEF Breakers
<1>2. Recorded(b, amount, t, timeout) =
        IF added.value >= t THEN Tripped(added, timeout) ELSE added
  BY DEF Recorded
<1>3. /\ Tripped(added, timeout) \in Breakers
      /\ Tripped(added, timeout).value = added.value
      /\ Tripped(added, timeout).state = "OPEN"
      /\ Tripped(added, timeout).cooldown = timeout
  <2> HIDE DEF added
  <2> QED BY <1>1 DEF Tripped, Breakers, CircuitStates
<1>4. b.value + amount \in Nat
  BY DEF Breakers
<1> HIDE DEF added
<1> QED BY <1>1, <1>2, <1>3, <1>4

\* A reset closes the breaker and forgets the value, not the clock.
LEMMA ClearedBreaker ==
    ASSUME NEW b \in Breakers
    PROVE  /\ Cleared(b) \in Breakers
           /\ Cleared(b).state = "CLOSED"
           /\ Cleared(b).value = 0
           /\ Cleared(b).cooldown = b.cooldown
BY DEF Cleared, Breakers, CircuitStates

\* Time runs on the clock alone, down to zero.
LEMMA ElapsedBreaker ==
    ASSUME NEW b \in Breakers
    PROVE  /\ Elapsed(b) \in Breakers
           /\ Elapsed(b).state = b.state
           /\ Elapsed(b).value = b.value
           /\ Elapsed(b).cooldown = IF b.cooldown > 0 THEN b.cooldown - 1 ELSE 0
BY DEF Elapsed, Breakers, CircuitStates
================================================================================
