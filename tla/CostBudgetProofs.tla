--------------------------- MODULE CostBudgetProofs ---------------------------
(***************************************************************************)
(* Proofs about CostBudget, for every set of agents, all limits, latencies *)
(* and timeouts.                                                           *)
(*                                                                         *)
(* RefusedWhileCharged is not inductive: it needs to know that the breaker *)
(* of a spent dimension counts down exactly the time that the dimension    *)
(* has still to stay without a charge (ClockTold).                         *)
(***************************************************************************)
EXTENDS CostBudget, BreakerLemmas, TLAPS

ClockTold ==
    \A d \in Dimensions :
        /\ breakers[d].state # "CLOSED" => breakers[d].cooldown + quiet[d] = ResetTimeout
        /\ breakers[d].state = "HALF_OPEN" => breakers[d].cooldown = 0

IInv == TypeOK /\ BreakersMatchTotals /\ ClockTold

-------------------------------------------------------------------------------
\* The parts of the state and the constants, with their types.
LEMMA Parts ==
    ASSUME TypeOK, NEW d \in Dimensions
    PROVE  /\ breakers[d] \in Breakers /\ spent[d] \in Nat /\ quiet[d] \in 0..ResetTimeout
           /\ breakers[d].cooldown \in Nat
           /\ breakers[d].state \in {"CLOSED", "OPEN", "HALF_OPEN"}
           /\ Limit[d] \in Nat \ {0} /\ Limit[d] \in Nat
           /\ ResetTimeout \in Nat \ {0}
<1>1. breakers[d] \in Breakers
  BY DEF TypeOK
<1>2. breakers[d].cooldown \in Nat /\ breakers[d].state \in {"CLOSED", "OPEN", "HALF_OPEN"}
  BY <1>1 DEF Breakers, CircuitStates
<1> QED
  BY <1>1, <1>2, LimitAssumption, TimeoutAssumption DEF TypeOK

\* What a charge does to one dimension.
LEMMA ChargedDimension ==
    ASSUME TypeOK, BreakersMatchTotals, NEW cost, Charge(cost),
           \A c \in DOMAIN cost : cost[c] \in Nat,
           NEW d \in Dimensions
    PROVE  /\ breakers'[d] \in Breakers /\ spent'[d] \in Nat /\ spent[d] <= spent'[d]
           /\ breakers'[d].value = spent'[d]
           /\ d \notin DOMAIN cost => breakers'[d] = breakers[d] /\ spent'[d] = spent[d]
           /\ d \in DOMAIN cost =>
                 /\ spent'[d] = spent[d] + cost[d]
                 /\ breakers'[d].state = IF spent'[d] < Limit[d] THEN "CLOSED" ELSE "OPEN"
                 /\ spent'[d] >= Limit[d] => breakers'[d].cooldown = ResetTimeout
<1>1. /\ spent[d] \in Nat /\ breakers[d] \in Breakers /\ Limit[d] \in Nat
      /\ ResetTimeout \in Nat
  BY Parts, TimeoutAssumption
<1>2. /\ breakers[d].value = spent[d]
      /\ breakers[d].state = "CLOSED" <=> spent[d] < Limit[d]
  BY DEF BreakersMatchTotals
<1>3. /\ spent'[d] = IF d \in DOMAIN cost THEN spent[d] + cost[d] ELSE spent[d]
      /\ breakers'[d] = IF d \in DOMAIN cost
                        THEN Recorded(breakers[d], cost[d], Limit[d], ResetTimeout)
                        ELSE breakers[d]
  BY DEF Charge
<1>4. CASE d \notin DOMAIN cost
  BY <1>1, <1>2, <1>3, <1>4
<1>5. CASE d \in DOMAIN cost
  <2> DEFINE b == breakers[d]
             t == Limit[d]
             amount == cost[d]
             r == Recorded(b, amount, t, ResetTimeout)
  <2>1. b \in Breakers /\ amount \in Nat /\ t \in Nat /\ ResetTimeout \in Nat
    BY <1>1, <1>5
  <2>2. spent'[d] = spent[d] + amount /\ breakers'[d] = r /\ b.value = spent[d]
    BY <1>2, <1>3, <1>5
  <2>3. b.state = "CLOSED" <=> spent[d] < t
    BY <1>2
  <2> HIDE DEF b, t, amount
  <2>4. /\ r \in Breakers /\ r.value = b.value + amount
        /\ b.value + amount >= t => r.state = "OPEN" /\ r.cooldown = ResetTimeout
        /\ b.value + amount < t => r.state = b.state
    BY <2>1, RecordedBreaker
  <2> HIDE DEF r
  <2>5. /\ r.state = IF spent[d] + amount < t THEN "CLOSED" ELSE "OPEN"
        /\ spent[d] + amount >= t => r.cooldown = ResetTimeout
    BY <1>1, <2>1, <2>2, <2>3, <2>4
  <2> QED
    BY <1>1, <1>5, <2>1, <2>2, <2>4, <2>5 DEF t, amount
<1> QED
  BY <1>4, <1>5

\* What looking at the breakers does to one dimension.
LEMMA LookedDimension ==
    ASSUME TypeOK, NEW ds, Look(ds), NEW d \in Dimensions
    PROVE  /\ breakers'[d] \in Breakers /\ breakers'[d].value = breakers[d].value
           /\ breakers'[d].cooldown = breakers[d].cooldown
           /\ \/ breakers'[d].state = breakers[d].state
              \/ /\ breakers[d].state = "OPEN" /\ breakers'[d].state = "HALF_OPEN"
                 /\ breakers[d].cooldown = 0
<1>1. breakers[d] \in Breakers
  BY Parts
<1>2. breakers'[d] = IF d \in ds THEN Observed(breakers[d]) ELSE breakers[d]
  BY DEF Look
<1> QED
  BY <1>1, <1>2, ObservedBreaker

-------------------------------------------------------------------------------
\* A new tracker with idle agents.
LEMMA InitInv == Init => IInv
<1> SUFFICES ASSUME Init PROVE IInv
  OBVIOUS
<1>1. /\ breakers = [d \in Dimensions |-> NewBreaker] /\ spent = [d \in Dimensions |-> 0]
      /\ pc = [a \in Agents |-> "idle"] /\ flagged = FALSE
      /\ quiet = [d \in Dimensions |-> ResetTimeout] /\ starts = [a \in Agents |-> 0]
  BY DEF Init, FreshTracker
<1>2. NewBreaker \in Breakers /\ NewBreaker.state = "CLOSED" /\ NewBreaker.value = 0
  BY DEF NewBreaker, Breakers, CircuitStates
<1>3. 0 \in 0..MaxStarts /\ ResetTimeout \in 0..ResetTimeout
  BY BoundsAssumption, TimeoutAssumption
<1>4. TypeOK
  BY <1>1, <1>2, <1>3 DEF TypeOK
<1>5. BreakersMatchTotals
  BY <1>1, <1>2, LimitAssumption DEF BreakersMatchTotals
<1>6. ClockTold
  BY <1>1, <1>2 DEF ClockTold
<1> QED
  BY <1>4, <1>5, <1>6 DEF IInv

\* What the agents are doing, apart from the breakers.
ControlOK ==
    /\ pc \in [Agents -> {"idle", "working", "awaiting", "escalated"}]
    /\ flagged \in BOOLEAN
    /\ starts \in [Agents -> 0..MaxStarts]

\* The steps of an agent that charge nothing and look at no breaker.
LEMMA OtherStep ==
    ASSUME IInv, UNCHANGED <<breakers, spent, quiet>>, ControlOK'
    PROVE  IInv'
<1>1. TypeOK'
  BY DEF IInv, TypeOK, ControlOK
<1>2. BreakersMatchTotals' /\ ClockTold'
  BY DEF IInv, BreakersMatchTotals, ClockTold
<1> QED
  BY <1>1, <1>2 DEF IInv

\* Looking at the breakers keeps what they count.
LEMMA LookStep ==
    ASSUME IInv, NEW ds, Look(ds), UNCHANGED <<spent, quiet>>, ControlOK'
    PROVE  IInv'
<1>1. TypeOK /\ BreakersMatchTotals /\ ClockTold
  BY DEF IInv
<1>2. \A d \in Dimensions :
        /\ breakers'[d] \in Breakers /\ breakers'[d].value = breakers[d].value
        /\ breakers'[d].cooldown = breakers[d].cooldown
        /\ \/ breakers'[d].state = breakers[d].state
           \/ /\ breakers[d].state = "OPEN" /\ breakers'[d].state = "HALF_OPEN"
              /\ breakers[d].cooldown = 0
  BY <1>1, LookedDimension
<1>3. breakers' \in [Dimensions -> Breakers]
  <2>1. breakers' = [d \in Dimensions |-> breakers'[d]]
    BY DEF Look
  <2> QED
    BY <1>2, <2>1
<1>4. TypeOK'
  BY <1>1, <1>3 DEF TypeOK, ControlOK
<1>5. BreakersMatchTotals'
  BY <1>1, <1>2 DEF BreakersMatchTotals
<1>6. ClockTold'
  BY <1>1, <1>2 DEF ClockTold
<1> QED
  BY <1>4, <1>5, <1>6 DEF IInv

\* A charge adds to its dimensions and starts their clocks anew.
LEMMA ChargeStep ==
    ASSUME IInv, NEW cost, Charge(cost), \A c \in DOMAIN cost : cost[c] \in Nat, ControlOK'
    PROVE  IInv'
<1>1. TypeOK /\ BreakersMatchTotals /\ ClockTold
  BY DEF IInv
<1>2. \A d \in Dimensions :
        /\ breakers'[d] \in Breakers /\ spent'[d] \in Nat
        /\ breakers'[d].value = spent'[d]
        /\ d \notin DOMAIN cost => breakers'[d] = breakers[d] /\ spent'[d] = spent[d]
        /\ d \in DOMAIN cost =>
              /\ breakers'[d].state = IF spent'[d] < Limit[d] THEN "CLOSED" ELSE "OPEN"
              /\ spent'[d] >= Limit[d] => breakers'[d].cooldown = ResetTimeout
  BY <1>1, ChargedDimension
<1>3. \A d \in Dimensions :
        /\ d \in DOMAIN cost => quiet'[d] = 0
        /\ d \notin DOMAIN cost => quiet'[d] = quiet[d]
  BY DEF Charge
<1>4. \A d \in Dimensions : Limit[d] \in Nat /\ ResetTimeout \in Nat
  BY <1>1, Parts
<1>5. TypeOK'
  <2>1. /\ breakers' = [d \in Dimensions |-> breakers'[d]]
        /\ spent' = [d \in Dimensions |-> spent'[d]]
        /\ quiet' = [d \in Dimensions |-> quiet'[d]]
    BY DEF Charge
  <2>2. \A d \in Dimensions : quiet'[d] \in 0..ResetTimeout
    BY <1>1, <1>3, Parts
  <2> QED
    BY <1>2, <2>1, <2>2 DEF TypeOK, ControlOK
<1>6. BreakersMatchTotals'
  BY <1>1, <1>2 DEF BreakersMatchTotals
<1>7. ClockTold'
  <2> SUFFICES ASSUME NEW d \in Dimensions
               PROVE  /\ breakers'[d].state # "CLOSED" =>
                            breakers'[d].cooldown + quiet'[d] = ResetTimeout
                      /\ breakers'[d].state = "HALF_OPEN" => breakers'[d].cooldown = 0
    BY DEF ClockTold
  <2>1. CASE d \in DOMAIN cost
    BY <1>2, <1>3, <1>4, <2>1
  <2>2. CASE d \notin DOMAIN cost
    BY <1>1, <1>2, <1>3, <2>2 DEF ClockTold
  <2> QED
    BY <2>1, <2>2
<1> QED
  BY <1>5, <1>6, <1>7 DEF IInv

\* Time runs down the clocks of the breakers and up those without a charge.
LEMMA TickStep == IInv /\ Tick => IInv'
<1> SUFFICES ASSUME IInv, Tick PROVE IInv'
  OBVIOUS
<1>1. TypeOK /\ BreakersMatchTotals /\ ClockTold
  BY DEF IInv
<1>2. \A d \in Dimensions :
        /\ breakers[d].cooldown \in Nat /\ quiet[d] \in 0..ResetTimeout
        /\ breakers'[d] \in Breakers /\ breakers'[d].state = breakers[d].state
        /\ breakers'[d].value = breakers[d].value
        /\ breakers'[d].cooldown =
              IF breakers[d].cooldown > 0 THEN breakers[d].cooldown - 1 ELSE 0
        /\ quiet'[d] = IF quiet[d] < ResetTimeout THEN quiet[d] + 1 ELSE quiet[d]
  BY <1>1, Parts, ElapsedBreaker DEF Tick
<1>3. TypeOK'
  <2>1. /\ breakers' = [d \in Dimensions |-> breakers'[d]]
        /\ quiet' = [d \in Dimensions |-> quiet'[d]]
    BY DEF Tick
  <2>2. \A d \in Dimensions : quiet'[d] \in 0..ResetTimeout
    BY <1>2, TimeoutAssumption
  <2>3. UNCHANGED <<spent, pc, flagged, starts>>
    BY DEF Tick
  <2> QED
    BY <1>1, <1>2, <2>1, <2>2, <2>3 DEF TypeOK
<1>4. BreakersMatchTotals'
  BY <1>1, <1>2 DEF BreakersMatchTotals, Tick
<1>5. ClockTold'
  BY <1>1, <1>2, TimeoutAssumption DEF ClockTold
<1> QED
  BY <1>3, <1>4, <1>5 DEF IInv

\* One case per action.
LEMMA NextInv == IInv /\ [Next]_vars => IInv'
<1> SUFFICES ASSUME IInv, [Next]_vars PROVE IInv'
  OBVIOUS
<1>1. /\ pc \in [Agents -> {"idle", "working", "awaiting", "escalated"}]
      /\ starts \in [Agents -> 0..MaxStarts] /\ flagged \in BOOLEAN /\ MaxStarts \in Nat
  BY BoundsAssumption DEF IInv, TypeOK
<1>2. CASE Tick
  BY <1>2, TickStep
<1>3. ASSUME NEW a \in Agents, StartActivity(a) PROVE IInv'
  <2>1. ControlOK'
    BY <1>1, <1>3 DEF StartActivity, Goto, ControlOK
  <2> QED
    BY <1>3, <2>1, OtherStep DEF StartActivity
<1>4. ASSUME NEW a \in Agents, EndActivity(a) \/ CallLLM(a) \/ LLMRaises(a) PROVE IInv'
  <2>1. ControlOK' /\ UNCHANGED <<breakers, spent, quiet>>
    BY <1>1, <1>4 DEF EndActivity, CallLLM, LLMRaises, Goto, ControlOK
  <2> QED
    BY <2>1, OtherStep
<1>5. ASSUME NEW a \in Agents, CheckPasses(a) PROVE IInv'
  <2>1. ControlOK'
    BY <1>1, <1>5 DEF CheckPasses, ControlOK
  <2> QED
    BY <1>5, <2>1, LookStep DEF CheckPasses
<1>6. ASSUME NEW a \in Agents, CheckRaises(a) PROVE IInv'
  <2>1. ControlOK'
    BY <1>1, <1>6 DEF CheckRaises, Goto, ControlOK
  <2> QED
    BY <1>6, <2>1, LookStep DEF CheckRaises
<1>7. ASSUME NEW a \in Agents, LLMReturns(a) PROVE IInv'
  <2>1. PICK minutes \in Latencies : Charge(CallCost(minutes))
    BY <1>7 DEF LLMReturns
  <2>2. \A d \in DOMAIN CallCost(minutes) : CallCost(minutes)[d] \in Nat
    BY LatenciesAssumption DEF CallCost
  <2>3. ControlOK'
    BY <1>1, <1>7 DEF LLMReturns, Goto, ControlOK
  <2> QED
    BY <2>1, <2>2, <2>3, ChargeStep
<1>8. ASSUME NEW a \in Agents, RecordRetry(a) PROVE IInv'
  <2> DEFINE one == [d \in {"retries"} |-> 1]
  <2>1. \A d \in DOMAIN one : one[d] \in Nat
    OBVIOUS
  <2>2. ControlOK'
    BY <1>1, <1>8 DEF RecordRetry, ControlOK
  <2> QED
    BY <1>8, <2>1, <2>2, ChargeStep DEF RecordRetry
<1>9. CASE UNCHANGED vars
  BY <1>1, <1>9, OtherStep DEF vars, ControlOK
<1> QED
  BY <1>2, <1>3, <1>4, <1>5, <1>6, <1>7, <1>8, <1>9 DEF Next

\* The inductive invariant holds.
THEOREM Invariant == Spec => []IInv
BY InitInv, NextInv, PTL DEF Spec

\* The state keeps to its types.
THEOREM TypeCorrect == Spec => []TypeOK
<1>1. IInv => TypeOK
  BY DEF IInv
<1> QED
  BY <1>1, Invariant, PTL

\* Every breaker says what the tracker has counted (cost.py:97-119, 136-139).
THEOREM TotalsMatch == Spec => []BreakersMatchTotals
<1>1. IInv => BreakersMatchTotals
  BY DEF IInv
<1> QED
  BY <1>1, Invariant, PTL

\* A spent budget is refused while it is being charged, and only then
\* (cost.py:91-95; retry.py:60-110).
THEOREM RefusalsTold == Spec => []RefusedWhileCharged
<1>1. IInv => RefusedWhileCharged
  <2> SUFFICES ASSUME IInv, NEW d \in Dimensions
               PROVE  IsOpen(breakers[d]) <=> spent[d] >= Limit[d] /\ quiet[d] < ResetTimeout
    BY DEF RefusedWhileCharged, BudgetOpen
  <2>1. TypeOK /\ BreakersMatchTotals /\ ClockTold
    BY DEF IInv
  <2>2. /\ breakers[d] \in Breakers /\ breakers[d].cooldown \in Nat
        /\ breakers[d].state \in {"CLOSED", "OPEN", "HALF_OPEN"}
        /\ spent[d] \in Nat /\ Limit[d] \in Nat /\ ResetTimeout \in Nat
        /\ quiet[d] \in 0..ResetTimeout
    BY <2>1, Parts
  <2>3. IsOpen(breakers[d]) <=> breakers[d].state = "OPEN" /\ breakers[d].cooldown > 0
    BY <2>2, OpenBreaker
  <2>4. breakers[d].state = "CLOSED" <=> spent[d] < Limit[d]
    BY <2>1 DEF BreakersMatchTotals
  <2>5. /\ breakers[d].state # "CLOSED" => breakers[d].cooldown + quiet[d] = ResetTimeout
        /\ breakers[d].state = "HALF_OPEN" => breakers[d].cooldown = 0
    BY <2>1 DEF ClockTold
  <2> QED
    BY <2>2, <2>3, <2>4, <2>5
<1> QED
  BY <1>1, Invariant, PTL
===============================================================================
