--------------------------- MODULE CostLedgerProofs ---------------------------
(***************************************************************************)
(* Proofs about CostLedger, for every finite set of agents, all limits and *)
(* all amounts.                                                            *)
(*                                                                         *)
(* TripTellsTheTruth is inductive with the types: a charge never takes a   *)
(* counter back under its limit.  BudgetsAgree needs to know that ledger   *)
(* and tracker have counted the same (SameCounts).  OvershootPaidFor rests *)
(* on the exception stopping the agent in the same step.                   *)
(***************************************************************************)
EXTENDS CostLedger, BreakerLemmas, FiniteSetTheorems, TLAPS

\* What one charge is: who, for what and how much.
LEMMA Steps ==
    ASSUME Next
    PROVE  \/ \E a \in Agents, d \in Dimensions, amount \in 0..LargestAmount :
                 amount <= Most(d) /\ Charge(a, d, amount)
           \/ \E a \in Agents : GoOn(a)
<1>1. /\ "cost" \in Dimensions /\ "inference" \in Dimensions
      /\ "gpu" \in Dimensions /\ "retries" \in Dimensions
  BY DEF Dimensions, Counted
<1>2. /\ Most("cost") = LargestAmount /\ Most("gpu") = LargestAmount
      /\ Most("inference") = 1 /\ Most("retries") = 1
  BY DEF Most
<1>3. 1 \in 0..LargestAmount /\ Amounts \subseteq 0..LargestAmount
  BY AmountsAssumption
<1>4. PICK a \in Agents :
        RecordCost(a) \/ RecordInferenceCall(a) \/ RecordGpuMinutes(a) \/ RecordRetry(a)
            \/ GoOn(a)
  BY DEF Next
<1>5. CASE RecordCost(a)
  <2>1. PICK amount \in Amounts : Charge(a, "cost", amount)
    BY <1>5 DEF RecordCost
  <2>2. amount \in 0..LargestAmount /\ amount <= Most("cost")
    BY <1>2, <1>3, AmountsAssumption
  <2> QED
    BY <1>1, <2>1, <2>2
<1>6. CASE RecordGpuMinutes(a)
  <2>1. PICK amount \in Amounts : Charge(a, "gpu", amount)
    BY <1>6 DEF RecordGpuMinutes
  <2>2. amount \in 0..LargestAmount /\ amount <= Most("gpu")
    BY <1>2, <1>3, AmountsAssumption
  <2> QED
    BY <1>1, <2>1, <2>2
<1>7. CASE RecordInferenceCall(a)
  BY <1>1, <1>2, <1>3, <1>7 DEF RecordInferenceCall
<1>8. CASE RecordRetry(a)
  BY <1>1, <1>2, <1>3, <1>8 DEF RecordRetry
<1> QED
  BY <1>4, <1>5, <1>6, <1>7, <1>8

\* What the steps below need of the types, with the numbers they are about.
LEMMA ChargeFacts ==
    ASSUME TypeOK, NEW a \in Agents, NEW d \in Dimensions,
           NEW amount \in 0..LargestAmount, Charge(a, d, amount)
    PROVE  /\ used' \in [Dimensions -> Nat]
           /\ used'[d] = used[d] + amount
           /\ \A c \in Dimensions : used[c] \in Nat /\ used'[c] \in Nat /\ Limit[c] \in Nat
           /\ \A c \in Dimensions \ {d} : used'[c] = used[c]
           /\ \A c \in Dimensions : used[c] <= used'[c]
           /\ amount \in Nat
<1>1. amount \in Nat /\ used \in [Dimensions -> Nat] /\ Limit \in [Dimensions -> Nat]
  BY AmountsAssumption, LimitAssumption DEF TypeOK
<1>2. used' = [used EXCEPT ![d] = @ + amount]
  BY DEF Charge
<1>3. used[d] \in Nat /\ used[d] + amount \in Nat
  BY <1>1
<1>4. used' \in [Dimensions -> Nat] /\ used'[d] = used[d] + amount
  BY <1>1, <1>2, <1>3
<1>5. \A c \in Dimensions \ {d} : used'[c] = used[c]
  BY <1>1, <1>2
<1>6. \A c \in Dimensions : used[c] <= used'[c]
  BY <1>1, <1>3, <1>4, <1>5
<1> QED
  BY <1>1, <1>4, <1>5, <1>6

-------------------------------------------------------------------------------
\* A reason is one record.
LEMMA OneReason ==
    ASSUME NEW d \in Dimensions, NEW current \in Nat
    PROVE  /\ {[limit |-> d, current |-> current]} \subseteq Reasons
           /\ Cardinality({[limit |-> d, current |-> current]}) <= 1
<1>1. Cardinality({[limit |-> d, current |-> current]}) = 1
  BY FS_Singleton
<1>2. [limit |-> d, current |-> current] \in Reasons
  BY DEF Reasons
<1> QED
  BY <1>1, <1>2

\* An empty ledger beside a new tracker.
LEMMA InitTypes == Init => TypeOK
<1> SUFFICES ASSUME Init PROVE TypeOK
  OBVIOUS
<1>1. NewBreaker \in Breakers
  BY DEF NewBreaker, Breakers, CircuitStates
<1>2. tracker \in [Counted -> Breakers] /\ used \in [Dimensions -> Nat]
  BY <1>1 DEF Init
<1>3. reason \subseteq Reasons /\ Cardinality(reason) <= 1
  BY FS_EmptySet DEF Init
<1>4. survived \in 0..MaxSurvived
  BY BoundAssumption DEF Init
<1> QED
  BY <1>2, <1>3, <1>4 DEF Init, TypeOK

\* A charge and a caller that goes on keep the types.
LEMMA NextTypes == TypeOK /\ [Next]_vars => TypeOK'
<1> SUFFICES ASSUME TypeOK, [Next]_vars PROVE TypeOK'
  OBVIOUS
<1>1. ASSUME NEW a \in Agents, NEW d \in Dimensions, NEW amount \in 0..LargestAmount,
             Charge(a, d, amount)
      PROVE  TypeOK'
  <2>1. used' \in [Dimensions -> Nat] /\ used[d] + amount \in Nat /\ amount \in Nat
    BY <1>1, ChargeFacts
  <2>2. tracker' \in [Counted -> Breakers]
    <3>1. \A c \in Counted : Recorded(tracker[c], amount, Limit[c], 1) \in Breakers
      <4> SUFFICES ASSUME NEW c \in Counted
                   PROVE  Recorded(tracker[c], amount, Limit[c], 1) \in Breakers
        OBVIOUS
      <4>1. tracker[c] \in Breakers /\ Limit[c] \in Nat /\ 1 \in Nat
        BY LimitAssumption DEF TypeOK, Dimensions
      <4> QED
        BY <2>1, <4>1, RecordedBreaker
    <3>2. tracker' = [c \in Counted |->
                        IF c = d THEN Recorded(tracker[c], amount, Limit[c], 1)
                        ELSE tracker[c]]
      BY <1>1 DEF Charge, TrackerRecords
    <3> QED
      BY <3>1, <3>2 DEF TypeOK
  <2>3. survived' = survived
    BY <1>1 DEF Charge
  <2>4. CASE UNCHANGED <<tripped, reason, stopped, raisedFor>>
    BY <2>1, <2>2, <2>3, <2>4 DEF TypeOK
  <2>5. CASE Trip(a, d, used[d] + amount)
    <3>1. reason' \subseteq Reasons /\ Cardinality(reason') <= 1
      BY <2>1, <2>5, OneReason DEF Trip
    <3>2. tripped' \in BOOLEAN /\ stopped' \subseteq Agents /\ raisedFor' \subseteq Dimensions
      BY <2>5 DEF Trip, TypeOK
    <3> QED
      BY <2>1, <2>2, <2>3, <3>1, <3>2 DEF TypeOK
  <2> QED
    BY <1>1, <2>4, <2>5 DEF Charge
<1>2. ASSUME NEW a \in Agents, GoOn(a) PROVE TypeOK'
  <2>1. survived' \in 0..MaxSurvived
    BY <1>2, BoundAssumption DEF GoOn, TypeOK
  <2> QED
    BY <1>2, <2>1 DEF GoOn, TypeOK
<1>3. CASE UNCHANGED vars
  BY <1>3 DEF vars, TypeOK
<1> QED
  BY <1>1, <1>2, <1>3, Steps

\* The ledger keeps to its types, whoever charges what.
THEOREM TypeCorrect == Spec => []TypeOK
BY InitTypes, NextTypes, PTL DEF Spec

-------------------------------------------------------------------------------
\* An empty ledger exceeds no limit.
LEMMA InitTruth == Init => TripTellsTheTruth
<1> SUFFICES ASSUME Init PROVE TripTellsTheTruth
  OBVIOUS
<1>1. ~tripped /\ reason = {} /\ \A d \in Dimensions : used[d] = 0
  BY DEF Init
<1>2. \A d \in Dimensions : Within(d, used[d])
  BY <1>1, LimitAssumption DEF Within
<1> QED
  BY <1>1, <1>2 DEF TripTellsTheTruth

\* A charge over a limit trips in the same step, and names that limit.
LEMMA NextTruth == TypeOK /\ TripTellsTheTruth /\ [Next]_vars => TripTellsTheTruth'
<1> SUFFICES ASSUME TypeOK, TripTellsTheTruth, [Next]_vars PROVE TripTellsTheTruth'
  OBVIOUS
<1>1. ASSUME NEW a \in Agents, NEW d \in Dimensions, NEW amount \in 0..LargestAmount,
             Charge(a, d, amount)
      PROVE  TripTellsTheTruth'
  <2>1. /\ used'[d] = used[d] + amount
        /\ \A c \in Dimensions : used[c] \in Nat /\ used'[c] \in Nat /\ Limit[c] \in Nat
        /\ \A c \in Dimensions \ {d} : used'[c] = used[c]
        /\ \A c \in Dimensions : used[c] <= used'[c]
    BY <1>1, ChargeFacts
  <2>2. \A c \in Dimensions : ~Within(c, used[c]) => ~Within(c, used'[c])
    BY <2>1 DEF Within
  <2>3. \A c \in Dimensions \ {d} : Within(c, used'[c]) <=> Within(c, used[c])
    BY <2>1
  <2>4. CASE /\ Within(d, used[d] + amount)
             /\ UNCHANGED <<tripped, reason, stopped, raisedFor>>
    <3>1. Within(d, used'[d]) /\ Within(d, used[d])
      BY <2>1, <2>2, <2>4
    <3>2. \A c \in Dimensions : Within(c, used'[c]) <=> Within(c, used[c])
      BY <2>3, <3>1
    <3>3. \A r \in reason : r.limit \in Dimensions /\ r.limit # d
      BY <3>1 DEF TripTellsTheTruth, TypeOK, Reasons
    <3>4. \A r \in reason' : ~Within(r.limit, used'[r.limit]) /\ r.current = used'[r.limit]
      BY <2>1, <2>4, <3>3 DEF TripTellsTheTruth
    <3> QED
      BY <2>4, <3>2, <3>4 DEF TripTellsTheTruth
  <2>5. CASE ~Within(d, used[d] + amount) /\ Trip(a, d, used[d] + amount)
    <3>1. /\ tripped' = TRUE /\ reason' = {[limit |-> d, current |-> used'[d]]}
          /\ ~Within(d, used'[d])
      BY <2>1, <2>5 DEF Trip
    <3>2. \A r \in reason' : r.limit = d /\ r.current = used'[d]
      BY <3>1
    <3> QED
      BY <3>1, <3>2 DEF TripTellsTheTruth
  <2> QED
    BY <1>1, <2>4, <2>5 DEF Charge
<1>2. ASSUME UNCHANGED <<used, tripped, reason>> PROVE TripTellsTheTruth'
  BY <1>2 DEF TripTellsTheTruth
<1>3. ASSUME NEW a \in Agents, GoOn(a) PROVE TripTellsTheTruth'
  BY <1>2, <1>3 DEF GoOn
<1>4. CASE UNCHANGED vars
  BY <1>2, <1>4 DEF vars
<1> QED
  BY <1>1, <1>3, <1>4, Steps

\* is_tripped and trip_reason are true of the ledger's counters at all times.
THEOREM TripIsTrue == Spec => []TripTellsTheTruth
BY InitTypes, NextTypes, InitTruth, NextTruth, PTL DEF Spec

-------------------------------------------------------------------------------
\* Agents stopped or sent on, and how many there are of them.
Brakes == Cardinality(stopped) + survived

\* The stopped agents can be counted.
LEMMA BrakesCount ==
    ASSUME TypeOK PROVE Brakes \in Nat /\ Cardinality(stopped) \in Nat /\ IsFiniteSet(stopped)
<1>1. IsFiniteSet(stopped)
  BY AgentsAssumption, FS_Subset DEF TypeOK
<1>2. Cardinality(stopped) \in Nat
  BY <1>1, FS_CardinalityType
<1> QED
  BY <1>1, <1>2, BoundAssumption DEF TypeOK, Brakes

\* One charge more.
LEMMA OneMore ==
    ASSUME NEW k \in Nat, NEW n \in Nat
    PROVE  k * n \in Nat /\ k * (n + 1) = k * n + k
OBVIOUS

\* Nothing is overspent at first.
LEMMA InitPaid == Init => OvershootPaidFor
<1> SUFFICES ASSUME Init, NEW d \in Dimensions
             PROVE  used[d] <= Limit[d] + Most(d) * (Cardinality(stopped) + survived)
  BY DEF OvershootPaidFor
<1>1. Cardinality(stopped) = 0 /\ survived = 0 /\ used[d] = 0
  BY FS_EmptySet DEF Init
<1>2. Most(d) \in Nat /\ Limit[d] \in Nat
  BY AmountsAssumption, LimitAssumption DEF Most
<1>3. Most(d) * 0 = 0
  BY <1>2
<1> QED
  BY <1>1, <1>2, <1>3

\* A charge over a limit is paid for by the agent it stops.
LEMMA NextPaid == TypeOK /\ OvershootPaidFor /\ [Next]_vars => OvershootPaidFor'
<1> SUFFICES ASSUME TypeOK, OvershootPaidFor, [Next]_vars PROVE OvershootPaidFor'
  OBVIOUS
<1>1. Brakes \in Nat /\ Cardinality(stopped) \in Nat /\ IsFiniteSet(stopped)
  BY BrakesCount
<1>2. \A d \in Dimensions : used[d] <= Limit[d] + Most(d) * Brakes
  BY DEF OvershootPaidFor, Brakes
<1>3. \A d \in Dimensions : Most(d) \in Nat /\ Limit[d] \in Nat
  BY AmountsAssumption, LimitAssumption DEF Most
<1>4. \A d \in Dimensions : Most(d) * Brakes \in Nat
                         /\ Most(d) * (Brakes + 1) = Most(d) * Brakes + Most(d)
  BY <1>1, <1>3, OneMore
<1>5. ASSUME \A d \in Dimensions : used'[d] <= Limit[d] + Most(d) * Brakes'
      PROVE  OvershootPaidFor'
  BY <1>5 DEF OvershootPaidFor, Brakes, Most
<1>6. ASSUME NEW a \in Agents, NEW d \in Dimensions, NEW amount \in 0..LargestAmount,
             amount <= Most(d), Charge(a, d, amount)
      PROVE  OvershootPaidFor'
  <2>1. /\ used'[d] = used[d] + amount /\ amount \in Nat
        /\ \A c \in Dimensions : used[c] \in Nat /\ used'[c] \in Nat
        /\ \A c \in Dimensions \ {d} : used'[c] = used[c]
    BY <1>6, ChargeFacts
  <2>2. survived' = survived /\ a \notin stopped
    BY <1>6 DEF Charge
  <2>3. CASE /\ Within(d, used[d] + amount)
             /\ UNCHANGED <<tripped, reason, stopped, raisedFor>>
    <3>1. Brakes' = Brakes
      BY <2>2, <2>3 DEF Brakes
    <3>2. used'[d] <= Limit[d]
      BY <2>1, <2>3 DEF Within
    <3>3. used'[d] <= Limit[d] + Most(d) * Brakes
      BY <1>3, <1>4, <2>1, <3>2
    <3>4. \A c \in Dimensions : used'[c] <= Limit[c] + Most(c) * Brakes
      BY <1>2, <2>1, <3>3
    <3> QED
      BY <1>5, <3>1, <3>4
  <2>4. CASE Trip(a, d, used[d] + amount)
    <3>1. Cardinality(stopped') = Cardinality(stopped) + 1
      BY <1>1, <2>2, <2>4, FS_AddElement DEF Trip
    <3>2. Brakes' = Brakes + 1
      BY <1>1, <2>2, <3>1, BoundAssumption DEF Brakes, TypeOK
    <3>3. \A c \in Dimensions : used'[c] <= used[c] + Most(c)
      BY <1>3, <1>6, <2>1
    <3>4. \A c \in Dimensions : used'[c] <= Limit[c] + Most(c) * (Brakes + 1)
      <4> SUFFICES ASSUME NEW c \in Dimensions
                   PROVE  used'[c] <= Limit[c] + Most(c) * (Brakes + 1)
        OBVIOUS
      <4>1. PICK k \in Nat : k = Most(c) * Brakes
        BY <1>4
      <4>2. Most(c) * (Brakes + 1) = k + Most(c) /\ used[c] <= Limit[c] + k
        BY <1>2, <1>4, <4>1
      <4> QED
        BY <1>3, <2>1, <3>3, <4>2
    <3> QED
      BY <1>5, <3>2, <3>4
  <2> QED
    BY <1>6, <2>3, <2>4 DEF Charge
<1>7. ASSUME NEW a \in Agents, GoOn(a) PROVE OvershootPaidFor'
  <2>1. Cardinality(stopped') = Cardinality(stopped) - 1
    BY <1>1, <1>7, FS_RemoveElement DEF GoOn
  <2>2. survived \in Nat /\ survived' = survived + 1 /\ used' = used
    BY <1>7, BoundAssumption DEF GoOn, TypeOK
  <2>3. Brakes' = Brakes
    BY <1>1, <2>1, <2>2 DEF Brakes
  <2> QED
    BY <1>2, <1>5, <2>2, <2>3
<1>8. CASE UNCHANGED vars
  BY <1>2, <1>5, <1>8 DEF vars, Brakes
<1> QED
  BY <1>6, <1>7, <1>8, Steps

\* Each charge over a limit costs an agent its run or a caller a caught
\* exception.
THEOREM OvershootBound == Spec => []OvershootPaidFor
BY InitTypes, NextTypes, InitPaid, NextPaid, PTL DEF Spec

-------------------------------------------------------------------------------
\* Why the budgets agree: tracker and ledger count the same, a breaker of the
\* tracker is CLOSED below the limit and not above it, and the ledger raised for
\* exactly the limits that are exceeded.
SameCounts ==
    /\ \A d \in Counted :
          /\ tracker[d].value = used[d]
          /\ tracker[d].state # "CLOSED" => used[d] >= Limit[d]
          /\ used[d] > Limit[d] => tracker[d].state # "CLOSED"
    /\ \A d \in Dimensions : d \in raisedFor <=> used[d] > Limit[d]

\* Ledger and tracker both start at zero.
LEMMA InitSame == Init => SameCounts
<1> SUFFICES ASSUME Init PROVE SameCounts
  OBVIOUS
<1>1. \A d \in Dimensions : used[d] = 0 /\ Limit[d] \in Nat
  BY LimitAssumption DEF Init
<1>2. \A d \in Counted : tracker[d].value = 0 /\ tracker[d].state = "CLOSED"
  BY DEF Init, NewBreaker
<1> QED
  BY <1>1, <1>2 DEF Init, SameCounts, Dimensions

\* Ledger and tracker count the same charge.
LEMMA NextSame == TypeOK /\ SameCounts /\ [Next]_vars => SameCounts'
<1> SUFFICES ASSUME TypeOK, SameCounts, [Next]_vars PROVE SameCounts'
  OBVIOUS
<1>1. ASSUME NEW a \in Agents, NEW d \in Dimensions, NEW amount \in 0..LargestAmount,
             Charge(a, d, amount)
      PROVE  SameCounts'
  <2>1. /\ used'[d] = used[d] + amount /\ amount \in Nat
        /\ \A c \in Dimensions : used[c] \in Nat /\ used'[c] \in Nat /\ Limit[c] \in Nat
        /\ \A c \in Dimensions \ {d} : used'[c] = used[c]
        /\ \A c \in Dimensions : used[c] <= used'[c]
    BY <1>1, ChargeFacts
  <2>2. ASSUME NEW c \in Counted
        PROVE  /\ tracker'[c].value = used'[c]
               /\ tracker'[c].state # "CLOSED" => used'[c] >= Limit[c]
               /\ used'[c] > Limit[c] => tracker'[c].state # "CLOSED"
    <3>1. /\ tracker[c] \in Breakers /\ c \in Dimensions /\ 1 \in Nat
          /\ used[c] \in Nat /\ Limit[c] \in Nat
      BY <2>1, <2>2 DEF TypeOK, Dimensions
    <3>2. tracker'[c] = IF c = d THEN Recorded(tracker[c], amount, Limit[c], 1)
                        ELSE tracker[c]
      BY <1>1, <2>2 DEF Charge, TrackerRecords
    <3>3. /\ tracker[c].value = used[c]
          /\ tracker[c].state # "CLOSED" => used[c] >= Limit[c]
          /\ used[c] > Limit[c] => tracker[c].state # "CLOSED"
      BY <2>2 DEF SameCounts
    <3>4. CASE c # d
      BY <2>1, <3>1, <3>2, <3>3, <3>4
    <3>5. CASE c = d
      <4> DEFINE b == tracker[c]
                 t == Limit[c]
                 r == Recorded(b, amount, t, 1)
      <4>1. b \in Breakers /\ t \in Nat /\ 1 \in Nat /\ amount \in Nat
        BY <2>1, <3>1
      <4>2. tracker'[c] = r /\ used'[c] = used[c] + amount
        BY <2>1, <3>2, <3>5
      <4> HIDE DEF b, t
      <4>3. /\ r.value = b.value + amount
            /\ b.value + amount >= t => r.state = "OPEN"
            /\ b.value + amount < t => r.state = b.state
        BY <4>1, RecordedBreaker
      <4> HIDE DEF r
      <4>4. /\ r.value = used'[c]
            /\ used'[c] >= Limit[c] => r.state = "OPEN"
            /\ used'[c] < Limit[c] => r.state = tracker[c].state
        BY <3>3, <4>2, <4>3 DEF b, t
      <4>5. used'[c] < Limit[c] => r.state = "CLOSED"
        BY <2>1, <3>1, <3>3, <4>4
      <4> QED
        BY <2>1, <3>1, <4>2, <4>4, <4>5
    <3> QED
      BY <3>4, <3>5
  <2>3. ASSUME NEW c \in Dimensions
        PROVE  c \in raisedFor' <=> used'[c] > Limit[c]
    <3>1. c \in raisedFor <=> used[c] > Limit[c]
      BY DEF SameCounts
    <3>2. CASE /\ Within(d, used[d] + amount)
               /\ UNCHANGED <<tripped, reason, stopped, raisedFor>>
      BY <2>1, <3>1, <3>2 DEF Within
    <3>3. CASE ~Within(d, used[d] + amount) /\ Trip(a, d, used[d] + amount)
      BY <2>1, <3>1, <3>3 DEF Within, Trip
    <3> QED
      BY <1>1, <3>2, <3>3 DEF Charge
  <2> QED
    BY <2>2, <2>3 DEF SameCounts
<1>2. ASSUME UNCHANGED <<used, tracker, raisedFor>> PROVE SameCounts'
  BY <1>2 DEF SameCounts
<1>3. ASSUME NEW a \in Agents, GoOn(a) PROVE SameCounts'
  BY <1>2, <1>3 DEF GoOn
<1>4. CASE UNCHANGED vars
  BY <1>2, <1>4 DEF vars
<1> QED
  BY <1>1, <1>3, <1>4, Steps

\* With the same counts the three budgets differ at a limit only.
LEMMA SameGivesAgreement == TypeOK /\ SameCounts => BudgetsAgree
<1> SUFFICES ASSUME TypeOK, SameCounts PROVE BudgetsAgree
  OBVIOUS
<1>1. /\ Counted \subseteq Dimensions
      /\ "inference" \in Dimensions /\ "gpu" \in Dimensions
  BY DEF Dimensions, Counted
<1>2. \A d \in Dimensions : used[d] \in Nat /\ Limit[d] \in Nat
  BY LimitAssumption DEF TypeOK
<1>3. \A d \in Counted :
        /\ d \in raisedFor => tracker[d].state # "CLOSED"
        /\ tracker[d].state # "CLOSED" /\ d \notin raisedFor => used[d] = Limit[d]
  BY <1>1, <1>2 DEF SameCounts
<1>4. LegacyBudgetExceeded <=> raisedFor \cap {"inference", "gpu"} # {}
  BY <1>1 DEF SameCounts, LegacyBudgetExceeded
<1> QED
  BY <1>3, <1>4 DEF BudgetsAgree

\* The three budgets differ at the limit only, and only in one direction.
THEOREM BudgetsCompared == Spec => []BudgetsAgree
BY InitTypes, NextTypes, InitSame, NextSame, SameGivesAgreement, PTL DEF Spec
===============================================================================
