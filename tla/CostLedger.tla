------------------------------ MODULE CostLedger ------------------------------
(***************************************************************************)
(* FeatureCostLedger of one feature                                        *)
(* (src/autonomous_software_factory/pipeline/cost_ledger.py), charged by   *)
(* several agents, and beside it the two other budgets of the repository   *)
(* on the same charges: the breakers of CostTracker                        *)
(* (pipeline/shared/cost.py) and FeatureCostLedger.check_budget of         *)
(* pipeline/state.py.                                                      *)
(*                                                                         *)
(* A record_* method does not await anything, so it is one step: it adds   *)
(* the charge first and raises CostLimitExceededError afterwards.  The     *)
(* agent that gets the exception stops, and may be sent on by whoever      *)
(* catches it, since nothing consults is_tripped.                          *)
(*                                                                         *)
(* Amounts are natural numbers of a smallest unit; of the entries only     *)
(* their sum, total_cost_usd, is kept.                                     *)
(***************************************************************************)
EXTENDS Breaker, FiniteSets

CONSTANTS Agents,        \* agents that charge the feature
          Limit,         \* [Dimensions -> Nat]: CostLimits
          Amounts,       \* amounts of one charge of money or GPU minutes
          LargestAmount, \* the largest of them and 1
          MaxSurvived    \* bound: exceptions an agent goes on after

\* What the tracker counts too; it has no breaker for money (cost.py:113-119).
Counted == {"inference", "gpu", "retries"}
Dimensions == Counted \cup {"cost"}

ASSUME AgentsAssumption == IsFiniteSet(Agents)
ASSUME LimitAssumption == Limit \in [Dimensions -> Nat]
ASSUME AmountsAssumption ==
    /\ Amounts \subseteq 0..LargestAmount
    /\ LargestAmount \in Nat \ {0}
ASSUME BoundAssumption == MaxSurvived \in Nat

VARIABLES used,      \* total_cost_usd and the three counters
          tripped,   \* _tripped
          reason,    \* _trip_reason, a set of at most one
          stopped,   \* agents that got a CostLimitExceededError
          tracker,   \* the breakers of a CostTracker with the same limits
          \* history
          raisedFor, \* limits an exception was raised for
          survived   \* exceptions after which an agent was sent on

vars == <<used, tripped, reason, stopped, tracker, raisedFor, survived>>

Reasons == [limit : Dimensions, current : Nat]

Init ==
    /\ used = [d \in Dimensions |-> 0]
    /\ tripped = FALSE /\ reason = {}
    /\ stopped = {}
    /\ tracker = [d \in Counted |-> NewBreaker]
    /\ raisedFor = {} /\ survived = 0

\* Mutant: exactly at the limit counts as exceeded.
WithinStrictly(d, current) == current < Limit[d]

\* CostLimits.check_*: exactly at the limit is within it.
Within(d, current) == current <= Limit[d]

\* Mutant: the ledger keeps its first reason.
TripKeepsReason(a, d, current) ==
    /\ tripped' = TRUE
    /\ reason' = IF tripped THEN reason ELSE {[limit |-> d, current |-> current]}
    /\ stopped' = stopped \cup {a}
    /\ raisedFor' = raisedFor \cup {d}

\* Mutant: the reasons are collected.
TripAddsReason(a, d, current) ==
    /\ tripped' = TRUE
    /\ reason' = reason \cup {[limit |-> d, current |-> current]}
    /\ stopped' = stopped \cup {a}
    /\ raisedFor' = raisedFor \cup {d}

\* Mutant: a ledger that is tripped already does not raise again.
TripOnce(a, d, current) ==
    /\ tripped' = TRUE
    /\ reason' = {[limit |-> d, current |-> current]}
    /\ stopped' = IF tripped THEN stopped ELSE stopped \cup {a}
    /\ raisedFor' = raisedFor \cup {d}

\* _trip: the latest reason replaces the one before; the agent is stopped by
\* the exception.
Trip(a, d, current) ==
    /\ tripped' = TRUE
    /\ reason' = {[limit |-> d, current |-> current]}
    /\ stopped' = stopped \cup {a}
    /\ raisedFor' = raisedFor \cup {d}

\* CostTracker records the same charge; its breaker trips at the limit.
TrackerRecords(d, amount) ==
    tracker' = [c \in Counted |-> IF c = d THEN Recorded(tracker[c], amount, Limit[c], 1)
                                  ELSE tracker[c]]

\* An agent charges an amount; it is added, then checked.
Charge(a, d, amount) ==
    /\ a \notin stopped
    /\ used' = [used EXCEPT ![d] = @ + amount]
    /\ \/ /\ Within(d, used[d] + amount)
          /\ UNCHANGED <<tripped, reason, stopped, raisedFor>>
       \/ /\ ~Within(d, used[d] + amount)
          /\ Trip(a, d, used[d] + amount)
    /\ TrackerRecords(d, amount)
    /\ UNCHANGED survived

RecordCost(a) == \E amount \in Amounts : Charge(a, "cost", amount)
RecordInferenceCall(a) == Charge(a, "inference", 1)
RecordGpuMinutes(a) == \E minutes \in Amounts : Charge(a, "gpu", minutes)
RecordRetry(a) == Charge(a, "retries", 1)

\* Whoever catches the exception lets the agent go on; is_tripped stays set and
\* keeps nobody from charging.
GoOn(a) ==
    /\ a \in stopped
    /\ survived < MaxSurvived
    /\ stopped' = stopped \ {a}
    /\ survived' = survived + 1
    /\ UNCHANGED <<used, tripped, reason, tracker, raisedFor>>

Next == \E a \in Agents :
            RecordCost(a) \/ RecordInferenceCall(a) \/ RecordGpuMinutes(a) \/ RecordRetry(a)
                \/ GoOn(a)

Spec == Init /\ [][Next]_vars

-------------------------------------------------------------------------------
\* Types; there is one reason at most.
TypeOK ==
    /\ used \in [Dimensions -> Nat]
    /\ tripped \in BOOLEAN
    /\ reason \subseteq Reasons /\ Cardinality(reason) <= 1
    /\ stopped \subseteq Agents
    /\ tracker \in [Counted -> Breakers]
    /\ raisedFor \subseteq Dimensions
    /\ survived \in 0..MaxSurvived

\* Whatever the agents charge after a trip, is_tripped and trip_reason tell the
\* truth: the ledger is tripped exactly if some limit is exceeded, the reason
\* names a limit that is exceeded, and its figure is today's, not the one of the
\* first trip (cost_ledger.py:82-132, 149-153).
TripTellsTheTruth ==
    /\ tripped <=> \E d \in Dimensions : ~Within(d, used[d])
    /\ tripped <=> reason # {}
    /\ \A r \in reason : ~Within(r.limit, used[r.limit]) /\ r.current = used[r.limit]

\* The most one charge adds.
Most(d) == IF d \in {"cost", "gpu"} THEN LargestAmount ELSE 1

\* The exceptions are the only brake: what is charged over a limit is paid for,
\* charge by charge, by agents that were stopped or sent on after an exception.
\* Agents that all stop exceed each limit by at most one charge each
\* (cost_ledger.py:99-132).
OvershootPaidFor ==
    \A d \in Dimensions :
        used[d] <= Limit[d] + Most(d) * (Cardinality(stopped) + survived)

\* FeatureCostLedger.check_budget of pipeline/state.py.
LegacyBudgetExceeded ==
    used["inference"] > Limit["inference"] \/ used["gpu"] > Limit["gpu"]

\* The three budgets of the repository on the same charges: a breaker of the
\* tracker trips no later than the ledger raises and differs from it exactly at
\* the limit, and the older ledger refuses exactly when this one raised for one
\* of the two limits they share (cost_ledger.py:52-62; cost.py:113-119;
\* retry.py:92; state.py:146-156).
BudgetsAgree ==
    /\ \A d \in Counted : d \in raisedFor => tracker[d].state # "CLOSED"
    /\ \A d \in Counted :
          tracker[d].state # "CLOSED" /\ d \notin raisedFor => used[d] = Limit[d]
    /\ LegacyBudgetExceeded <=> raisedFor \cap {"inference", "gpu"} # {}
===============================================================================
