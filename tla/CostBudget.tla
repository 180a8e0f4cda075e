------------------------------ MODULE CostBudget ------------------------------
(***************************************************************************)
(* The cost budget of one feature: a CostTracker with its three circuit    *)
(* breakers (pipeline/shared/cost.py), fed by an LLMClient                 *)
(* (pipeline/shared/llm_client.py), used by activities that run under      *)
(* tracked_activity (pipeline/shared/temporal_helpers.py).                 *)
(*                                                                         *)
(* An agent of an activity may begin a completion whenever it runs:        *)
(* LLMClient.complete looks at no budget before the API call and records   *)
(* into the tracker after it; other agents of the feature run while the    *)
(* call is awaited.  check_budget() and record_retry() are public methods  *)
(* of the tracker an agent may call between its completions; they do not   *)
(* wait, so each is one step.                                              *)
(***************************************************************************)
EXTENDS Breaker

CONSTANTS Agents,         \* activities of the feature that may run at once
          Limit,          \* [Dimensions -> Nat]: the thresholds of CostLimits
          Latencies,      \* GPU minutes a completion may take
          ResetTimeout,   \* of the three breakers
          MaxCharges,     \* bound: no charge to a dimension is begun past this total
          MaxStarts       \* bound: activities each agent runs

Dimensions == {"inference", "gpu", "retries"}

ASSUME LimitAssumption == Limit \in [Dimensions -> Nat \ {0}]
ASSUME LatenciesAssumption == Latencies \subseteq Nat
ASSUME TimeoutAssumption == ResetTimeout \in Nat \ {0}
ASSUME BoundsAssumption == MaxCharges \in Nat /\ MaxStarts \in Nat

VARIABLES breakers,   \* the breaker of each dimension
          spent,      \* len(_calls), _gpu_minutes and _retries of the tracker
          pc,         \* idle, working, awaiting (the LLM) or escalated
          flagged,    \* feature.awaiting_human_approval
          quiet,      \* history: time since the last charge to each dimension,
                      \* counted up to ResetTimeout
          starts      \* history: activities each agent has started

vars == <<breakers, spent, pc, flagged, quiet, starts>>

\* CostTracker.__init__
FreshTracker == [d \in Dimensions |-> NewBreaker]

Init ==
    /\ breakers = FreshTracker
    /\ spent = [d \in Dimensions |-> 0]
    /\ pc = [a \in Agents |-> "idle"]
    /\ flagged = FALSE
    /\ quiet = [d \in Dimensions |-> ResetTimeout]
    /\ starts = [a \in Agents |-> 0]

Goto(a, where) == pc' = [pc EXCEPT ![a] = where]

\* tracked_activity builds a new CostTracker for each activity and checks that
\* one; Temporal may run an activity again after it failed or escalated.
StartActivity(a) ==
    /\ pc[a] \in {"idle", "escalated"}
    /\ starts[a] < MaxStarts
    /\ \A d \in Dimensions : ~IsOpen(FreshTracker[d])
    /\ starts' = [starts EXCEPT ![a] = @ + 1]
    /\ Goto(a, "working")
    /\ UNCHANGED <<breakers, spent, flagged, quiet>>

\* The activity returns the feature, or an exception leaves it.
EndActivity(a) ==
    /\ pc[a] = "working"
    /\ Goto(a, "idle")
    /\ UNCHANGED <<breakers, spent, flagged, quiet, starts>>

\* check() of these breakers: reading the state may move them to HALF_OPEN.
Look(ds) ==
    breakers' = [d \in Dimensions |-> IF d \in ds THEN Observed(breakers[d]) ELSE breakers[d]]

\* The dimensions whose check() raises.
BudgetOpen == {d \in Dimensions : IsOpen(breakers[d])}

\* check_budget() passes all three breakers and the agent goes on.
CheckPasses(a) ==
    /\ pc[a] = "working"
    /\ BudgetOpen = {}
    /\ Look(Dimensions)
    /\ UNCHANGED <<spent, pc, flagged, quiet, starts>>

\* The breakers check_budget() has passed before one of them raises.
CheckedBeforeRaise ==
    CASE "inference" \in BudgetOpen -> {}
      [] "inference" \notin BudgetOpen /\ "gpu" \in BudgetOpen -> {"inference"}
      [] OTHER -> {"inference", "gpu"}

\* check_budget() raises BudgetExceededError.  The wrapper of an activity that
\* lets it through marks the feature and raises EscalationRequiredError; inside
\* BaseAgent.run it is wrapped in a TransientInfraError first, which fails the
\* activity and marks nothing.
CheckRaises(a) ==
    /\ pc[a] = "working"
    /\ BudgetOpen # {}
    /\ Look(CheckedBeforeRaise)
    /\ \/ Goto(a, "escalated") /\ flagged' = TRUE
       \/ Goto(a, "idle") /\ UNCHANGED flagged
    /\ UNCHANGED <<spent, quiet, starts>>

\* complete() begins the API call.
CallLLM(a) ==
    /\ pc[a] = "working"
    /\ spent["inference"] < MaxCharges
    /\ Goto(a, "awaiting")
    /\ UNCHANGED <<breakers, spent, flagged, quiet, starts>>

\* Mutant: the total gets the minutes and the breaker the number of calls.
ChargeUnweighted(cost) ==
    /\ spent' = [d \in Dimensions |-> IF d \in DOMAIN cost THEN spent[d] + cost[d] ELSE spent[d]]
    /\ breakers' = [d \in Dimensions |->
                      IF d \in DOMAIN cost THEN Recorded(breakers[d], 1, Limit[d], ResetTimeout)
                      ELSE breakers[d]]
    /\ quiet' = [d \in Dimensions |-> IF d \in DOMAIN cost THEN 0 ELSE quiet[d]]

\* Add a cost to the totals of its dimensions and record it in their breakers.
Charge(cost) ==
    /\ spent' = [d \in Dimensions |-> IF d \in DOMAIN cost THEN spent[d] + cost[d] ELSE spent[d]]
    /\ breakers' = [d \in Dimensions |->
                      IF d \in DOMAIN cost THEN Recorded(breakers[d], cost[d], Limit[d], ResetTimeout)
                      ELSE breakers[d]]
    /\ quiet' = [d \in Dimensions |-> IF d \in DOMAIN cost THEN 0 ELSE quiet[d]]

\* record_llm_call of a completion of so many minutes.
CallCost(minutes) == [d \in {"inference", "gpu"} |-> IF d = "gpu" THEN minutes ELSE 1]

\* The completion returns and is recorded.
LLMReturns(a) ==
    \E minutes \in Latencies :
        /\ pc[a] = "awaiting"
        /\ Charge(CallCost(minutes))
        /\ Goto(a, "working")
        /\ UNCHANGED <<flagged, starts>>

\* The API call raises: nothing is recorded.
LLMRaises(a) ==
    /\ pc[a] = "awaiting"
    /\ Goto(a, "working")
    /\ UNCHANGED <<breakers, spent, flagged, quiet, starts>>

RecordRetry(a) ==
    /\ pc[a] = "working"
    /\ spent["retries"] < MaxCharges
    /\ Charge([d \in {"retries"} |-> 1])
    /\ UNCHANGED <<pc, flagged, starts>>

Tick ==
    /\ breakers' = [d \in Dimensions |-> Elapsed(breakers[d])]
    /\ quiet' = [d \in Dimensions |->
                    IF quiet[d] < ResetTimeout THEN quiet[d] + 1 ELSE quiet[d]]
    /\ UNCHANGED <<spent, pc, flagged, starts>>

Next ==
    \/ Tick
    \/ \E a \in Agents : \/ StartActivity(a) \/ EndActivity(a)
                         \/ CheckPasses(a) \/ CheckRaises(a)
                         \/ CallLLM(a) \/ LLMReturns(a) \/ LLMRaises(a) \/ RecordRetry(a)

Spec == Init /\ [][Next]_vars

\* Time passes; nothing is assumed of the agents.
FairSpec == Spec /\ WF_vars(Tick)

-------------------------------------------------------------------------------
\* Types of the breakers, the totals and the activities.
TypeOK ==
    /\ breakers \in [Dimensions -> Breakers]
    /\ spent \in [Dimensions -> Nat]
    /\ pc \in [Agents -> {"idle", "working", "awaiting", "escalated"}]
    /\ flagged \in BOOLEAN
    /\ quiet \in [Dimensions -> 0..ResetTimeout]
    /\ starts \in [Agents -> 0..MaxStarts]

\* The breakers trip on what the tracker reports: each value is the total of
\* its dimension, and the breaker is CLOSED exactly below the limit
\* (cost.py:97-119, 136-139).
BreakersMatchTotals ==
    \A d \in Dimensions :
        /\ breakers[d].value = spent[d]
        /\ breakers[d].state = "CLOSED" <=> spent[d] < Limit[d]

\* check_budget() would raise for exactly the dimensions that have used up their
\* limit and were charged within the last reset timeout, whoever looked at the
\* breakers and whichever completions were recorded in between: a budget once
\* spent is not refused for good, and a late record refuses it again
\* (cost.py:91-95, 113-119; retry.py:60-110).
RefusedWhileCharged ==
    BudgetOpen = {d \in Dimensions : spent[d] >= Limit[d] /\ quiet[d] < ResetTimeout}

\* What temporal_helpers.py:72 says: the cost budget is checked before an
\* activity executes.  No activity begins while a breaker of the feature's
\* tracker rejects calls.
ActivityStartsInBudget ==
    [][ \A a \in Agents :
          (pc'[a] = "working" /\ pc[a] \in {"idle", "escalated"}) => BudgetOpen = {} ]_vars
===============================================================================
