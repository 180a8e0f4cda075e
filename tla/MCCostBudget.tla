----------------------------- MODULE MCCostBudget -----------------------------
(* CostBudget for TLC: two agents, small limits, calls of at most two minutes. *)
EXTENDS CostBudget
CONSTANTS a1, a2
MCLimit == [d \in Dimensions |-> IF d = "gpu" THEN 3 ELSE 2]
MCLatencies == 0..2
===============================================================================
