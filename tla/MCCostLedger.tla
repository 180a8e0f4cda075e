----------------------------- MODULE MCCostLedger -----------------------------
(* CostLedger for TLC: three agents, limits of one to three, charges up to two. *)
EXTENDS CostLedger, TLC
CONSTANTS a1, a2, a3
MCLimit == [d \in Dimensions |-> CASE d = "cost" -> 3 [] d \in {"inference", "gpu"} -> 2
                               [] d = "retries" -> 1]
MCAmounts == 0..2
Symmetry == Permutations({a1, a2, a3})
===============================================================================
