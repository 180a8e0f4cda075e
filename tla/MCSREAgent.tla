------------------------------ MODULE MCSREAgent ------------------------------
(* SREAgent for TLC: two metrics with different thresholds, two protocols and *)
(* two drills at once, durations on both sides of the timeouts.               *)
EXTENDS SREDecisions, TLC
MCMetrics == <<"error_rate", "p99_latency_increase">>
MCLimits == [x \in {"error_rate", "p99_latency_increase"} |-> IF x = "error_rate" THEN 1 ELSE 2]
Symmetry == Permutations(Monitors) \cup Permutations(Drills)
===============================================================================
