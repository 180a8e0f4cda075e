--------------------------- MODULE MCCircuitBreaker ---------------------------
(* CircuitBreaker for TLC: a record adds nothing, one unit or two. *)
EXTENDS CircuitBreaker
MCAmounts == 0..2
===============================================================================
