----------------------------- MODULE MCRetryAsync -----------------------------
(* RetryAsync for TLC: two coroutines with different retry configurations and *)
(* one configured with max_attempts = 0.                                      *)
EXTENDS RetryAsync, TLC
CONSTANTS c1, c2, c3
MCMaxAttempts == (c1 :> 3) @@ (c2 :> 2) @@ (c3 :> 0)
===============================================================================
