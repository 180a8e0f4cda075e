----------------------------- MODULE SharedBreaker -----------------------------
(***************************************************************************)
(* One CircuitBreaker object (pipeline/shared/retry.py), its two           *)
(* parameters and its state, as the coroutines that share it see it.       *)
(* CircuitBreaker has clients of any kind; RetryAsync has those that       *)
(* retry_async makes.                                                      *)
(***************************************************************************)
EXTENDS Breaker

CONSTANTS Threshold,      \* trip when the recorded value reaches this
          ResetTimeout    \* reset_timeout_seconds, in clock units

ASSUME ThresholdAssumption == Threshold \in Nat \ {0}
ASSUME ResetTimeoutAssumption == ResetTimeout \in Nat

VARIABLE breaker   \* the breaker object
===============================================================================
