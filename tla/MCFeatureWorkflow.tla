--------------------------- MODULE MCFeatureWorkflow ---------------------------
(* FeatureWorkflow for TLC: max_code_retries is 0, 1 or 3 (the default). *)
EXTENDS FeatureWorkflow
MCRetryLimits == {0, 1, 3}
================================================================================
