------------------------------ MODULE MCQAAgent ------------------------------
(* QAAgent for TLC: the blueprint is edited before and during QA. *)
EXTENDS QAAgent
===============================================================================
