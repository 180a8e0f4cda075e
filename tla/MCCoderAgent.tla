----------------------------- MODULE MCCoderAgent -----------------------------
(* CoderAgent for TLC; the constants are numbers given in the cfg files. *)
EXTENDS CoderAgent
===============================================================================
