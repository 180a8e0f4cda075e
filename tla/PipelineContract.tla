--------------------------- MODULE PipelineContract ---------------------------
(***************************************************************************)
(* What the orchestrator promises of one feature, without saying how: the  *)
(* stages are passed in order, none is entered twice, release is entered   *)
(* only from the trial deployment, a feature that cannot go on is given a  *)
(* verdict where it stands, and every feature gets a verdict.              *)
(* Construction is left out when there is nothing to construct.            *)
(***************************************************************************)
EXTENDS Integers

Specification == 1
Construction  == 2
Verification  == 3
Trial         == 4
Release       == 5
Archive       == 6

VARIABLES stage, verdict

Init ==
    /\ stage = Specification
    /\ verdict = "pending"

Advance ==
    /\ verdict = "pending"
    /\ \/ stage < Archive /\ stage' = stage + 1
       \/ stage = Specification /\ stage' = Verification
    /\ UNCHANGED verdict

Succeed ==
    /\ verdict = "pending"
    /\ stage = Archive
    /\ verdict' = "success"
    /\ UNCHANGED stage

\* The feature is handed to a human, or the orchestrator's caller gets the
\* exception of an activity that is no pipeline error.
Halt ==
    /\ verdict = "pending"
    /\ verdict' \in {"escalated", "escaped"}
    /\ UNCHANGED stage

Next == Advance \/ Succeed \/ Halt

SafeSpec == Init /\ [][Next]_<<stage, verdict>>

Spec == SafeSpec /\ WF_<<stage, verdict>>(Next)
===============================================================================
