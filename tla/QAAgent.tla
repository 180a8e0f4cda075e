------------------------------- MODULE QAAgent -------------------------------
(***************************************************************************)
(* The QA agent (workers/qa_agent.py) on one feature: the spec hash check  *)
(* and the six stages in order, under BaseAgent.run (workers/base.py) and  *)
(* tracked_activity (pipeline/shared/temporal_helpers.py), whose docstring *)
(* has it wrap all agent activities.  The coder agent has worked on the    *)
(* feature before.  complexity_bucket is a field of the feature that       *)
(* nothing in the source computes: it has any value.                       *)
(*                                                                         *)
(* The stages are external (placeholders in the source): each is awaited   *)
(* and returns, blocks as its docstring says, or raises anything else.     *)
(* pc names the stage being awaited.                                       *)
(***************************************************************************)
EXTENDS Integers, Sequences

CONSTANT MaxVersion     \* bound: edits of the blueprint's content

ASSUME MaxVersionAssumption == MaxVersion \in Nat \ {0}

Stages == <<"unit_tests", "type_check", "lint", "security_scan", "hostile_audit",
            "formal_verification">>
StageNames == {Stages[i] : i \in DOMAIN Stages}
Buckets == {"nano", "micro", "standard", "complex", "critical"}

\* The exceptions a stage can raise, by the classes that are told apart;
\* "cancelled" is the cancellation of the task, which is no Exception.
PipelineKinds == {"retryable", "blocking", "critical"}
ForeignKinds == {"budget", "escalation", "connection", "other"}
Raisable == PipelineKinds \cup ForeignKinds \cup {"cancelled"}
Outcomes == {"pending", "returned", "transient"} \cup Raisable

\* compute_hash, taken to be collision-free; NoHash is the empty string.
Versions == 1..MaxVersion
Hash(version) == <<"sha256", version>>
NoHash == <<"", 0>>

VARIABLES
    hasId,      \* feature.id is not empty
    bucket,     \* feature.complexity_bucket
    blueprint,  \* version of the blueprint's content
    specHash,   \* feature.spec_hash
    flagged,    \* feature.awaiting_human_approval
    pc,         \* "start", the stage being awaited, or "ended"
    outcome,    \* what the activity returned or raised
    \* history
    builtFrom,  \* version the coder agent verified and generated code from
    judged,     \* version the hash check of this agent saw
    passed,     \* stages that returned, in order
    cause       \* the exception of the hash check or of a stage

feature == <<hasId, bucket, blueprint, specHash, builtFrom>>
vars == <<feature, flagged, pc, outcome, judged, passed, cause>>

Init ==
    /\ hasId \in BOOLEAN /\ bucket \in Buckets
    /\ blueprint \in Versions /\ builtFrom \in Versions /\ builtFrom <= blueprint
    /\ specHash \in {NoHash, Hash(builtFrom)}
    /\ flagged = FALSE
    /\ pc = "start" /\ outcome = "pending"
    /\ judged = 0 /\ passed = <<>> /\ cause = "none"

-------------------------------------------------------------------------------
\* Mutant: the clause for Exception comes before the one for PipelineError.
WrappedAll(kind) == IF kind \in ForeignKinds \cup PipelineKinds THEN "transient" ELSE kind

\* BaseAgent.run re-raises a PipelineError as it is and wraps any other
\* Exception in a TransientInfraError; a cancellation is caught by neither.
Wrapped(kind) == IF kind \in ForeignKinds THEN "transient" ELSE kind

\* tracked_activity marks a feature whose budget is exceeded and raises
\* EscalationRequiredError; everything else passes.
Raise(kind) ==
    /\ pc' = "ended"
    /\ cause' = kind
    /\ flagged' = (flagged \/ Wrapped(kind) = "budget")
    /\ outcome' = IF Wrapped(kind) = "budget" THEN "escalation" ELSE Wrapped(kind)

Return ==
    /\ pc' = "ended"
    /\ outcome' = "returned"
    /\ UNCHANGED <<flagged, cause>>

Await(stage) ==
    /\ pc' = stage
    /\ UNCHANGED <<flagged, outcome, cause>>

\* Mutant: the hash of the feature is not compared.
HashDriftedNever == FALSE

\* feature.spec_hash and feature.spec_hash != blueprint.compute_hash()
HashDrifted == specHash \notin {NoHash, Hash(blueprint)}

\* The validation of the input, the hash check, and the first stage.
Start ==
    /\ pc = "start"
    /\ judged' = blueprint
    /\ \/ ~hasId /\ Raise("other")
       \/ hasId /\ HashDrifted /\ Raise("blocking")
       \/ hasId /\ ~HashDrifted /\ Await(Stages[1])
    /\ UNCHANGED <<feature, passed>>

\* The last stage is skipped for the lower buckets.
NeedsFormal == bucket \in {"complex", "critical"}

\* Mutant: type checking is left out.
NextStageSkipping(i) == IF i = 1 THEN Stages[3] ELSE Stages[i + 1]

NextStage(i) == Stages[i + 1]

\* A stage returns and the next one begins; without the last one the agent
\* returns after the hostile audit.
StageReturns ==
    \E i \in DOMAIN Stages :
        /\ pc = Stages[i]
        /\ passed' = Append(passed, pc)
        /\ \/ /\ i = 6 \/ (i = 5 /\ ~NeedsFormal)
              /\ Return
           \/ /\ i < 5 \/ (i = 5 /\ NeedsFormal)
              /\ Await(NextStage(i))
        /\ UNCHANGED <<feature, judged>>

\* QABlockError, SecurityBlockError or HostileAuditBlockError.
StageBlocks ==
    /\ pc \in StageNames
    /\ Raise("blocking")
    /\ UNCHANGED <<feature, judged, passed>>

StageRaises ==
    /\ pc \in StageNames
    /\ \E kind \in Raisable : Raise(kind)
    /\ UNCHANGED <<feature, judged, passed>>

\* Another holder of the request edits the blueprint.
BlueprintDrifts ==
    /\ pc # "ended"
    /\ blueprint < MaxVersion
    /\ blueprint' = blueprint + 1
    /\ UNCHANGED <<hasId, bucket, specHash, builtFrom, flagged, pc, outcome, judged, passed,
                   cause>>

Next == Start \/ StageReturns \/ StageBlocks \/ StageRaises \/ BlueprintDrifts

Spec == Init /\ [][Next]_vars

-------------------------------------------------------------------------------
\* Types; the stages passed are a beginning of the six.
TypeOK ==
    /\ hasId \in BOOLEAN /\ bucket \in Buckets /\ flagged \in BOOLEAN
    /\ blueprint \in Versions /\ builtFrom \in Versions /\ judged \in Versions \cup {0}
    /\ specHash \in {NoHash} \cup {Hash(v) : v \in Versions}
    /\ pc \in StageNames \cup {"start", "ended"}
    /\ outcome \in Outcomes
    /\ passed = SubSeq(Stages, 1, Len(passed))
    /\ cause \in Raisable \cup {"none"}

\* A feature that QA lets pass went through the first five stages, and through
\* formal verification too if it is complex or critical; and if it has a spec
\* hash, the blueprint was, when QA began, the version the coder agent generated
\* the code from.  An edit while a stage is awaited goes unnoticed
\* (qa_agent.py:47-73, 153-160).
ReturnedIsVerified ==
    outcome = "returned" =>
        /\ {Stages[i] : i \in 1..5} \subseteq {passed[i] : i \in DOMAIN passed}
        /\ bucket \in {"complex", "critical"} => passed = Stages
        /\ specHash # NoHash => judged = builtFrom

\* Over both layers a retryable, blocking or critical error of a stage leaves
\* the agent as that, every other exception as a TransientInfraError, and a
\* cancellation as itself: a verdict that blocks never comes out as something
\* to be retried, and no Exception without a severity comes out at all, not even
\* a budget exceeded in a stage, which tracked_activity therefore never escalates
\* (base.py:65, 86-114; temporal_helpers.py:117-130).
SeverityKept ==
    pc = "ended" /\ outcome # "returned" =>
        outcome = IF cause \in ForeignKinds THEN "transient" ELSE cause

===============================================================================
