---------------------------- MODULE FeatureWorkflow ----------------------------
(***************************************************************************)
(* run_feature_development_workflow (orchestrator/workflow.py) for one     *)
(* feature: the phases in order, the spec hash check and the per-file      *)
(* retry loop of code generation, the fire drill gate, and the routing of  *)
(* exceptions to a WorkflowResult.                                         *)
(*                                                                         *)
(* The bodies of the phases are external activities (placeholders in the   *)
(* source): each is awaited, and returns or raises any kind of exception   *)
(* the workflow tells apart.  pc names the activity being awaited; what    *)
(* the workflow does between two awaits is one step.  While it waits,      *)
(* other holders of the FeatureRequest may edit the blueprint, and the SRE *)
(* agent may report a fire drill.  When the workflow has ended, verdict is *)
(* no longer "pending" and pc stays where it ended.                        *)
(***************************************************************************)
EXTENDS Integers

CONSTANTS NumFiles,      \* Len(feature.interface_files)
          RetryLimits,   \* values of feature.max_code_retries
          MaxVersion     \* bound: edits of the blueprint's content

ASSUME NumFilesAssumption == NumFiles \in Nat
ASSUME RetryLimitsAssumption == RetryLimits \subseteq Nat
ASSUME MaxVersionAssumption == MaxVersion \in Nat \ {0}

Versions == 1..MaxVersion
Files == 1..NumFiles
Activities == {"intake", "implement", "qa", "shadow", "production", "archival"}
ErrorKinds == {"critical", "blocking", "retryable", "pipeline", "foreign"}
Verdicts == {"pending", "success", "CRITICAL", "BLOCKED", "UNHANDLED", "escaped"}

\* compute_hash depends on the content alone and is taken to be collision-free;
\* the empty string is no hash of anything.
Hash(version) == <<"sha256", version>>
NoHash == <<"", 0>>
Hashes == {NoHash} \cup {Hash(v) : v \in Versions}

VARIABLES
    \* the FeatureRequest the activities see
    blueprint,       \* version of the blueprint's content
    specHash,        \* feature.spec_hash
    drill,           \* feature.fire_drill_result: absent, passed or failed
    limit,           \* feature.max_code_retries
    retries,         \* cost_ledger.retries_global of the codegen phase's object
    \* the FeatureRequest the outer function is bound to
    callerRetries,   \* its cost_ledger.retries_global
    shared,          \* it is the same object as the codegen phase's
    reasonSet,       \* its escalation_reason is set
    \* control
    pc, file, attempt, verdict,
    \* history
    implemented,     \* files whose implementation passed its tests
    builtHash,       \* hash of the blueprint when code generation began
    drillAtGate,     \* fire_drill_result that the gate read
    raised,          \* exceptions raised by activities
    lastRaised       \* kind of the last of them

feature == <<blueprint, specHash, drill, limit>>
ledger == <<retries, callerRetries, shared>>
loop == <<file, attempt>>
history == <<implemented, builtHash, drillAtGate>>
errors == <<raised, lastRaised>>
vars == <<feature, ledger, reasonSet, pc, loop, verdict, history, errors>>

\* The callers create the request with or without a hash, and may have a
\* result of an earlier drill in it.
Init ==
    /\ blueprint = 1
    /\ specHash \in {NoHash, Hash(1)}
    /\ drill \in {"absent", "passed", "failed"}
    /\ limit \in RetryLimits
    /\ retries = 0 /\ callerRetries = 0 /\ shared = TRUE
    /\ reasonSet = FALSE
    /\ pc = "intake" /\ file = 1 /\ attempt = 1
    /\ verdict = "pending"
    /\ implemented = {} /\ builtHash = NoHash /\ drillAtGate = "absent"
    /\ raised = 0 /\ lastRaised = "none"

-------------------------------------------------------------------------------
\* The except clauses of run_feature_development_workflow, most specific first.
\* A CriticalError or a BlockingError also marks the outer feature.
HandlerOf(kind) ==
    CASE kind = "critical" -> "CRITICAL"
      [] kind = "blocking" -> "BLOCKED"
      [] kind \in {"retryable", "pipeline"} -> "UNHANDLED"
      [] kind = "foreign" -> "escaped"

\* An activity raises.
Raise(kind) ==
    /\ raised' = raised + 1
    /\ lastRaised' = kind

\* Mutant: the workflow treats a retryable error as handled and ends well.
EndSwallowing(kind) ==
    /\ UNCHANGED pc
    /\ verdict' = IF kind = "retryable" THEN "success" ELSE HandlerOf(kind)
    /\ reasonSet' = (reasonSet \/ kind \in {"critical", "blocking"})

\* An exception of this kind reaches the outer function.
EndWith(kind) ==
    /\ UNCHANGED pc
    /\ verdict' = HandlerOf(kind)
    /\ reasonSet' = (reasonSet \/ kind \in {"critical", "blocking"})

Awaiting(activity) == verdict = "pending" /\ pc = activity

Await(activity) ==
    /\ pc' = activity
    /\ UNCHANGED <<verdict, reasonSet>>

\* Mutant: the hash is not compared.
HashDriftedNever(hash) == FALSE

\* feature.spec_hash and feature.spec_hash != blueprint.compute_hash()
HashDrifted(hash) == hash # NoHash /\ hash # Hash(blueprint)

\* Mutant: the return value of the codegen phase is not assigned.
BindCallerNever(n) == UNCHANGED <<callerRetries, shared>>

\* Leaving the codegen phase binds the outer feature to its return value.
BindCaller(n) ==
    /\ callerRetries' = n
    /\ shared' = TRUE

\* Intake returns, having locked the blueprint or not, and code generation
\* begins: the hash check, then the first attempt at the first file.  With no
\* file to write, or no attempt allowed, both loops are empty.
IntakeReturns ==
    /\ Awaiting("intake")
    /\ specHash' \in {specHash, NoHash, Hash(blueprint)}
    /\ builtHash' = Hash(blueprint)
    /\ \/ /\ HashDrifted(specHash')
          /\ EndWith("blocking")
       \/ /\ ~HashDrifted(specHash')
          /\ Await(IF NumFiles > 0 /\ limit > 0 THEN "implement" ELSE "qa")
    /\ UNCHANGED <<blueprint, drill, limit, ledger, loop, implemented, drillAtGate, errors>>

\* _implement_single_file returns the feature it was given or a copy of it (a
\* Temporal activity returns a deserialized one).
ImplementReturns ==
    /\ Awaiting("implement")
    /\ implemented' = implemented \cup {file}
    /\ \/ /\ file < NumFiles
          /\ file' = file + 1
          /\ attempt' = 1
          /\ shared' \in {shared, FALSE}
          /\ Await("implement")
          /\ UNCHANGED callerRetries
       \/ /\ file = NumFiles
          /\ BindCaller(retries)
          /\ Await("qa")
          /\ UNCHANGED loop
    /\ UNCHANGED <<feature, retries, builtHash, drillAtGate, errors>>

\* record_retry on the feature the codegen phase holds.
RecordRetry ==
    /\ retries' = retries + 1
    /\ callerRetries' = IF shared THEN callerRetries + 1 ELSE callerRetries
    /\ UNCHANGED shared

\* Mutant: range(0, max_code_retries + 1), one attempt too many.
AttemptsLeftOver == attempt <= limit

\* range(1, max_code_retries + 1) has another value.
AttemptsLeft == attempt < limit

\* Mutant: an exhausted file is skipped and the next one begun.
ImplementSkips ==
    /\ Awaiting("implement")
    /\ Raise("retryable")
    /\ RecordRetry
    /\ \/ /\ AttemptsLeft
          /\ attempt' = attempt + 1
          /\ Await("implement")
          /\ UNCHANGED file
       \/ /\ ~AttemptsLeft
          /\ Await(IF file < NumFiles THEN "implement" ELSE "qa")
          /\ file' = IF file < NumFiles THEN file + 1 ELSE file
          /\ attempt' = 1
    /\ UNCHANGED <<feature, history>>

\* CodeGenerationError: record it, then try again or, on the last attempt, raise
\* MaxRetriesExhaustedError, a blocking error.
ImplementFailsTests ==
    /\ Awaiting("implement")
    /\ Raise("retryable")
    /\ RecordRetry
    /\ \/ /\ AttemptsLeft
          /\ attempt' = attempt + 1
          /\ Await("implement")
       \/ /\ ~AttemptsLeft
          /\ EndWith("blocking")
          /\ UNCHANGED attempt
    /\ UNCHANGED <<feature, file, history>>

\* Mutant: no trial deployment.
QaReleases ==
    /\ Awaiting("qa")
    /\ Await("production")
    /\ UNCHANGED <<feature, ledger, loop, history, errors>>

QaReturns ==
    /\ Awaiting("qa")
    /\ Await("shadow")
    /\ UNCHANGED <<feature, ledger, loop, history, errors>>

\* Mutant: the gate looks at the result, not at whether it passed.
DrillFailedNever == FALSE

\* feature.fire_drill_result and not feature.fire_drill_result.passed
DrillFailed == drill = "failed"

\* The shadow deployment returns and the fire drill phase reads the result that
\* is in the feature by then, without an await in between.
ShadowReturns ==
    /\ Awaiting("shadow")
    /\ drillAtGate' = drill
    /\ \/ DrillFailed /\ EndWith("blocking")
       \/ ~DrillFailed /\ Await("production")
    /\ UNCHANGED <<feature, ledger, loop, implemented, builtHash, errors>>

ProductionReturns ==
    /\ Awaiting("production")
    /\ Await("archival")
    /\ UNCHANGED <<feature, ledger, loop, history, errors>>

ArchivalReturns ==
    /\ Awaiting("archival")
    /\ verdict' = "success"
    /\ UNCHANGED <<feature, ledger, reasonSet, pc, loop, history, errors>>

\* An activity raises anything but the CodeGenerationError that the retry loop
\* catches.  A foreign exception is no PipelineError (EscalationRequiredError
\* of tracked_activity, for one).
ActivityRaises ==
    \E kind \in ErrorKinds :
        /\ verdict = "pending"
        /\ Raise(kind)
        /\ EndWith(kind)
        /\ UNCHANGED <<feature, ledger, loop, history>>

\* Another holder of the request edits the blueprint; nothing stops it.
BlueprintDrifts ==
    /\ verdict = "pending"
    /\ blueprint < MaxVersion
    /\ blueprint' = blueprint + 1
    /\ UNCHANGED <<specHash, drill, limit, ledger, reasonSet, pc, loop, verdict, history, errors>>

\* SREAgent.run_fire_drill stores the result of a drill in the feature.
DrillReports ==
    /\ verdict = "pending"
    /\ drill' \in {"passed", "failed"}
    /\ UNCHANGED <<blueprint, specHash, limit, ledger, reasonSet, pc, loop, verdict, history, errors>>

WorkflowStep ==
    \/ IntakeReturns \/ ImplementReturns \/ ImplementFailsTests \/ QaReturns
    \/ ShadowReturns \/ ProductionReturns \/ ArchivalReturns \/ ActivityRaises

Next == WorkflowStep \/ BlueprintDrifts \/ DrillReports

Spec == Init /\ [][Next]_vars

\* Activities have a start-to-close timeout (temporal_helpers.py:45-58), so each
\* returns or raises; nothing is assumed of the other holders of the request.
FairSpec == Spec /\ WF_vars(WorkflowStep)

-------------------------------------------------------------------------------
\* Types of the feature, of the loop and of the result.
TypeOK ==
    /\ blueprint \in Versions
    /\ specHash \in Hashes
    /\ drill \in {"absent", "passed", "failed"}
    /\ limit \in RetryLimits
    /\ retries \in Nat /\ callerRetries \in Nat /\ raised \in Nat
    /\ lastRaised \in ErrorKinds \cup {"none"}
    /\ shared \in BOOLEAN /\ reasonSet \in BOOLEAN
    /\ pc \in Activities
    /\ file \in Nat \ {0} /\ attempt \in Nat \ {0}
    /\ pc = "implement" => file \in Files /\ attempt <= limit
    /\ verdict \in Verdicts
    /\ implemented \subseteq Files
    /\ builtHash \in Hashes
    /\ drillAtGate \in {"absent", "passed", "failed"}

Promoted == pc \in {"production", "archival"}

\* Nothing reaches production unless each interface file passed its tests, the
\* spec hash was that of the blueprint as it was when code generation began (or
\* there was no hash), and the fire drill gate did not read a failed drill.  The
\* hash is compared that once, not "at every stage boundary" (workflow.py:8): a
\* later edit of the blueprint is not seen.  With no attempt allowed, no file is
\* implemented, and nothing escalates (workflow.py:152-208, 238-248).
PromotionGates ==
    Promoted =>
        /\ implemented = (IF limit > 0 THEN Files ELSE {})
        /\ specHash \in {NoHash, builtHash}
        /\ drillAtGate # "failed"

\* No failure disappears: a workflow that is running or ended in success has
\* had no exception but the code generation failures in its ledger, and the
\* feature carries an escalation reason exactly when a critical or blocking
\* error ended it (workflow.py:56-59, 85-134).
NoSilentFailure ==
    /\ verdict \in {"pending", "success"} => raised = retries
    /\ verdict \in {"UNHANDLED", "escaped"} => raised = retries + 1
    /\ verdict \in {"CRITICAL", "BLOCKED"} <=> reasonSet

\* The ledger of the WorkflowResult counts every code generation failure if
\* the workflow left the codegen phase or the activities return the object they
\* were given; after a copy, a workflow that halts inside the phase returns the
\* outer, older ledger (workflow.py:66, 169, 186, 92-94).
ResultLedger ==
    /\ shared => callerRetries = retries
    /\ pc # "implement" => shared
    /\ verdict = "success" => callerRetries = raised

\* Over all files, code generation fails at most limit - 1 times per finished
\* file and at most limit times in the last one begun: the retry loop neither
\* loses count nor starts afresh; with no attempt allowed nothing is retried
\* (workflow.py:164-208).
RetryBound ==
    /\ pc = "implement" =>
          retries <= (file - 1) * (limit - 1) + attempt - (IF verdict = "pending" THEN 1 ELSE 0)
    /\ Promoted => retries <= (IF limit > 0 THEN NumFiles * (limit - 1) ELSE 0)

-------------------------------------------------------------------------------
\* The workflow implements the contract: its stage is the activity it waits
\* for, or waited for when it ended.
StageOf ==
    CASE pc = "intake" -> 1     [] pc = "implement" -> 2  [] pc = "qa" -> 3
      [] pc = "shadow" -> 4     [] pc = "production" -> 5 [] pc = "archival" -> 6

ContractVerdict ==
    IF verdict \in {"CRITICAL", "BLOCKED", "UNHANDLED"} THEN "escalated" ELSE verdict

Contract == INSTANCE PipelineContract WITH stage <- StageOf, verdict <- ContractVerdict

\* Whatever the activities do, the stages are passed in order, the release is
\* entered from the trial only, and the feature gets one final verdict.
ImplementsContract == Contract!Spec

-------------------------------------------------------------------------------
\* What workers/sre_agent.py:226 says: the fire drill must pass before any
\* production promotion.
PromotionNeedsPassedDrill == Promoted => drillAtGate = "passed"

\* What the docstring of the workflow says (workflow.py:52): a retryable error
\* is retried up to the limit before it escalates.
RetryableIsRetried ==
    (verdict # "pending" /\ lastRaised = "retryable") => raised >= limit
===============================================================================
