------------------------------ MODULE CoderAgent ------------------------------
(***************************************************************************)
(* CoderAgent under RetryableAgent.run_with_retries (workers/coder_agent.py *)
(* and workers/base.py): attempts that each validate the feature, compare  *)
(* the spec hash and then implement every interface file in turn, with the *)
(* wrapping of foreign exceptions by BaseAgent.run.                        *)
(*                                                                         *)
(* The inference, the alignment check and the test run are external: each  *)
(* is awaited and returns any answer or raises any kind of exception.  pc  *)
(* names the one being awaited.  From one await to the next is one step: a *)
(* failing attempt is recorded and the next one begun without a pause,     *)
(* since _on_retry only logs.                                              *)
(***************************************************************************)
EXTENDS Integers, FiniteSets, Sequences

CONSTANTS NumFiles,     \* Len(feature.interface_files)
          MaxRetries,   \* max_retries of the agent class
          MaxVersion    \* bound: edits of the blueprint's content

ASSUME NumFilesAssumption == NumFiles \in Nat
ASSUME MaxRetriesAssumption == MaxRetries \in Nat
ASSUME MaxVersionAssumption == MaxVersion \in Nat \ {0}

Files == 1..NumFiles
Versions == 1..MaxVersion
Awaits == {"inference", "alignment", "tests"}
Outcomes == {"pending", "returned", "exhausted", "blocking", "critical", "pipeline"}

\* compute_hash, taken to be collision-free; NoHash is the empty string.
Hash(version) == <<"sha256", version>>
NoHash == <<"", 0>>

VARIABLES
    hasId,            \* feature.id is not empty
    blueprint,        \* version of the blueprint's content
    specHash,         \* feature.spec_hash
    pc,               \* "start", the call being awaited, or "ended"
    attempt,          \* the loop variable of run_with_retries
    file,             \* the file being implemented
    outcome,          \* how run_with_retries ended
    inferenceCalls,   \* cost_ledger.inference_calls
    retries,          \* cost_ledger.retries_global
    implementation_files,   \* of the feature
    \* history
    attemptStart,     \* Len(implementation_files) when the attempt began
    attemptHash,      \* hash of the blueprint when the attempt began
    fatal             \* calls that ended in an exception that is not retried

request == <<hasId, blueprint, specHash>>
ledger == <<inferenceCalls, retries>>
ghosts == <<attemptStart, attemptHash, fatal>>
vars == <<request, pc, attempt, file, outcome, ledger, implementation_files, ghosts>>

Init ==
    /\ hasId \in BOOLEAN
    /\ blueprint = 1
    /\ specHash \in {NoHash, Hash(1)}
    /\ pc = "start" /\ attempt = 0 /\ file = 0
    /\ outcome = "pending"
    /\ inferenceCalls = 0 /\ retries = 0
    /\ implementation_files = <<>>
    /\ attemptStart = 0 /\ attemptHash = NoHash /\ fatal = 0

End(how) ==
    /\ pc' = "ended"
    /\ outcome' = how

\* Mutant: the inference is recorded when the tests have passed.
CallInferenceUnrecorded(f) ==
    /\ pc' = "inference"
    /\ file' = f
    /\ UNCHANGED <<inferenceCalls, outcome>>

\* _implement_file up to its first await: the ledger first, the call after.
CallInference(f) ==
    /\ pc' = "inference"
    /\ file' = f
    /\ inferenceCalls' = inferenceCalls + 1
    /\ UNCHANGED outcome

\* Mutant: the hash is verified in the first attempt only.
HashDriftedAtFirst == attempt = 0 /\ specHash \notin {NoHash, Hash(blueprint)}

\* feature.spec_hash and feature.spec_hash != blueprint.compute_hash()
HashDrifted == specHash \notin {NoHash, Hash(blueprint)}

\* Mutant: an attempt goes on behind the file that failed.
BeginAttemptBehind(n) ==
    /\ attempt' = n
    /\ attemptHash' = Hash(blueprint)
    /\ attemptStart' = Len(implementation_files)
    /\ \/ /\ HashDrifted
          /\ End("blocking")
          /\ UNCHANGED <<file, inferenceCalls>>
       \/ /\ ~HashDrifted /\ file < NumFiles
          /\ CallInference(file + 1)
       \/ /\ ~HashDrifted /\ file = NumFiles
          /\ End("returned")
          /\ UNCHANGED <<file, inferenceCalls>>

\* An attempt: verify the hash, then begin the first file.  The feature keeps what
\* earlier attempts appended to implementation_files.
BeginAttempt(n) ==
    /\ attempt' = n
    /\ attemptHash' = Hash(blueprint)
    /\ attemptStart' = Len(implementation_files)
    /\ \/ /\ HashDrifted
          /\ End("blocking")
          /\ UNCHANGED <<file, inferenceCalls>>
       \/ /\ ~HashDrifted /\ NumFiles > 0
          /\ CallInference(1)
       \/ /\ ~HashDrifted /\ NumFiles = 0
          /\ End("returned")
          /\ UNCHANGED <<file, inferenceCalls>>

\* run_with_retries with no attempt to make: max_retries is 0, or the feature
\* has no id.  In that case every attempt fails in _validate_input at once and
\* the ValueError, wrapped in a TransientInfraError, is retried in vain.
GiveUpAtOnce ==
    /\ End("exhausted")
    /\ retries' = IF hasId THEN 0 ELSE MaxRetries
    /\ attempt' = MaxRetries
    /\ UNCHANGED <<file, inferenceCalls, attemptStart, attemptHash>>

Start ==
    /\ pc = "start"
    /\ \/ hasId /\ MaxRetries > 0 /\ BeginAttempt(1) /\ UNCHANGED retries
       \/ ~(hasId /\ MaxRetries > 0) /\ GiveUpAtOnce
    /\ UNCHANGED <<request, implementation_files, fatal>>

\* Mutant: one attempt too many.
AttemptsLeftOver == attempt <= MaxRetries

\* range(1, max_retries + 1) has another value.
AttemptsLeft == attempt < MaxRetries

\* A RetryableError ends the attempt: record it in the ledger, also after the
\* last attempt, then begin the next attempt or raise MaxRetriesExhaustedError.
Retry ==
    /\ retries' = retries + 1
    /\ \/ /\ AttemptsLeft
          /\ BeginAttempt(attempt + 1)
       \/ /\ ~AttemptsLeft
          /\ End("exhausted")
          /\ UNCHANGED <<attempt, attemptHash, attemptStart, file, inferenceCalls>>
    /\ UNCHANGED <<request, implementation_files, fatal>>

\* An exception that run_with_retries does not retry.
Propagate(kind) ==
    /\ End(kind)
    /\ fatal' = fatal + 1
    /\ UNCHANGED <<request, attempt, file, ledger, implementation_files, attemptStart,
                   attemptHash>>

\* Any awaited call raises.  A foreign exception, such as a timeout or a
\* BudgetExceededError, is wrapped in TransientInfraError and so is retried
\* like a RetryableError.
CallRaises ==
    /\ pc \in Awaits
    /\ \/ Retry
       \/ \E kind \in {"blocking", "critical", "pipeline"} : Propagate(kind)

InferenceReturns ==
    /\ pc = "inference"
    /\ pc' = "alignment"
    /\ UNCHANGED <<request, attempt, file, outcome, ledger, implementation_files, ghosts>>

\* Mutant: drifting code is generated again instead of blocking.
AlignmentAsksAgain ==
    /\ pc = "alignment"
    /\ pc' \in {"inference", "tests"}
    /\ UNCHANGED <<request, attempt, file, outcome, ledger, implementation_files, ghosts>>

\* A similarity under 0.75 is a SemanticDriftError, which is blocking.
AlignmentReturns ==
    /\ pc = "alignment"
    /\ \/ Propagate("blocking")
       \/ /\ pc' = "tests"
          /\ UNCHANGED <<request, attempt, file, outcome, ledger, implementation_files, ghosts>>

\* The tests of the file pass: it is appended to implementation_files, once
\* more if an earlier attempt did so already, and the next file begins.
TestsPass ==
    /\ pc = "tests"
    /\ implementation_files' = Append(implementation_files, file)
    /\ \/ /\ file < NumFiles
          /\ CallInference(file + 1)
       \/ /\ file = NumFiles
          /\ End("returned")
          /\ UNCHANGED <<file, inferenceCalls>>
    /\ UNCHANGED <<request, attempt, retries, ghosts>>

\* The tests fail: CodeGenerationError.
TestsFail == pc = "tests" /\ Retry

\* Another holder of the request edits the blueprint.
BlueprintDrifts ==
    /\ pc # "ended"
    /\ blueprint < MaxVersion
    /\ blueprint' = blueprint + 1
    /\ UNCHANGED <<hasId, specHash, pc, attempt, file, outcome, ledger,
                   implementation_files, ghosts>>

AgentStep ==
    Start \/ CallRaises \/ InferenceReturns \/ AlignmentReturns \/ TestsPass \/ TestsFail

Next == AgentStep \/ BlueprintDrifts

Spec == Init /\ [][Next]_vars

\* Awaited calls end (the activity around the agent has a timeout).
FairSpec == Spec /\ WF_vars(AgentStep)

-------------------------------------------------------------------------------
\* Types of the request, the ledger and the loops.
TypeOK ==
    /\ hasId \in BOOLEAN
    /\ blueprint \in Versions
    /\ {specHash, attemptHash} \subseteq {NoHash} \cup {Hash(v) : v \in Versions}
    /\ pc \in Awaits \cup {"start", "ended"}
    /\ attempt \in 0..MaxRetries
    /\ file \in 0..NumFiles
    /\ outcome \in Outcomes
    /\ inferenceCalls \in Nat /\ retries \in Nat /\ fatal \in 0..1
    /\ implementation_files \in Seq(Files)
    /\ attemptStart \in 0..Len(implementation_files)

\* The ledger accounts for every inference: each one recorded is in progress,
\* produced a file, was paid back by a recorded retry or ended the run.  So the
\* cost of a call is in the ledger before the call is made, and a failed call
\* is never free.  A run that gives up has recorded max_retries retries, one for
\* every attempt, also for attempts that could only fail; with max_retries = 0 it
\* gives up with none (coder_agent.py:73, 104; base.py:159, 183).
InferenceAccounting ==
    /\ hasId => inferenceCalls = Len(implementation_files) + retries + fatal
                                   + (IF pc \in Awaits THEN 1 ELSE 0)
    /\ outcome = "exhausted" => retries = MaxRetries

\* What a successful run returns: the last attempt, which began with the hash
\* intact, appended one whole implementation, every interface file in order.  In
\* front of it stand the files that passed in failed attempts, which the feature
\* keeps, no more than NumFiles - 1 of each.  An edit of the blueprint during the
\* attempt is not seen (coder_agent.py:41-59, 104).
ReturnedEndsWithOneAttempt ==
    outcome = "returned" =>
        /\ Len(implementation_files) = attemptStart + NumFiles
        /\ \A f \in Files : implementation_files[attemptStart + f] = f
        /\ attemptStart <= retries * (NumFiles - 1)
        /\ specHash \in {NoHash, attemptHash}

\* The agent ends.
AgentEnds == <>(pc = "ended")
===============================================================================
