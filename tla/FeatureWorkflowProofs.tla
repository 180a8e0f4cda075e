------------------------- MODULE FeatureWorkflowProofs -------------------------
(***************************************************************************)
(* Proofs about FeatureWorkflow, for every number of files, set of retry   *)
(* limits and number of blueprint edits.                                   *)
(*                                                                         *)
(* The gates before production are passed one after the other, so that     *)
(* PromotionGates needs an invariant that says at each stage which gates   *)
(* are behind it (GatesPassed).                                            *)
(***************************************************************************)
EXTENDS FeatureWorkflow, TLAPS

\* What each stage owes to the ones before it: the hash is verified before
\* the first file, the files are implemented in order and all of them before
\* QA, and the fire drill is judged on leaving the shadow deployment.
GatesPassed ==
    /\ pc = "intake" => implemented = {} /\ file = 1 /\ attempt = 1
    /\ pc # "intake" => specHash \in {NoHash, builtHash}
    /\ pc = "implement" => 1..(file - 1) \subseteq implemented
    /\ pc = "implement" => limit > 0
    /\ pc \in {"qa", "shadow", "production", "archival"} =>
          implemented = (IF limit > 0 THEN Files ELSE {})
    /\ pc \in {"production", "archival"} => drillAtGate # "failed"

FinishedAtTheEnd == verdict = "success" => pc = "archival"

IInv == TypeOK /\ GatesPassed /\ FinishedAtTheEnd /\ NoSilentFailure /\ ResultLedger

-------------------------------------------------------------------------------
\* Hashes of versions that exist are hashes.
LEMMA VersionHash == blueprint \in Versions => Hash(blueprint) \in Hashes
BY DEF Hashes

\* An exception that reaches the outer function ends the workflow where it is,
\* never in success, and marks the feature exactly if a human is asked to act.
LEMMA Halts ==
    ASSUME NEW kind \in ErrorKinds, NoSilentFailure, verdict = "pending", EndWith(kind)
    PROVE  /\ pc' = pc
           /\ verdict' \in Verdicts \ {"pending", "success"}
           /\ verdict' \in {"CRITICAL", "BLOCKED"} <=> reasonSet'
           /\ reasonSet' \in BOOLEAN
           /\ kind = "blocking" => verdict' = "BLOCKED"
<1>1. ~reasonSet
  BY DEF NoSilentFailure
<1>2. reasonSet' <=> kind \in {"critical", "blocking"}
  BY <1>1 DEF EndWith
<1>3. reasonSet' \in BOOLEAN
  BY DEF EndWith
<1>4. pc' = pc /\ verdict' = HandlerOf(kind)
  BY DEF EndWith
<1>5. /\ kind = "critical" => HandlerOf(kind) = "CRITICAL"
      /\ kind = "blocking" => HandlerOf(kind) = "BLOCKED"
      /\ kind \in {"retryable", "pipeline"} => HandlerOf(kind) = "UNHANDLED"
      /\ kind = "foreign" => HandlerOf(kind) = "escaped"
  BY DEF HandlerOf
<1>6. kind \in {"critical", "blocking", "retryable", "pipeline", "foreign"}
  BY DEF ErrorKinds
<1>7. verdict' \in Verdicts \ {"pending", "success"}
  BY <1>4, <1>5, <1>6 DEF Verdicts
<1>8. verdict' \in {"CRITICAL", "BLOCKED"} <=> kind \in {"critical", "blocking"}
  BY <1>4, <1>5, <1>6
<1> QED BY <1>2, <1>3, <1>4, <1>5, <1>7, <1>8

\* Going on to an activity leaves the workflow without a verdict.
LEMMA Continues ==
    ASSUME NEW activity \in Activities, TypeOK, NoSilentFailure, verdict = "pending",
           Await(activity)
    PROVE  /\ pc' = activity
           /\ verdict' = "pending"
           /\ reasonSet' \in BOOLEAN
           /\ ~reasonSet'
<1>1. ~reasonSet /\ reasonSet \in BOOLEAN
  BY DEF NoSilentFailure, TypeOK
<1>2. pc' = activity /\ verdict' = verdict /\ reasonSet' = reasonSet
  BY DEF Await
<1> QED BY <1>1, <1>2

-------------------------------------------------------------------------------
\* Before intake no gate has been passed and nothing has been raised.
LEMMA InitInvariant == Init => IInv
<1> SUFFICES ASSUME Init PROVE IInv
  OBVIOUS
<1>1. blueprint \in Versions
  BY MaxVersionAssumption DEF Init, Versions
<1>2. specHash \in Hashes /\ builtHash \in Hashes
  BY <1>1 DEF Init, Hashes
<1>3. TypeOK
  <2>1. shared \in BOOLEAN /\ reasonSet \in BOOLEAN
    BY DEF Init
  <2>2. pc \in Activities /\ verdict \in Verdicts /\ pc # "implement"
    BY DEF Init, Activities, Verdicts
  <2>3. /\ drill \in {"absent", "passed", "failed"}
        /\ drillAtGate \in {"absent", "passed", "failed"}
        /\ limit \in RetryLimits
        /\ retries \in Nat /\ callerRetries \in Nat /\ raised \in Nat
        /\ lastRaised \in ErrorKinds \cup {"none"}
        /\ file \in Nat \ {0} /\ attempt \in Nat \ {0}
        /\ implemented \subseteq Files
    BY DEF Init
  <2> QED BY <1>1, <1>2, <2>1, <2>2, <2>3 DEF TypeOK
<1>4. GatesPassed /\ FinishedAtTheEnd
  BY DEF Init, GatesPassed, FinishedAtTheEnd
<1>5. NoSilentFailure /\ ResultLedger
  BY DEF Init, NoSilentFailure, ResultLedger
<1> QED BY <1>3, <1>4, <1>5 DEF IInv

\* Intake returns, and the hash is drifted or code generation begins.
LEMMA IntakeStep == IInv /\ IntakeReturns => IInv'
<1> SUFFICES ASSUME IInv, IntakeReturns PROVE IInv'
  OBVIOUS
<1>0. TypeOK /\ GatesPassed /\ NoSilentFailure /\ ResultLedger
  BY DEF IInv
<1>1. /\ verdict = "pending" /\ pc = "intake"
      /\ specHash' \in {specHash, NoHash, Hash(blueprint)}
      /\ builtHash' = Hash(blueprint)
      /\ blueprint' = blueprint /\ drill' = drill /\ limit' = limit
      /\ retries' = retries /\ callerRetries' = callerRetries /\ shared' = shared
      /\ file' = file /\ attempt' = attempt
      /\ implemented' = implemented /\ drillAtGate' = drillAtGate
      /\ raised' = raised /\ lastRaised' = lastRaised
  BY DEF IntakeReturns, Awaiting, ledger, loop, errors
<1>2. specHash' \in Hashes /\ builtHash' \in Hashes
  BY <1>0, <1>1, VersionHash DEF TypeOK, Hashes
<1>3. CASE HashDrifted(specHash') /\ EndWith("blocking")
  <2>1. /\ pc' = "intake" /\ verdict' = "BLOCKED"
        /\ reasonSet' \in BOOLEAN /\ reasonSet'
    BY <1>0, <1>1, <1>3, Halts DEF ErrorKinds
  <2>2. TypeOK'
    BY <1>0, <1>1, <1>2, <2>1 DEF TypeOK, Activities, Verdicts
  <2>3. GatesPassed' /\ FinishedAtTheEnd'
    BY <1>0, <1>1, <2>1 DEF GatesPassed, FinishedAtTheEnd
  <2>4. NoSilentFailure'
    BY <2>1 DEF NoSilentFailure
  <2>5. ResultLedger'
    BY <1>0, <1>1, <2>1 DEF ResultLedger
  <2> QED BY <2>2, <2>3, <2>4, <2>5 DEF IInv
<1>4. CASE ~HashDrifted(specHash') /\ Await(IF NumFiles > 0 /\ limit > 0 THEN "implement" ELSE "qa")
  <2> DEFINE next == IF NumFiles > 0 /\ limit > 0 THEN "implement" ELSE "qa"
  <2>1. next \in Activities /\ next \in {"implement", "qa"}
    BY DEF Activities
  <2>2. pc' = next /\ verdict' = "pending" /\ reasonSet' \in BOOLEAN /\ ~reasonSet'
    BY <1>0, <1>1, <1>4, <2>1, Continues
  <2>3. specHash' \in {NoHash, builtHash'}
    BY <1>1, <1>4 DEF HashDrifted
  <2>4. limit \in Nat
    BY <1>0, RetryLimitsAssumption DEF TypeOK
  <2>5. next = "qa" => Files = {} \/ limit = 0
    BY <2>4, NumFilesAssumption DEF Files
  <2>6. file = 1 /\ attempt = 1
    BY <1>0, <1>1 DEF GatesPassed
  <2>7. next = "implement" => file \in Files /\ attempt <= limit
    BY <2>4, <2>6, NumFilesAssumption DEF Files
  <2> HIDE DEF next
  <2>8. TypeOK'
    BY <1>0, <1>1, <1>2, <2>1, <2>2, <2>7 DEF TypeOK, Verdicts
  <2>9. GatesPassed' /\ FinishedAtTheEnd'
    <3>1. 1..(file - 1) = {}
      BY <2>6
    <3>2. next = "qa" => implemented = (IF limit > 0 THEN Files ELSE {})
      BY <1>0, <1>1, <2>5 DEF GatesPassed
    <3>3. next = "implement" => limit > 0
      BY DEF next
    <3> QED BY <1>1, <2>1, <2>2, <2>3, <3>1, <3>2, <3>3 DEF GatesPassed, FinishedAtTheEnd
  <2>10. NoSilentFailure'
    BY <1>0, <1>1, <2>2 DEF NoSilentFailure
  <2>11. ResultLedger'
    BY <1>0, <1>1, <2>1, <2>2 DEF ResultLedger
  <2> QED BY <2>8, <2>9, <2>10, <2>11 DEF IInv
<1> QED BY <1>3, <1>4 DEF IntakeReturns

\* A file's implementation passed: the next file, or QA.
LEMMA ImplementStep == IInv /\ ImplementReturns => IInv'
<1> SUFFICES ASSUME IInv, ImplementReturns PROVE IInv'
  OBVIOUS
<1>0. TypeOK /\ GatesPassed /\ NoSilentFailure /\ ResultLedger
  BY DEF IInv
<1>1. /\ verdict = "pending" /\ pc = "implement"
      /\ implemented' = implemented \cup {file}
      /\ blueprint' = blueprint /\ specHash' = specHash /\ drill' = drill /\ limit' = limit
      /\ retries' = retries
      /\ builtHash' = builtHash /\ drillAtGate' = drillAtGate
      /\ raised' = raised /\ lastRaised' = lastRaised
  BY DEF ImplementReturns, Awaiting, feature, errors
<1>2. /\ file \in Files /\ attempt <= limit /\ limit \in Nat /\ file \in Nat /\ NumFiles \in Nat
      /\ 1..(file - 1) \subseteq implemented /\ implemented \subseteq Files
      /\ attempt \in Nat \ {0}
  BY <1>0, <1>1, RetryLimitsAssumption, NumFilesAssumption DEF TypeOK, GatesPassed
<1>3. implemented' \subseteq Files /\ 1..file \subseteq implemented'
  BY <1>1, <1>2 DEF Files
<1>4. CASE /\ file < NumFiles /\ file' = file + 1 /\ attempt' = 1
           /\ shared' \in {shared, FALSE} /\ Await("implement") /\ UNCHANGED callerRetries
  <2>1. /\ pc' = "implement" /\ verdict' = "pending"
        /\ reasonSet' \in BOOLEAN /\ ~reasonSet'
    BY <1>0, <1>1, <1>4, Continues DEF Activities
  <2>2. file' \in Files /\ file' \in Nat \ {0} /\ attempt' <= limit
    BY <1>2, <1>4 DEF Files
  <2>3. shared' \in BOOLEAN /\ (shared' => shared)
    <3>1. shared \in BOOLEAN
      BY <1>0 DEF TypeOK
    <3>2. shared' = shared \/ shared' = FALSE
      BY <1>4
    <3>3. CASE shared' = shared
      BY <3>1, <3>3
    <3>4. CASE shared' = FALSE
      BY <3>4
    <3> QED BY <3>2, <3>3, <3>4
  <2>4. TypeOK'
    BY <1>0, <1>1, <1>3, <1>4, <2>1, <2>2, <2>3 DEF TypeOK, Activities
  <2>5. GatesPassed' /\ FinishedAtTheEnd'
    <3>1. 1..(file' - 1) \subseteq implemented'
      BY <1>2, <1>3, <1>4
    <3> QED BY <1>0, <1>1, <2>1, <3>1 DEF GatesPassed, FinishedAtTheEnd
  <2>6. NoSilentFailure'
    BY <1>0, <1>1, <2>1 DEF NoSilentFailure
  <2>7. ResultLedger'
    BY <1>0, <1>1, <1>4, <2>1, <2>3 DEF ResultLedger
  <2> QED BY <2>4, <2>5, <2>6, <2>7 DEF IInv
<1>5. CASE /\ file = NumFiles /\ BindCaller(retries) /\ Await("qa") /\ UNCHANGED loop
  <2>1. /\ pc' = "qa" /\ verdict' = "pending"
        /\ reasonSet' \in BOOLEAN /\ ~reasonSet'
    BY <1>0, <1>1, <1>5, Continues DEF Activities
  <2>2. file' = file /\ attempt' = attempt /\ callerRetries' = retries
    BY <1>5 DEF loop, BindCaller
  <2>3. shared' \in BOOLEAN /\ shared'
    BY <1>5 DEF BindCaller
  <2>4. TypeOK'
    BY <1>0, <1>1, <1>3, <2>1, <2>2, <2>3 DEF TypeOK, Activities
  <2>5. implemented' = Files
    BY <1>2, <1>3, <1>5 DEF Files
  <2>6. GatesPassed' /\ FinishedAtTheEnd'
    BY <1>0, <1>1, <2>1, <2>5, limit > 0 DEF GatesPassed, FinishedAtTheEnd
  <2>7. NoSilentFailure'
    BY <1>0, <1>1, <2>1 DEF NoSilentFailure
  <2>8. ResultLedger'
    BY <1>1, <2>1, <2>2, <2>3 DEF ResultLedger
  <2> QED BY <2>4, <2>6, <2>7, <2>8 DEF IInv
<1> QED BY <1>4, <1>5 DEF ImplementReturns

\* A file's tests failed: another attempt, or the file is given up.
LEMMA TestsFailStep == IInv /\ ImplementFailsTests => IInv'
<1> SUFFICES ASSUME IInv, ImplementFailsTests PROVE IInv'
  OBVIOUS
<1>0. TypeOK /\ GatesPassed /\ NoSilentFailure /\ ResultLedger
  BY DEF IInv
<1>1. /\ verdict = "pending" /\ pc = "implement"
      /\ raised' = raised + 1 /\ lastRaised' = "retryable"
      /\ retries' = retries + 1
      /\ callerRetries' = IF shared THEN callerRetries + 1 ELSE callerRetries
      /\ blueprint' = blueprint /\ specHash' = specHash /\ drill' = drill /\ limit' = limit
      /\ file' = file
      /\ implemented' = implemented /\ builtHash' = builtHash /\ drillAtGate' = drillAtGate
  BY DEF ImplementFailsTests, Awaiting, Raise, RecordRetry, feature, history
<1>2. shared' = shared /\ shared \in BOOLEAN
  BY <1>0 DEF TypeOK, ImplementFailsTests, RecordRetry
<1>3. raised = retries
  BY <1>0, <1>1 DEF NoSilentFailure
<1>4. /\ retries \in Nat /\ callerRetries \in Nat /\ raised \in Nat
      /\ limit \in Nat /\ attempt \in Nat \ {0}
  BY <1>0, RetryLimitsAssumption DEF TypeOK
<1>5. callerRetries' \in Nat /\ (shared => callerRetries' = retries')
  BY <1>0, <1>1, <1>4 DEF ResultLedger
<1>6. CASE AttemptsLeft /\ attempt' = attempt + 1 /\ Await("implement")
  <2>1. /\ pc' = "implement" /\ verdict' = "pending"
        /\ reasonSet' \in BOOLEAN /\ ~reasonSet'
    BY <1>0, <1>1, <1>6, Continues DEF Activities
  <2>2. attempt' \in Nat \ {0} /\ attempt' <= limit
    BY <1>4, <1>6 DEF AttemptsLeft
  <2>3. TypeOK'
    BY <1>0, <1>1, <1>2, <1>4, <1>5, <2>1, <2>2 DEF TypeOK, Activities, ErrorKinds
  <2>4. GatesPassed' /\ FinishedAtTheEnd'
    BY <1>0, <1>1, <2>1 DEF GatesPassed, FinishedAtTheEnd
  <2>5. NoSilentFailure'
    BY <1>1, <1>3, <2>1 DEF NoSilentFailure
  <2>6. ResultLedger'
    BY <1>2, <1>5, <2>1 DEF ResultLedger
  <2> QED BY <2>3, <2>4, <2>5, <2>6 DEF IInv
<1>7. CASE EndWith("blocking") /\ UNCHANGED attempt
  <2>1. /\ pc' = "implement" /\ verdict' = "BLOCKED"
        /\ reasonSet' \in BOOLEAN /\ reasonSet'
    BY <1>0, <1>1, <1>7, Halts DEF ErrorKinds
  <2>2. TypeOK'
    BY <1>0, <1>1, <1>2, <1>4, <1>5, <1>7, <2>1 DEF TypeOK, Activities, ErrorKinds, Verdicts
  <2>3. GatesPassed' /\ FinishedAtTheEnd'
    BY <1>0, <1>1, <2>1 DEF GatesPassed, FinishedAtTheEnd
  <2>4. NoSilentFailure'
    BY <2>1 DEF NoSilentFailure
  <2>5. ResultLedger'
    BY <1>2, <1>5, <2>1 DEF ResultLedger
  <2> QED BY <2>2, <2>3, <2>4, <2>5 DEF IInv
<1> QED BY <1>6, <1>7 DEF ImplementFailsTests

\* The steps that leave the ledger and the loop alone and go on to another
\* stage, none of them from within code generation.
LEMMA AdvanceStep ==
    ASSUME IInv, verdict = "pending", NEW next \in Activities, pc # "implement",
           Await(next), next # "implement", next # "intake",
           UNCHANGED <<feature, ledger, loop, implemented, builtHash, errors>>,
           drillAtGate' \in {"absent", "passed", "failed"},
           next \in {"production", "archival"} => drillAtGate' # "failed",
           pc # "intake"
    PROVE  IInv'
<1>0. TypeOK /\ GatesPassed /\ NoSilentFailure /\ ResultLedger
  BY DEF IInv
<1>1. /\ pc' = next /\ verdict' = "pending"
      /\ reasonSet' \in BOOLEAN /\ ~reasonSet'
  BY <1>0, Continues
<1>2. TypeOK'
  BY <1>0, <1>1 DEF TypeOK, feature, ledger, loop, errors, Verdicts
<1>3. GatesPassed' /\ FinishedAtTheEnd'
  BY <1>0, <1>1 DEF TypeOK, GatesPassed, FinishedAtTheEnd, feature, ledger, loop, errors, Activities
<1>4. NoSilentFailure'
  BY <1>0, <1>1 DEF NoSilentFailure, ledger, errors
<1>5. ResultLedger'
  BY <1>0, <1>1 DEF ResultLedger, ledger, errors
<1> QED BY <1>2, <1>3, <1>4, <1>5 DEF IInv

\* QA passes: on to the shadow deployment.
LEMMA QaStep == IInv /\ QaReturns => IInv'
<1> SUFFICES ASSUME IInv, QaReturns PROVE IInv'
  OBVIOUS
<1>1. /\ verdict = "pending" /\ pc = "qa" /\ Await("shadow")
      /\ UNCHANGED <<feature, ledger, loop, implemented, builtHash, errors>>
      /\ drillAtGate' = drillAtGate
  BY DEF QaReturns, Awaiting, history
<1>2. drillAtGate \in {"absent", "passed", "failed"}
  BY DEF IInv, TypeOK
<1> QED BY <1>1, <1>2, AdvanceStep DEF Activities

\* Production is done: on to archival.
LEMMA ProductionStep == IInv /\ ProductionReturns => IInv'
<1> SUFFICES ASSUME IInv, ProductionReturns PROVE IInv'
  OBVIOUS
<1>1. /\ verdict = "pending" /\ pc = "production" /\ Await("archival")
      /\ UNCHANGED <<feature, ledger, loop, implemented, builtHash, errors>>
      /\ drillAtGate' = drillAtGate
  BY DEF ProductionReturns, Awaiting, history
<1>2. drillAtGate \in {"absent", "passed", "failed"} /\ drillAtGate # "failed"
  BY <1>1 DEF IInv, TypeOK, GatesPassed
<1> QED BY <1>1, <1>2, AdvanceStep DEF Activities

\* An exception other than a failed attempt at a file, or a failed drill, ends
\* the workflow at its stage.
LEMMA HaltStep ==
    ASSUME IInv, verdict = "pending", NEW kind \in ErrorKinds, EndWith(kind),
           UNCHANGED <<feature, ledger, loop, implemented, builtHash>>,
           \/ pc = "shadow" /\ drillAtGate' \in {"absent", "passed", "failed"}
           \/ drillAtGate' = drillAtGate,
           lastRaised' \in ErrorKinds \cup {"none"},
           raised' = raised + 1 \/ (kind = "blocking" /\ raised' = raised)
    PROVE  IInv'
<1>0. TypeOK /\ GatesPassed /\ NoSilentFailure /\ ResultLedger
  BY DEF IInv
<1>1. /\ pc' = pc
      /\ verdict' \in Verdicts \ {"pending", "success"}
      /\ verdict' \in {"CRITICAL", "BLOCKED"} <=> reasonSet'
      /\ reasonSet' \in BOOLEAN
      /\ kind = "blocking" => verdict' = "BLOCKED"
  BY <1>0, Halts
<1>2. raised \in Nat /\ retries \in Nat /\ raised = retries
  BY <1>0 DEF TypeOK, NoSilentFailure
<1>3. TypeOK'
  BY <1>0, <1>1, <1>2 DEF TypeOK, feature, ledger, loop
<1>4. GatesPassed' /\ FinishedAtTheEnd'
  BY <1>0, <1>1 DEF GatesPassed, FinishedAtTheEnd, feature, ledger, loop
<1>5. NoSilentFailure'
  <2>1. verdict' \in {"UNHANDLED", "escaped"} => raised' = retries' + 1
    BY <1>1, <1>2 DEF ledger
  <2>2. verdict' \notin {"pending", "success"}
    BY <1>1
  <2> QED BY <1>1, <2>1, <2>2 DEF NoSilentFailure
<1>6. ResultLedger'
  BY <1>0, <1>1 DEF ResultLedger, ledger
<1> QED BY <1>3, <1>4, <1>5, <1>6 DEF IInv

\* An exception of an activity ends the workflow by one of its handlers.
LEMMA RaiseStep == IInv /\ ActivityRaises => IInv'
<1> SUFFICES ASSUME IInv, ActivityRaises PROVE IInv'
  OBVIOUS
<1>1. PICK kind \in ErrorKinds :
        /\ verdict = "pending" /\ EndWith(kind)
        /\ raised' = raised + 1 /\ lastRaised' = kind
        /\ UNCHANGED <<feature, ledger, loop, implemented, builtHash>>
        /\ drillAtGate' = drillAtGate
  BY DEF ActivityRaises, Raise, history
<1> QED BY <1>1, HaltStep

\* The shadow deployment is done: production, or the fire drill gate refuses.
LEMMA ShadowStep == IInv /\ ShadowReturns => IInv'
<1> SUFFICES ASSUME IInv, ShadowReturns PROVE IInv'
  OBVIOUS
<1>1. /\ verdict = "pending" /\ pc = "shadow" /\ drillAtGate' = drill
      /\ UNCHANGED <<feature, ledger, loop, implemented, builtHash, errors>>
  BY DEF ShadowReturns, Awaiting
<1>2. /\ drillAtGate' \in {"absent", "passed", "failed"}
      /\ lastRaised \in ErrorKinds \cup {"none"}
  BY <1>1 DEF IInv, TypeOK
<1>3. CASE DrillFailed /\ EndWith("blocking")
  <2>1. lastRaised' = lastRaised /\ raised' = raised
    BY <1>1 DEF errors
  <2> QED BY <1>1, <1>2, <1>3, <2>1, HaltStep DEF ErrorKinds
<1>4. CASE ~DrillFailed /\ Await("production")
  BY <1>1, <1>2, <1>4, AdvanceStep DEF Activities, DrillFailed
<1> QED BY <1>3, <1>4 DEF ShadowReturns

\* The end, and the two steps of other actors.
LEMMA OtherStep ==
    ASSUME IInv, ArchivalReturns \/ BlueprintDrifts \/ DrillReports \/ UNCHANGED vars
    PROVE  IInv'
<1>0. TypeOK /\ GatesPassed /\ FinishedAtTheEnd /\ NoSilentFailure /\ ResultLedger
  BY DEF IInv
<1> USE <1>0 DEF feature, ledger, loop, history, errors
<1>1. CASE ArchivalReturns
  <2>1. /\ verdict = "pending" /\ pc = "archival" /\ verdict' = "success"
        /\ pc' = pc /\ UNCHANGED <<feature, ledger, reasonSet, loop, history, errors>>
    BY <1>1 DEF ArchivalReturns, Awaiting
  <2>2. TypeOK'
    BY <2>1 DEF TypeOK, Verdicts
  <2>3. GatesPassed' /\ FinishedAtTheEnd'
    BY <2>1 DEF GatesPassed, FinishedAtTheEnd
  <2>4. NoSilentFailure'
    BY <2>1 DEF NoSilentFailure
  <2>5. ResultLedger'
    BY <2>1 DEF ResultLedger, NoSilentFailure
  <2> QED BY <2>2, <2>3, <2>4, <2>5 DEF IInv
<1>2. CASE BlueprintDrifts
  <2>1. TypeOK'
    BY <1>2, MaxVersionAssumption DEF BlueprintDrifts, TypeOK, Versions
  <2>2. GatesPassed' /\ FinishedAtTheEnd'
    BY <1>2 DEF BlueprintDrifts, GatesPassed, FinishedAtTheEnd
  <2>3. NoSilentFailure' /\ ResultLedger'
    BY <1>2 DEF BlueprintDrifts, NoSilentFailure, ResultLedger
  <2> QED BY <2>1, <2>2, <2>3 DEF IInv
<1>3. CASE DrillReports
  <2>1. TypeOK'
    BY <1>3 DEF DrillReports, TypeOK
  <2>2. GatesPassed' /\ FinishedAtTheEnd'
    BY <1>3 DEF DrillReports, GatesPassed, FinishedAtTheEnd
  <2>3. NoSilentFailure' /\ ResultLedger'
    BY <1>3 DEF DrillReports, NoSilentFailure, ResultLedger
  <2> QED BY <2>1, <2>2, <2>3 DEF IInv
<1>4. CASE UNCHANGED vars
  BY <1>4 DEF IInv, vars, TypeOK, GatesPassed, FinishedAtTheEnd, NoSilentFailure, ResultLedger
<1> QED BY <1>1, <1>2, <1>3, <1>4

\* One lemma above per action.
LEMMA StepInvariant == IInv /\ [Next]_vars => IInv'
BY IntakeStep, ImplementStep, TestsFailStep, QaStep, ShadowStep, ProductionStep,
   RaiseStep, OtherStep
DEF Next, WorkflowStep

-------------------------------------------------------------------------------
\* The inductive invariant holds.
THEOREM Invariance == Spec => []IInv
BY InitInvariant, StepInvariant, PTL DEF Spec

\* Type correctness, including that no attempt beyond the limit is ever awaited.
THEOREM TypeCorrect == Spec => []TypeOK
BY Invariance, PTL DEF IInv

\* Production is entered only through every gate (workflow.py:152-162, 197-208,
\* 238-248).
THEOREM GatesHold == Spec => []PromotionGates
<1>1. IInv => PromotionGates
  BY DEF IInv, GatesPassed, PromotionGates, Promoted
<1> QED BY <1>1, Invariance, PTL

\* No exception of an activity is lost (workflow.py:56-59, 85-134).
THEOREM FailuresReported == Spec => []NoSilentFailure
BY Invariance, PTL DEF IInv

\* When the ledger in the result is complete (workflow.py:66, 169, 186, 92-94).
THEOREM LedgerOfResult == Spec => []ResultLedger
BY Invariance, PTL DEF IInv

-------------------------------------------------------------------------------
\* RetryBound speaks of code generation and of production; between them the
\* count has to be known to rest where the last file left it.
RetriesCounted ==
    /\ pc = "intake" => retries = 0
    /\ pc = "implement" =>
          retries <= (file - 1) * (limit - 1) + attempt - (IF verdict = "pending" THEN 1 ELSE 0)
    /\ pc = "implement" => limit > 0
    /\ pc \notin {"intake", "implement"} =>
          retries <= (IF limit > 0 THEN NumFiles * (limit - 1) ELSE 0)

\* One more file may fail one more time less than the limit.
LEMMA OneMoreFile ==
    ASSUME NEW f \in Nat \ {0}, NEW l \in Nat \ {0}
    PROVE  (f - 1) * (l - 1) + (l - 1) = f * (l - 1) /\ f * (l - 1) \in Nat
<1>1. PICK g \in Nat, m \in Nat : f = g + 1 /\ l = m + 1
  BY f - 1 \in Nat, l - 1 \in Nat
<1>2. (g + 1) * m = g * m + m /\ g * m \in Nat
  OBVIOUS
<1> QED BY <1>1, <1>2

\* A failed attempt is counted against its file, a finished file starts anew.
LEMMA RetriesCountedStep == IInv /\ RetriesCounted /\ [Next]_vars => RetriesCounted'
<1> SUFFICES ASSUME IInv, RetriesCounted, [Next]_vars PROVE RetriesCounted'
  OBVIOUS
<1>1. /\ retries \in Nat /\ limit \in Nat /\ NumFiles \in Nat /\ pc \in Activities
      /\ file \in Nat \ {0} /\ attempt \in Nat \ {0}
      /\ pc = "implement" => attempt <= limit /\ file <= NumFiles
      /\ pc = "intake" => file = 1 /\ attempt = 1
  BY NumFilesAssumption, RetryLimitsAssumption DEF IInv, TypeOK, GatesPassed, Files
<1>2. CASE IntakeReturns
  <2>1. /\ pc = "intake" /\ verdict = "pending"
        /\ retries' = retries /\ limit' = limit /\ file' = file /\ attempt' = attempt
    BY <1>2 DEF IntakeReturns, Awaiting, ledger, loop
  <2>2. CASE pc' = pc
    BY <2>1, <2>2 DEF RetriesCounted
  <2>3. CASE /\ pc' = IF NumFiles > 0 /\ limit > 0 THEN "implement" ELSE "qa"
             /\ verdict' = verdict
    <3>1. retries' = 0 /\ file' = 1 /\ attempt' = 1
      BY <1>1, <2>1 DEF RetriesCounted
    <3>2. limit > 0 => NumFiles * (limit - 1) >= 0 /\ (1 - 1) * (limit - 1) = 0
      <4>1. CASE limit > 0
        <5>1. PICK m \in Nat : limit = m + 1
          BY <1>1, <4>1, limit - 1 \in Nat
        <5>2. NumFiles * m >= 0 /\ 0 * m = 0
          BY <1>1
        <5> QED BY <5>1, <5>2
      <4> QED BY <4>1
    <3>3. CASE pc' = "implement"
      BY <1>1, <2>1, <2>3, <3>1, <3>2, <3>3, limit > 0 DEF RetriesCounted
    <3>4. CASE pc' = "qa"
      BY <1>1, <2>1, <3>1, <3>2, <3>4 DEF RetriesCounted
    <3> QED BY <2>3, <3>3, <3>4
  <2> QED BY <1>2, <2>2, <2>3 DEF IntakeReturns, EndWith, Await
<1>3. CASE ImplementReturns
  <2>1. /\ pc = "implement" /\ verdict = "pending" /\ retries' = retries /\ limit' = limit
        /\ \/ file < NumFiles /\ file' = file + 1 /\ attempt' = 1 /\ pc' = "implement"
           \/ file = NumFiles /\ pc' = "qa"
        /\ verdict' = verdict
    BY <1>3 DEF ImplementReturns, Awaiting, feature, loop, BindCaller, Await
  <2>2. limit \in Nat \ {0} /\ attempt <= limit
    BY <1>1, <2>1
  <2>3. retries <= (file - 1) * (limit - 1) + attempt - 1
    BY <2>1 DEF RetriesCounted
  <2> DEFINE before == (file - 1) * (limit - 1)
             after == file * (limit - 1)
  <2>4. before + (limit - 1) = after /\ after \in Nat
    BY <1>1, <2>2, OneMoreFile
  <2>5. before \in Int
    BY <1>1
  <2>6. retries <= before + attempt - 1
    BY <2>3
  <2>7. retries <= after
    <3> HIDE DEF before, after
    <3> QED BY <1>1, <2>2, <2>4, <2>5, <2>6
  <2>8. CASE file < NumFiles /\ file' = file + 1 /\ attempt' = 1 /\ pc' = "implement"
    <3>1. file' - 1 = file
      BY <1>1, <2>8
    <3>2. retries' <= (file' - 1) * (limit' - 1) + attempt' - 1
      <4>1. retries' <= after + 1 - 1
        <5> HIDE DEF after
        <5> QED BY <1>1, <2>1, <2>4, <2>7
      <4> QED BY <2>1, <2>8, <3>1, <4>1
    <3> QED BY <2>1, <2>8, <3>2 DEF RetriesCounted
  <2>9. CASE file = NumFiles /\ pc' = "qa"
    BY <2>1, <2>7, <2>9 DEF RetriesCounted
  <2> QED BY <2>1, <2>8, <2>9
<1>4. CASE ImplementFailsTests
  <2>1. /\ pc = "implement" /\ verdict = "pending" /\ pc' = "implement"
        /\ retries' = retries + 1 /\ limit' = limit /\ file' = file
        /\ \/ attempt' = attempt + 1 /\ verdict' = "pending"
           \/ attempt' = attempt /\ verdict' # "pending"
    BY <1>4 DEF ImplementFailsTests, Awaiting, Await, EndWith, HandlerOf, RecordRetry, feature
  <2> DEFINE before == (file - 1) * (limit - 1)
  <2>2. retries <= before + attempt - 1 /\ before \in Int
    BY <1>1, <2>1 DEF RetriesCounted
  <2>3. retries' <= before + attempt' - (IF verdict' = "pending" THEN 1 ELSE 0)
    <3> HIDE DEF before
    <3> QED BY <1>1, <2>1, <2>2
  <2> QED BY <2>1, <2>3 DEF RetriesCounted
<1>5. CASE ActivityRaises
  <2>1. /\ verdict = "pending" /\ pc' = pc
        /\ retries' = retries /\ limit' = limit /\ file' = file /\ attempt' = attempt
    BY <1>5 DEF ActivityRaises, EndWith, feature, ledger, loop
  <2> DEFINE before == (file - 1) * (limit - 1)
  <2>2. before \in Int
    BY <1>1
  <2>3. pc = "implement" => retries <= before + attempt - 1
    BY <2>1 DEF RetriesCounted
  <2>4. pc = "implement" => retries <= before + attempt - (IF verdict' = "pending" THEN 1 ELSE 0)
    <3> HIDE DEF before
    <3> QED BY <1>1, <2>2, <2>3
  <2> QED BY <2>1, <2>4 DEF RetriesCounted
<1>6. CASE QaReturns \/ ShadowReturns \/ ProductionReturns \/ ArchivalReturns
  <2>1. /\ pc \notin {"intake", "implement"} /\ pc' \notin {"intake", "implement"}
        /\ retries' = retries /\ limit' = limit
    BY <1>6 DEF QaReturns, ShadowReturns, ProductionReturns, ArchivalReturns, Awaiting, Await,
                EndWith, feature, ledger
  <2> QED BY <2>1 DEF RetriesCounted
<1>7. CASE BlueprintDrifts \/ DrillReports \/ UNCHANGED vars
  <2>1. UNCHANGED <<pc, retries, limit, file, attempt, verdict>>
    BY <1>7 DEF BlueprintDrifts, DrillReports, vars, feature, ledger, loop
  <2> QED BY <2>1 DEF RetriesCounted
<1> QED BY <1>2, <1>3, <1>4, <1>5, <1>6, <1>7 DEF Next, WorkflowStep

\* The retry loops never lose count (workflow.py:164-208).
THEOREM RetriesBounded == Spec => []RetryBound
<1>1. Init => RetriesCounted
  BY DEF Init, RetriesCounted
<1>2. RetriesCounted => RetryBound
  BY DEF RetriesCounted, RetryBound, Promoted
<1> QED BY <1>1, <1>2, Invariance, RetriesCountedStep, PTL DEF Spec

-------------------------------------------------------------------------------
\* The stage of the contract, before and after a step.
LEMMA StageNumbers ==
    /\ pc = "intake" => StageOf = 1
    /\ pc = "implement" => StageOf = 2
    /\ pc = "qa" => StageOf = 3
    /\ pc = "shadow" => StageOf = 4
    /\ pc = "production" => StageOf = 5
    /\ pc = "archival" => StageOf = 6
    /\ pc' = "intake" => StageOf' = 1
    /\ pc' = "implement" => StageOf' = 2
    /\ pc' = "qa" => StageOf' = 3
    /\ pc' = "shadow" => StageOf' = 4
    /\ pc' = "production" => StageOf' = 5
    /\ pc' = "archival" => StageOf' = 6
BY DEF StageOf

\* A step that keeps stage and verdict is a stutter of the contract.
LEMMA StutterStep ==
    ASSUME pc' = pc, verdict' = verdict
    PROVE  UNCHANGED <<StageOf, ContractVerdict>>
BY DEF StageOf, ContractVerdict

\* An exception that reaches the outer function is a Halt.
LEMMA HaltRefines ==
    ASSUME verdict = "pending", NEW kind \in ErrorKinds, EndWith(kind)
    PROVE  Contract!Halt
<1>1. pc' = pc /\ verdict' = HandlerOf(kind)
  BY DEF EndWith
<1>2. verdict' \in {"CRITICAL", "BLOCKED", "UNHANDLED", "escaped"}
  BY <1>1 DEF HandlerOf, ErrorKinds
<1>3. ContractVerdict = "pending" /\ ContractVerdict' \in {"escalated", "escaped"}
  BY <1>2 DEF ContractVerdict
<1>4. StageOf' = StageOf
  BY <1>1 DEF StageOf
<1> QED BY <1>3, <1>4 DEF Contract!Halt

\* Going on to the next stage, or past an empty code generation, is an Advance.
LEMMA AdvanceRefines ==
    ASSUME verdict = "pending", NEW next, Await(next),
           \/ pc = "intake" /\ next \in {"implement", "qa"}
           \/ pc = "implement" /\ next = "qa"
           \/ pc = "qa" /\ next = "shadow"
           \/ pc = "shadow" /\ next = "production"
           \/ pc = "production" /\ next = "archival"
    PROVE  Contract!Advance
<1>1. pc' = next /\ verdict' = "pending"
  BY DEF Await
<1>2. ContractVerdict = "pending" /\ ContractVerdict' = "pending"
  BY <1>1 DEF ContractVerdict
<1>3. \/ StageOf = 1 /\ StageOf' \in {2, 3}
      \/ StageOf = 2 /\ StageOf' = 3
      \/ StageOf = 3 /\ StageOf' = 4
      \/ StageOf = 4 /\ StageOf' = 5
      \/ StageOf = 5 /\ StageOf' = 6
  BY <1>1, StageNumbers
<1> QED BY <1>2, <1>3
        DEF Contract!Advance, Contract!Specification, Contract!Verification, Contract!Archive

\* Every step of the workflow is a step of the contract or a stutter.
LEMMA StepRefines == [Next]_vars => [Contract!Next]_<<StageOf, ContractVerdict>>
<1> SUFFICES ASSUME Next
             PROVE  Contract!Next \/ UNCHANGED <<StageOf, ContractVerdict>>
  BY StutterStep DEF vars
<1> USE DEF Awaiting
<1>1. CASE IntakeReturns
  <2>1. CASE EndWith("blocking")
    BY <1>1, <2>1, HaltRefines DEF IntakeReturns, ErrorKinds, Contract!Next
  <2>2. CASE Await(IF NumFiles > 0 /\ limit > 0 THEN "implement" ELSE "qa")
    BY <1>1, <2>2, AdvanceRefines DEF IntakeReturns, Contract!Next
  <2> QED BY <1>1, <2>1, <2>2 DEF IntakeReturns
<1>2. CASE ImplementReturns
  <2>1. CASE Await("implement")
    BY <1>2, <2>1, StutterStep DEF ImplementReturns, Await
  <2>2. CASE Await("qa")
    BY <1>2, <2>2, AdvanceRefines DEF ImplementReturns, Contract!Next
  <2> QED BY <1>2, <2>1, <2>2 DEF ImplementReturns
<1>3. CASE ImplementFailsTests
  <2>1. CASE Await("implement")
    BY <1>3, <2>1, StutterStep DEF ImplementFailsTests, Await
  <2>2. CASE EndWith("blocking")
    BY <1>3, <2>2, HaltRefines DEF ImplementFailsTests, ErrorKinds, Contract!Next
  <2> QED BY <1>3, <2>1, <2>2 DEF ImplementFailsTests
<1>4. CASE QaReturns
  BY <1>4, AdvanceRefines DEF QaReturns, Contract!Next
<1>5. CASE ShadowReturns
  <2>1. CASE EndWith("blocking")
    BY <1>5, <2>1, HaltRefines DEF ShadowReturns, ErrorKinds, Contract!Next
  <2>2. CASE Await("production")
    BY <1>5, <2>2, AdvanceRefines DEF ShadowReturns, Contract!Next
  <2> QED BY <1>5, <2>1, <2>2 DEF ShadowReturns
<1>6. CASE ProductionReturns
  BY <1>6, AdvanceRefines DEF ProductionReturns, Contract!Next
<1>7. CASE ArchivalReturns
  <2>1. verdict = "pending" /\ pc = "archival" /\ pc' = pc /\ verdict' = "success"
    BY <1>7 DEF ArchivalReturns
  <2>2. ContractVerdict = "pending" /\ ContractVerdict' = "success"
    BY <2>1 DEF ContractVerdict
  <2>3. StageOf = 6 /\ StageOf' = 6
    BY <2>1, StageNumbers
  <2> QED BY <2>2, <2>3 DEF Contract!Succeed, Contract!Archive, Contract!Next
<1>8. CASE ActivityRaises
  BY <1>8, HaltRefines DEF ActivityRaises, Contract!Next
<1>9. CASE BlueprintDrifts \/ DrillReports
  BY <1>9, StutterStep DEF BlueprintDrifts, DrillReports
<1> QED BY <1>1, <1>2, <1>3, <1>4, <1>5, <1>6, <1>7, <1>8, <1>9 DEF Next, WorkflowStep

\* The workflow implements the safety part of the contract: the stages in order,
\* the release from the trial only, one final verdict (workflow.py:61-134).
THEOREM Refinement == Spec => Contract!SafeSpec
<1>1. Init => Contract!Init
  <2> SUFFICES ASSUME Init PROVE Contract!Init
    OBVIOUS
  <2>1. StageOf = 1
    BY StageNumbers DEF Init
  <2>2. ContractVerdict = "pending"
    BY DEF Init, ContractVerdict
  <2> QED BY <2>1, <2>2 DEF Contract!Init, Contract!Specification
<1> QED BY <1>1, StepRefines, PTL DEF Spec, Contract!SafeSpec
================================================================================
