----------------------------- MODULE SpecHashProofs -----------------------------
(***************************************************************************)
(* Proofs about the two ends of a spec hash: SpecificationFactory, whose   *)
(* lock makes it, for all contents, artifacts and options, and CoderAgent, *)
(* which verifies it before every attempt, for every number of files,      *)
(* retries and edits.                                                      *)
(***************************************************************************)
EXTENDS CoderAgent, SpecificationFactory, BlueprintChecks, SequenceTheorems,
        FunctionTheorems, FiniteSetTheorems, WellFoundedInduction, TLAPS

(***************************************************************************)
(* CoderAgent.  None of its three invariants is inductive alone: an agent  *)
(* that awaits a call is inside an attempt and a file that exist (Within), *)
(* has appended the files before this one in this attempt, began it with   *)
(* the hash intact, and holds no whole implementation of any failed        *)
(* attempt (Attempted).                                                    *)
(***************************************************************************)
Within ==
    /\ pc = "start" => attempt = 0 /\ inferenceCalls = 0 /\ retries = 0
                          /\ implementation_files = <<>>
    /\ pc \in Awaits => /\ hasId
                        /\ attempt \in 1..MaxRetries /\ retries = attempt - 1
                        /\ file \in Files
    /\ pc # "ended" => outcome = "pending" /\ fatal = 0

Appended(n) ==
    /\ Len(implementation_files) = attemptStart + n
    /\ \A f \in 1..n : implementation_files[attemptStart + f] = f
    /\ attemptStart <= retries * (NumFiles - 1)

Attempted == pc \in Awaits => Appended(file - 1) /\ specHash \in {NoHash, attemptHash}

CoderInv ==
    TypeOK /\ Within /\ Attempted /\ InferenceAccounting /\ ReturnedEndsWithOneAttempt

\* The names of the awaited calls, apart from the other two values of pc.
LEMMA AwaitNames ==
    /\ "start" \notin Awaits /\ "ended" \notin Awaits
    /\ "inference" \in Awaits /\ "alignment" \in Awaits /\ "tests" \in Awaits
BY DEF Awaits

\* Nothing is called, recorded or written yet.
LEMMA CoderInit == Init => CoderInv
<1> SUFFICES ASSUME Init PROVE CoderInv
  OBVIOUS
<1>1. 1 \in Versions /\ 0 \in 0..MaxRetries /\ 0 \in 0..NumFiles
  BY MaxVersionAssumption, MaxRetriesAssumption, NumFilesAssumption DEF Versions
<1>2. implementation_files \in Seq(Files) /\ Len(implementation_files) = 0
  BY DEF Init
<1>3. TypeOK
  BY <1>1, <1>2 DEF Init, TypeOK, Outcomes
<1>4. Within /\ Attempted /\ ReturnedEndsWithOneAttempt
  BY AwaitNames DEF Init, Within, Attempted, ReturnedEndsWithOneAttempt
<1>5. InferenceAccounting
  BY <1>2, AwaitNames DEF Init, InferenceAccounting
<1> QED
  BY <1>3, <1>4, <1>5 DEF CoderInv

\* The head of an attempt that there is, in which as many inferences as ever are
\* accounted for but the one about to begin.
LEMMA AttemptBegins ==
    ASSUME TypeOK, hasId, MaxRetries > 0, NEW n \in 1..MaxRetries, BeginAttempt(n),
           outcome = "pending", fatal = 0,
           UNCHANGED <<request, implementation_files, fatal>>,
           retries' = n - 1,
           inferenceCalls = Len(implementation_files) + retries',
           Len(implementation_files) <= retries' * (NumFiles - 1)
    PROVE  CoderInv'
<1> USE NumFilesAssumption, MaxRetriesAssumption
<1>0. /\ blueprint \in Versions /\ inferenceCalls \in Nat
      /\ implementation_files \in Seq(Files)
      /\ Len(implementation_files) \in Nat
      /\ file \in 0..NumFiles /\ retries' \in Nat
  BY DEF TypeOK
<1>1. /\ attempt' = n /\ attemptHash' = Hash(blueprint)
      /\ attemptStart' = Len(implementation_files)
      /\ attemptStart' \in 0..Len(implementation_files')
      /\ {specHash', attemptHash'} \subseteq {NoHash} \cup {Hash(v) : v \in Versions}
  <2>1. attempt' = n /\ attemptHash' = Hash(blueprint) /\ attemptStart' = Len(implementation_files)
    BY DEF BeginAttempt
  <2>2. attemptStart' \in 0..Len(implementation_files')
    BY <1>0, <2>1
  <2>3. {specHash', attemptHash'} \subseteq {NoHash} \cup {Hash(v) : v \in Versions}
    BY <1>0, <2>1 DEF TypeOK, request
  <2> QED BY <2>1, <2>2, <2>3
<1>2. CASE HashDrifted /\ End("blocking") /\ UNCHANGED <<file, inferenceCalls>>
  <2>1. TypeOK'
    BY <1>0, <1>1, <1>2 DEF TypeOK, End, Outcomes, request
  <2>2. Within' /\ Attempted' /\ ReturnedEndsWithOneAttempt'
    BY <1>2, AwaitNames DEF End, Within, Attempted, ReturnedEndsWithOneAttempt
  <2>3. InferenceAccounting'
    BY <1>0, <1>2, AwaitNames DEF End, InferenceAccounting
  <2> QED BY <2>1, <2>2, <2>3 DEF CoderInv
<1>3. CASE ~HashDrifted /\ NumFiles > 0 /\ CallInference(1)
  <2>1. /\ pc' = "inference" /\ file' = 1 /\ inferenceCalls' = inferenceCalls + 1
        /\ outcome' = outcome
    BY <1>3 DEF CallInference
  <2>2. 1 \in Files /\ 1 \in 0..NumFiles
    BY <1>3 DEF Files
  <2>3. TypeOK'
    <3>1. attempt' \in 0..MaxRetries /\ file' \in 0..NumFiles /\ inferenceCalls' \in Nat
      BY <1>0, <1>1, <2>1, <2>2
    <3>2. implementation_files' \in Seq(Files) /\ fatal' = 0 /\ outcome' = "pending"
      BY <1>0, <2>1
    <3> QED BY <1>0, <1>1, <2>1, <3>1, <3>2, AwaitNames DEF TypeOK, Outcomes, request
  <2>4. Within'
    BY <1>1, <2>1, <2>2, AwaitNames DEF Within, request
  <2>5. Attempted'
    <3>1. specHash' \in {NoHash, attemptHash'}
      BY <1>1, <1>3 DEF HashDrifted, request
    <3>2. Appended(file - 1)'
      BY <1>0, <1>1, <2>1 DEF Appended
    <3> QED BY <3>1, <3>2 DEF Attempted
  <2>6. InferenceAccounting'
    BY <1>0, <2>1, AwaitNames DEF InferenceAccounting
  <2>7. ReturnedEndsWithOneAttempt'
    BY <2>1 DEF ReturnedEndsWithOneAttempt
  <2> QED BY <2>3, <2>4, <2>5, <2>6, <2>7 DEF CoderInv
<1>4. CASE ~HashDrifted /\ NumFiles = 0 /\ End("returned") /\ UNCHANGED <<file, inferenceCalls>>
  <2>1. TypeOK'
    BY <1>0, <1>1, <1>4 DEF TypeOK, End, Outcomes, request
  <2>2. Within' /\ Attempted'
    BY <1>4, AwaitNames DEF End, Within, Attempted
  <2>3. ReturnedEndsWithOneAttempt'
    BY <1>0, <1>1, <1>4 DEF ReturnedEndsWithOneAttempt, HashDrifted, Files, request
  <2>4. InferenceAccounting'
    BY <1>0, <1>4, AwaitNames DEF End, InferenceAccounting
  <2> QED BY <2>1, <2>2, <2>3, <2>4 DEF CoderInv
<1> QED
  BY <1>2, <1>3, <1>4 DEF BeginAttempt

\* The first attempt, or none.
LEMMA CoderStarts == CoderInv /\ Start => CoderInv'
<1> SUFFICES ASSUME CoderInv, Start PROVE CoderInv'
  OBVIOUS
<1>0. /\ pc = "start" /\ TypeOK /\ Within
      /\ UNCHANGED <<request, implementation_files, fatal>>
      /\ MaxRetries \in Nat
  BY MaxRetriesAssumption DEF Start, CoderInv
<1>1. /\ inferenceCalls = 0 /\ retries = 0 /\ implementation_files = <<>>
      /\ outcome = "pending" /\ fatal = 0
  BY <1>0 DEF Within
<1>2. CASE hasId /\ MaxRetries > 0 /\ BeginAttempt(1) /\ UNCHANGED retries
  <2>1. 1 \in 1..MaxRetries /\ retries' = 1 - 1
    BY <1>0, <1>1, <1>2
  <2>2. Len(implementation_files) = 0
    BY <1>1
  <2>3. inferenceCalls = Len(implementation_files) + retries'
    BY <1>1, <1>2, <2>2
  <2>4. Len(implementation_files) <= retries' * (NumFiles - 1)
    BY <1>1, <1>2, <2>2, NumFilesAssumption
  <2> QED BY <1>0, <1>1, <1>2, <2>1, <2>3, <2>4, AttemptBegins
<1>3. CASE ~(hasId /\ MaxRetries > 0) /\ GiveUpAtOnce
  <2>1. TypeOK'
    BY <1>0, <1>3 DEF GiveUpAtOnce, End, TypeOK, Outcomes, request
  <2>2. Within' /\ Attempted' /\ ReturnedEndsWithOneAttempt'
    BY <1>3, AwaitNames
    DEF GiveUpAtOnce, End, Within, Attempted, ReturnedEndsWithOneAttempt
  <2>3. InferenceAccounting'
    <3>1. hasId => MaxRetries = 0
      BY <1>0, <1>3
    <3>2. inferenceCalls' = 0 /\ implementation_files' = <<>> /\ fatal' = 0 /\ pc' = "ended"
          /\ retries' = MaxRetries /\ hasId' = hasId
      BY <1>0, <1>1, <1>3, <3>1 DEF GiveUpAtOnce, End, request
    <3>3. Len(implementation_files') = 0
      BY <3>2
    <3> QED BY <3>1, <3>2, <3>3, AwaitNames DEF InferenceAccounting
  <2> QED BY <2>1, <2>2, <2>3 DEF CoderInv
<1> QED
  BY <1>2, <1>3 DEF Start

\* Multiplication by one more.
LEMMA OneMore == ASSUME NEW a \in Nat, NEW b \in Int PROVE (a + 1) * b = a * b + b
OBVIOUS

\* A failed attempt is recorded: the call that failed is paid for by a retry.
LEMMA CoderRetries == CoderInv /\ pc \in Awaits /\ Retry => CoderInv'
<1> SUFFICES ASSUME CoderInv, pc \in Awaits, Retry PROVE CoderInv'
  OBVIOUS
<1>0. /\ TypeOK /\ hasId /\ attempt \in 1..MaxRetries /\ MaxRetries \in Nat
      /\ outcome = "pending" /\ fatal = 0 /\ retries = attempt - 1
  BY AwaitNames, MaxRetriesAssumption DEF CoderInv, Within
<1>1. /\ retries' = retries + 1 /\ retries \in Nat /\ inferenceCalls \in Nat
      /\ Len(implementation_files) \in Nat
      /\ UNCHANGED <<request, implementation_files, fatal>>
  BY <1>0 DEF Retry, TypeOK
<1>2. inferenceCalls = Len(implementation_files) + retries + 1
  BY <1>0, <1>1 DEF CoderInv, InferenceAccounting
<1>3. inferenceCalls = Len(implementation_files) + retries'
  BY <1>1, <1>2
<1>6. Len(implementation_files) <= retries' * (NumFiles - 1)
  <2>1. /\ Len(implementation_files) = attemptStart + (file - 1)
        /\ attemptStart <= retries * (NumFiles - 1)
        /\ file \in 1..NumFiles /\ NumFiles \in Nat /\ attemptStart \in Nat
    BY <1>0, <1>1, NumFilesAssumption
    DEF CoderInv, Within, Attempted, Appended, Files, TypeOK
  <2>2. retries' * (NumFiles - 1) = retries * (NumFiles - 1) + (NumFiles - 1)
    BY <1>1, <2>1, OneMore
  <2>3. retries * (NumFiles - 1) \in Int
    BY <1>1, <2>1
  <2> QED BY <2>1, <2>2, <2>3
<1>4. CASE AttemptsLeft /\ BeginAttempt(attempt + 1)
  <2>1. attempt + 1 \in 1..MaxRetries /\ MaxRetries > 0
    BY <1>0, <1>4 DEF AttemptsLeft
  <2>2. retries' = (attempt + 1) - 1
    BY <1>0, <1>1
  <2> QED BY <1>0, <1>1, <1>3, <1>4, <1>6, <2>1, <2>2, AttemptBegins
<1>5. CASE ~AttemptsLeft /\ End("exhausted")
           /\ UNCHANGED <<attempt, attemptHash, attemptStart, file, inferenceCalls>>
  <2>1. TypeOK'
    BY <1>0, <1>1, <1>5 DEF End, TypeOK, Outcomes, request
  <2>2. Within' /\ Attempted' /\ ReturnedEndsWithOneAttempt'
    BY <1>5, AwaitNames DEF End, Within, Attempted, ReturnedEndsWithOneAttempt
  <2>3. retries' = MaxRetries
    BY <1>0, <1>1, <1>5 DEF AttemptsLeft
  <2>4. InferenceAccounting'
    BY <1>0, <1>1, <1>3, <1>5, <2>3, AwaitNames DEF End, InferenceAccounting
  <2> QED BY <2>1, <2>2, <2>4 DEF CoderInv
<1> QED
  BY <1>4, <1>5 DEF Retry

\* An exception that is not retried ends the run, and its call is the fatal one.
LEMMA CoderPropagates ==
    ASSUME CoderInv, pc \in Awaits,
           NEW kind \in {"blocking", "critical", "pipeline"}, Propagate(kind)
    PROVE  CoderInv'
<1>0. /\ TypeOK /\ outcome = "pending" /\ fatal = 0
      /\ inferenceCalls \in Nat /\ retries \in Nat /\ Len(implementation_files) \in Nat
  BY AwaitNames DEF CoderInv, Within, TypeOK
<1>1. /\ pc' = "ended" /\ outcome' = kind /\ fatal' = 1
      /\ UNCHANGED <<request, attempt, file, ledger, implementation_files, attemptStart,
                   attemptHash>>
  BY <1>0 DEF Propagate, End
<1>2. TypeOK'
  BY <1>0, <1>1 DEF TypeOK, Outcomes, request, ledger
<1>3. Within' /\ Attempted' /\ ReturnedEndsWithOneAttempt'
  BY <1>1, AwaitNames DEF Within, Attempted, ReturnedEndsWithOneAttempt
<1>4. InferenceAccounting'
  BY <1>0, <1>1, AwaitNames DEF CoderInv, InferenceAccounting, request, ledger
<1> QED
  BY <1>2, <1>3, <1>4 DEF CoderInv

\* From one await of a file to the next.
LEMMA CoderAdvances ==
    ASSUME CoderInv, pc \in Awaits, pc' \in Awaits,
           UNCHANGED <<request, attempt, file, outcome, ledger, implementation_files, ghosts>>
    PROVE  CoderInv'
<1>1. TypeOK'
  BY DEF CoderInv, TypeOK, request, ledger, ghosts
<1>2. Within' /\ Attempted' /\ ReturnedEndsWithOneAttempt'
  BY AwaitNames
  DEF CoderInv, Within, Attempted, Appended, ReturnedEndsWithOneAttempt, request, ledger,
      ghosts
<1>3. InferenceAccounting'
  BY DEF CoderInv, InferenceAccounting, request, ledger, ghosts
<1> QED
  BY <1>1, <1>2, <1>3 DEF CoderInv

\* A file is finished: the call is paid for by the file, and the next one, if
\* there is one, is under way.
LEMMA CoderTestsPass == CoderInv /\ TestsPass => CoderInv'
<1> SUFFICES ASSUME CoderInv, TestsPass PROVE CoderInv'
  OBVIOUS
<1>0. /\ TypeOK /\ pc \in Awaits /\ hasId /\ file \in Files /\ NumFiles \in Nat
      /\ attempt \in 1..MaxRetries
      /\ outcome = "pending" /\ fatal = 0
      /\ retries = attempt - 1 /\ Appended(file - 1)
      /\ attemptStart \in 0..Len(implementation_files)
      /\ specHash \in {NoHash, attemptHash}
      /\ inferenceCalls \in Nat /\ retries \in Nat
      /\ implementation_files \in Seq(Files)
  BY AwaitNames, NumFilesAssumption DEF CoderInv, Within, Attempted, TypeOK, TestsPass
<1>1. /\ implementation_files' \in Seq(Files)
      /\ Len(implementation_files') = Len(implementation_files) + 1
      /\ Len(implementation_files) \in Nat
  BY <1>0 DEF TestsPass
<1>2. UNCHANGED <<request, attempt, retries, attemptStart, attemptHash, fatal>>
  BY DEF TestsPass, ghosts
<1>3. file \in 1..NumFiles /\ attemptStart' \in 0..Len(implementation_files')
  BY <1>0, <1>1, <1>2 DEF Files
<1>6. /\ Len(implementation_files') = attemptStart' + file
      /\ \A f \in 1..file : implementation_files'[attemptStart' + f] = f
      /\ attemptStart' <= retries' * (NumFiles - 1)
  <2>1. implementation_files' = Append(implementation_files, file)
    BY DEF TestsPass
  <2>2. /\ \A i \in 1..Len(implementation_files) :
              implementation_files'[i] = implementation_files[i]
        /\ implementation_files'[Len(implementation_files) + 1] = file
    BY <1>0, <2>1
  <2>3. /\ Len(implementation_files) = attemptStart + (file - 1)
        /\ \A f \in 1..(file - 1) : implementation_files[attemptStart + f] = f
        /\ attemptStart <= retries * (NumFiles - 1)
        /\ attemptStart \in Nat
    BY <1>0, <1>1 DEF Appended
  <2>4. ASSUME NEW f \in 1..file PROVE implementation_files'[attemptStart + f] = f
    <3>1. CASE f = file
      <4>1. attemptStart + f = Len(implementation_files) + 1
        BY <1>3, <2>3, <3>1
      <4> QED BY <2>2, <3>1, <4>1
    <3>2. CASE f # file
      <4>1. f \in 1..(file - 1) /\ attemptStart + f \in 1..Len(implementation_files)
        BY <1>3, <2>3, <3>2
      <4> QED BY <2>2, <2>3, <4>1
    <3> QED BY <3>1, <3>2
  <2>5. Len(implementation_files') = attemptStart + file
    BY <1>1, <1>3, <2>3
  <2> QED BY <1>2, <2>3, <2>4, <2>5
<1>4. CASE file < NumFiles /\ CallInference(file + 1)
  <2>1. /\ pc' = "inference" /\ file' = file + 1 /\ outcome' = outcome
        /\ inferenceCalls' = inferenceCalls + 1
    BY <1>4 DEF CallInference
  <2>2. file' \in Files /\ file' \in 0..NumFiles
    BY <1>3, <1>4, <2>1, NumFilesAssumption DEF Files
  <2>3. TypeOK'
    BY <1>0, <1>1, <1>2, <1>3, <2>1, <2>2, AwaitNames DEF TypeOK, request
  <2>4. Within'
    BY <1>0, <1>2, <2>1, <2>2, AwaitNames DEF Within, request
  <2>5. Appended(file - 1)'
    <3>1. file' - 1 = file
      BY <1>3, <2>1
    <3> QED BY <1>6, <3>1 DEF Appended
  <2>6. Attempted'
    BY <1>0, <1>2, <2>5 DEF Attempted, request
  <2>7. InferenceAccounting'
    BY <1>0, <1>1, <1>2, <2>1, AwaitNames DEF CoderInv, InferenceAccounting, request
  <2>8. ReturnedEndsWithOneAttempt'
    BY <1>0, <2>1 DEF ReturnedEndsWithOneAttempt
  <2> QED BY <2>3, <2>4, <2>6, <2>7, <2>8 DEF CoderInv
<1>5. CASE file = NumFiles /\ End("returned") /\ UNCHANGED <<file, inferenceCalls>>
  <2>1. TypeOK'
    BY <1>0, <1>1, <1>2, <1>3, <1>5 DEF End, TypeOK, Outcomes, request
  <2>2. Within' /\ Attempted'
    BY <1>5, AwaitNames DEF End, Within, Attempted
  <2>3. InferenceAccounting'
    BY <1>0, <1>1, <1>2, <1>5, AwaitNames DEF CoderInv, End, InferenceAccounting, request
  <2>5. ReturnedEndsWithOneAttempt'
    BY <1>0, <1>2, <1>5, <1>6 DEF ReturnedEndsWithOneAttempt, Files, request
  <2> QED BY <2>1, <2>2, <2>3, <2>5 DEF CoderInv
<1> QED
  BY <1>4, <1>5 DEF TestsPass

\* An edit of the blueprint changes nothing that the agent has computed.
LEMMA CoderDrifts == CoderInv /\ BlueprintDrifts => CoderInv'
<1> SUFFICES ASSUME CoderInv, BlueprintDrifts PROVE CoderInv'
  OBVIOUS
<1>1. blueprint' \in Versions
  BY MaxVersionAssumption DEF BlueprintDrifts, CoderInv, TypeOK, Versions
<1>2. UNCHANGED <<hasId, specHash, pc, attempt, file, outcome, ledger,
                  implementation_files, ghosts>>
  BY DEF BlueprintDrifts
<1>3. TypeOK'
  BY <1>1, <1>2 DEF CoderInv, TypeOK, ledger, ghosts
<1>4. Within' /\ Attempted' /\ ReturnedEndsWithOneAttempt' /\ InferenceAccounting'
  BY <1>2 DEF CoderInv, Within, Attempted, Appended, ReturnedEndsWithOneAttempt, InferenceAccounting,
              ledger, ghosts
<1> QED
  BY <1>3, <1>4 DEF CoderInv

\* No step breaks the invariant.
LEMMA CoderNext == CoderInv /\ [Next]_vars => CoderInv'
<1> SUFFICES ASSUME CoderInv, [Next]_vars PROVE CoderInv'
  OBVIOUS
<1>1. CASE Start
  BY <1>1, CoderStarts
<1>2. CASE CallRaises
  BY <1>2, CoderRetries, CoderPropagates DEF CallRaises
<1>3. CASE InferenceReturns
  BY <1>3, CoderAdvances, AwaitNames DEF InferenceReturns
<1>4. CASE AlignmentReturns
  BY <1>4, CoderAdvances, CoderPropagates, AwaitNames DEF AlignmentReturns
<1>5. CASE TestsPass
  BY <1>5, CoderTestsPass
<1>6. CASE TestsFail
  BY <1>6, CoderRetries, AwaitNames DEF TestsFail
<1>7. CASE BlueprintDrifts
  BY <1>7, CoderDrifts
<1>8. CASE UNCHANGED vars
  BY <1>8 DEF vars, request, ledger, ghosts, CoderInv, TypeOK, Within, Attempted, Appended,
              InferenceAccounting, ReturnedEndsWithOneAttempt
<1> QED
  BY <1>1, <1>2, <1>3, <1>4, <1>5, <1>6, <1>7, <1>8 DEF Next, AgentStep

\* The inductive invariant holds in every behaviour of the coder agent.
THEOREM CoderInvariance == Spec => []CoderInv
BY CoderInit, CoderNext, PTL DEF Spec

\* Types; no attempt over max_retries.
THEOREM CoderTypeCorrect == Spec => []TypeOK
BY CoderInvariance, PTL DEF CoderInv

\* Every inference in the ledger is under way, produced a file, was paid back by
\* a retry or ended the run; a run that gives up recorded max_retries of them
\* (coder_agent.py:73, 104; base.py:159, 183).
THEOREM InferencesAccounted == Spec => []InferenceAccounting
BY CoderInvariance, PTL DEF CoderInv

\* A success ends with one whole implementation, by an attempt that began with the
\* hash intact; failed attempts left fewer files than that each (coder_agent.py:42-59,
\* 104).
THEOREM SuccessIsOneAttempt == Spec => []ReturnedEndsWithOneAttempt
BY CoderInvariance, PTL DEF CoderInv

(***************************************************************************)
(* SpecificationFactory.  The inductive invariant adds to the types what   *)
(* the lock leaves behind and what every artifact carries (Locked).        *)
(***************************************************************************)
Carries(a) ==
    \/ writtenFor[a] = {} /\ artifact[a] = None
    \/ \E c \in Contents : writtenFor[a] = {c} /\ artifact[a] = FactoryDigest(c)

Locked ==
    /\ ~locked => lockedHash = None /\ ~validated
    /\ locked => lockedHash = FactoryDigest(sealed)
    /\ validated => Complete(sealed) /\ phase = Phases[Len(Phases)]
    /\ \A a \in Artifacts : Carries(a)

FactoryInv == FactoryTypeOK /\ Locked

\* No digest is the missing hash.
LEMMA DigestsAreHashes ==
    /\ \A c : FactoryDigest(c) # None
    /\ \A c, i : SharedDigest(c, i) # NoSpecHash
BY DEF FactoryDigest, SharedDigest, None, NoSpecHash

\* There are four phases.
LEMMA FourPhases ==
    /\ Len(Phases) = 4
    /\ Phases[1] \in PhaseNames /\ Phases[2] \in PhaseNames
    /\ Phases[3] \in PhaseNames /\ Phases[4] \in PhaseNames
    /\ \A i, j \in 1..4 : Phases[i] = Phases[j] => i = j
    /\ Phases \in Seq(PhaseNames)
BY DEF Phases, PhaseNames

\* The phases passed are those before the current one, also after an advance.
LEMMA PhasesInOrder ==
    ASSUME FactoryTypeOK, AdvancePhase
    PROVE  /\ history' \in Seq(PhaseNames) /\ Len(history') < Len(Phases)
           /\ history' = SubSeq(Phases, 1, Len(history'))
           /\ phase' = Phases[Len(history') + 1]
<1> DEFINE n == Len(history)
<1>1. PICK i \in 1..3 : phase = Phases[i] /\ phase' = Phases[i + 1]
                         /\ history' = Append(history, phase)
  BY FourPhases DEF AdvancePhase
<1>2. /\ history \in Seq(PhaseNames) /\ n \in 0..3
      /\ history = SubSeq(Phases, 1, n) /\ phase = Phases[n + 1]
  BY FourPhases DEF FactoryTypeOK
<1>3. i = n + 1 /\ phase \in PhaseNames
  <2> HIDE DEF n
  <2>1. n + 1 \in 1..4 /\ i \in 1..4 /\ Phases[i] = Phases[n + 1]
    BY <1>1, <1>2
  <2>2. i = n + 1
    BY <2>1, FourPhases
  <2>3. i = 1 \/ i = 2 \/ i = 3
    OBVIOUS
  <2> QED BY <1>1, <2>2, <2>3, FourPhases
<1>4. /\ history' \in Seq(PhaseNames)
      /\ Len(history') = n + 1
      /\ \A k \in 1..n : history'[k] = history[k]
      /\ history'[n + 1] = phase
  BY <1>1, <1>2, <1>3, AppendProperties
<1>5. \A k \in 1..n : history[k] = Phases[k]
  <2> HIDE DEF n
  <2>1. \A k \in 1..n : Phases[k] \in PhaseNames
    BY <1>2, FourPhases
  <2>2. \A k \in 1..(n - 1 + 1) : SubSeq(Phases, 1, n)[k] = Phases[1 + k - 1]
    BY <1>2, <2>1, SubSeqProperties
  <2> QED BY <1>2, <2>2
<1> HIDE DEF n
<1>6. \A k \in 1..(n + 1) : history'[k] = Phases[k] /\ Phases[k] \in PhaseNames
  BY <1>2, <1>4, <1>5, FourPhases
<1>7. /\ SubSeq(Phases, 1, n + 1) \in Seq(PhaseNames)
      /\ Len(SubSeq(Phases, 1, n + 1)) = n + 1
      /\ \A k \in 1..(n + 1) : SubSeq(Phases, 1, n + 1)[k] = Phases[k]
  <2>1. /\ SubSeq(Phases, 1, n + 1) \in Seq(PhaseNames)
        /\ Len(SubSeq(Phases, 1, n + 1)) = IF 1 <= n + 1 THEN n + 1 - 1 + 1 ELSE 0
        /\ \A k \in 1..(n + 1 - 1 + 1) : SubSeq(Phases, 1, n + 1)[k] = Phases[1 + k - 1]
    BY <1>2, <1>6, SubSeqProperties
  <2> QED BY <1>2, <2>1
<1>8. history' = SubSeq(Phases, 1, n + 1)
  BY <1>4, <1>6, <1>7, SeqEqual
<1>9. Len(history') < Len(Phases) /\ phase' = Phases[Len(history') + 1]
  BY <1>1, <1>2, <1>3, <1>4, FourPhases
<1> QED
  BY <1>4, <1>8, <1>9

\* A new factory has nothing locked.
LEMMA FactoryStarts == FactoryInit => FactoryInv
<1> SUFFICES ASSUME FactoryInit PROVE FactoryInv
  OBVIOUS
<1>1. /\ history = <<>> /\ options = <<>> /\ phase = Phases[1]
      /\ Len(<<>>) = 0 /\ SubSeq(Phases, 1, 0) = <<>>
  BY SubSeqEmpty DEF FactoryInit
<1>2. /\ history \in Seq(PhaseNames) /\ Len(history) < Len(Phases)
      /\ history = SubSeq(Phases, 1, Len(history))
      /\ phase = Phases[Len(history) + 1]
  BY <1>1, FourPhases
<1>3. options \in OptionLists
  <2>1. <<>> \in [1..0 -> BOOLEAN] /\ 0 \in 0..MaxOptions
    BY MaxOptionsAssumption
  <2> QED BY <1>1, <2>1 DEF OptionLists
<1>4. None \in FactoryHashes /\ Draft \in Contents
  BY DraftAssumption DEF FactoryHashes
<1>5. FactoryTypeOK
  BY <1>2, <1>3, <1>4 DEF FactoryInit, FactoryTypeOK
<1>6. Locked
  BY DEF FactoryInit, Locked, Carries
<1> QED
  BY <1>5, <1>6 DEF FactoryInv

\* The steps of the phases and the options.
LEMMA FactoryChooses ==
    ASSUME FactoryInv, AdvancePhase \/ ProposeOptions
                          \/ \E i \in DOMAIN options : SelectArchitecture(i)
    PROVE  FactoryInv'
<1>0. UNCHANGED <<content, lock, artifacts>>
  BY DEF AdvancePhase, ProposeOptions, SelectArchitecture
<1>1. CASE AdvancePhase
  <2>1. options' = options
    BY <1>1 DEF AdvancePhase
  <2>2. FactoryTypeOK'
    BY <1>0, <1>1, <2>1, PhasesInOrder DEF FactoryInv, FactoryTypeOK, lock, artifacts
  <2>3. ~validated
    <3>1. PICK i \in 1..3 : phase = Phases[i]
      BY <1>1, FourPhases DEF AdvancePhase
    <3>2. phase # Phases[Len(Phases)]
      BY <3>1, FourPhases
    <3> QED BY <3>2 DEF FactoryInv, Locked
  <2>4. Locked'
    BY <1>0, <2>3 DEF FactoryInv, Locked, Carries, lock, artifacts
  <2> QED BY <2>2, <2>4 DEF FactoryInv
<1>2. CASE ProposeOptions \/ \E i \in DOMAIN options : SelectArchitecture(i)
  <2>1. phase' = phase /\ history' = history
    BY <1>2 DEF ProposeOptions, SelectArchitecture
  <2>2. options' \in OptionLists
    <3>1. CASE ProposeOptions
      BY <3>1 DEF ProposeOptions
    <3>2. CASE \E i \in DOMAIN options : SelectArchitecture(i)
      <4>1. PICK n \in 0..MaxOptions : options \in [1..n -> BOOLEAN]
        BY DEF FactoryInv, FactoryTypeOK, OptionLists
      <4>2. PICK i : options' = [j \in DOMAIN options |-> j = i]
        BY <3>2 DEF SelectArchitecture
      <4>3. options' \in [1..n -> BOOLEAN]
        BY <4>1, <4>2
      <4> QED BY <4>3 DEF OptionLists
    <3> QED BY <1>2, <3>1, <3>2
  <2>3. FactoryTypeOK'
    BY <1>0, <2>1, <2>2 DEF FactoryInv, FactoryTypeOK, lock, artifacts
  <2>4. Locked'
    BY <1>0, <2>1 DEF FactoryInv, Locked, Carries, lock, artifacts
  <2> QED BY <2>3, <2>4 DEF FactoryInv
<1> QED
  BY <1>1, <1>2

\* A lock of an unlocked blueprint, validated or not.
LEMMA FactoryLocks ==
    ASSUME FactoryInv, Lock, LockDirectly \/ LockBlueprint
    PROVE  FactoryInv'
<1>1. /\ ~locked /\ locked' = TRUE /\ lockedHash' = FactoryDigest(content)
      /\ sealed' = content
      /\ UNCHANGED <<factory, content, artifacts>>
  BY DEF Lock
<1>2. content \in Contents /\ validated = FALSE
  BY <1>1 DEF FactoryInv, FactoryTypeOK, Locked
<1>3. /\ validated' \in BOOLEAN
      /\ validated' => Complete(content) /\ phase = Phases[Len(Phases)]
  <2>1. CASE LockDirectly
    <3>1. validated' = FALSE
      BY <1>2, <2>1 DEF LockDirectly
    <3> QED BY <3>1
  <2>2. CASE LockBlueprint
    BY <2>2 DEF LockBlueprint, ReadyForLock
  <2> QED BY <2>1, <2>2
<1>4. FactoryTypeOK'
  <2>1. lockedHash' \in FactoryHashes
    BY <1>1, <1>2 DEF FactoryHashes
  <2> QED BY <1>1, <1>2, <1>3, <2>1 DEF FactoryInv, FactoryTypeOK, factory, artifacts
<1>5. Locked'
  BY <1>1, <1>3 DEF FactoryInv, Locked, Carries, Complete, factory, artifacts
<1> QED
  BY <1>4, <1>5 DEF FactoryInv

\* No step breaks the invariant.
LEMMA FactorySteps == FactoryInv /\ [FactoryNext]_factoryVars => FactoryInv'
<1> SUFFICES ASSUME FactoryInv, [FactoryNext]_factoryVars PROVE FactoryInv'
  OBVIOUS
<1>0. /\ content \in Contents /\ sealed \in Contents
      /\ artifact \in [Artifacts -> FactoryHashes]
      /\ writtenFor \in [Artifacts -> SUBSET Contents]
      /\ lockedHash \in FactoryHashes /\ locked \in BOOLEAN
  BY DEF FactoryInv, FactoryTypeOK
<1>1. CASE AdvancePhase \/ ProposeOptions \/ \E i \in DOMAIN options : SelectArchitecture(i)
  BY <1>1, FactoryChooses
<1>2. CASE EditBlueprint
  <2>1. FactoryTypeOK'
    BY <1>2 DEF EditBlueprint, FactoryInv, FactoryTypeOK, factory, lock, artifacts
  <2>2. Locked'
    BY <1>2 DEF EditBlueprint, FactoryInv, Locked, Carries, factory, lock, artifacts
  <2> QED BY <2>1, <2>2 DEF FactoryInv
<1>3. CASE ReplaceBlueprint
  <2>1. FactoryTypeOK'
    BY <1>3 DEF ReplaceBlueprint, FactoryInv, FactoryTypeOK, FactoryHashes, factory, artifacts
  <2>2. Locked'
    BY <1>3 DEF ReplaceBlueprint, FactoryInv, Locked, Carries, factory, artifacts
  <2> QED BY <2>1, <2>2 DEF FactoryInv
<1>4. CASE LockDirectly \/ LockBlueprint
  BY <1>4, FactoryLocks DEF LockDirectly, LockBlueprint
<1>5. ASSUME NEW a \in Artifacts, WriteArtifact(a) PROVE FactoryInv'
  <2>1. /\ artifact' = [artifact EXCEPT ![a] = lockedHash]
        /\ writtenFor' = [writtenFor EXCEPT ![a] = IF locked THEN {sealed} ELSE {}]
        /\ UNCHANGED <<factory, content, lock>>
    BY <1>5 DEF WriteArtifact
  <2>2. /\ artifact' \in [Artifacts -> FactoryHashes]
        /\ writtenFor' \in [Artifacts -> SUBSET Contents]
    BY <1>0, <2>1
  <2>3. FactoryTypeOK'
    BY <2>1, <2>2 DEF FactoryInv, FactoryTypeOK, factory, lock
  <2>4. ASSUME NEW b \in Artifacts PROVE Carries(b)'
    <3>1. CASE b = a
      <4>1. artifact'[b] = lockedHash /\ writtenFor'[b] = IF locked THEN {sealed} ELSE {}
        BY <1>0, <2>1, <3>1
      <4> QED BY <1>0, <4>1 DEF FactoryInv, Locked, Carries
    <3>2. CASE b # a
      <4>1. artifact'[b] = artifact[b] /\ writtenFor'[b] = writtenFor[b]
        BY <1>0, <2>1, <3>2
      <4> QED BY <4>1 DEF FactoryInv, Locked, Carries
    <3> QED BY <3>1, <3>2
  <2>5. Locked'
    BY <2>1, <2>4 DEF FactoryInv, Locked, lock, factory
  <2> QED BY <2>3, <2>5 DEF FactoryInv
<1>6. CASE UNCHANGED factoryVars
  <2>1. FactoryTypeOK'
    BY <1>6 DEF factoryVars, FactoryInv, FactoryTypeOK, factory, lock, artifacts
  <2>2. Locked'
    BY <1>6 DEF factoryVars, FactoryInv, Locked, Carries, factory, lock, artifacts
  <2> QED BY <2>1, <2>2 DEF FactoryInv
<1> QED
  BY <1>1, <1>2, <1>3, <1>4, <1>5, <1>6 DEF FactoryNext

\* The inductive invariant holds in every behaviour of the factory.
THEOREM FactoryInvariance == FactorySpec => []FactoryInv
BY FactoryStarts, FactorySteps, PTL DEF FactorySpec

\* Types; the phases are passed in order.
THEOREM FactoryTypeCorrect == FactorySpec => []FactoryTypeOK
BY FactoryInvariance, PTL DEF FactoryInv

\* Two contents have the same shared digest only if they and the architectures
\* are the same: the order of the lists counts, and no separator can be hidden.
LEMMA SharedDigestInjective ==
    ASSUME NEW c \in Contents, NEW d \in Contents, NEW i, NEW j,
           SharedDigest(c, i) = SharedDigest(d, j)
    PROVE  c = d /\ i = j
<1>1. /\ c.title = d.title /\ c.description = d.description
      /\ [f \in ListFields |-> c[f]] = [f \in ListFields |-> d[f]]
      /\ c.constraints = d.constraints /\ i = j
  BY DEF SharedDigest
<1>2. /\ c.entities = d.entities /\ c.business_rules = d.business_rules
      /\ c.formal_specs = d.formal_specs
  <2>1. \A f \in ListFields : c[f] = d[f]
    BY <1>1
  <2> QED BY <2>1 DEF ListFields
<1>3. IsContent(c) /\ IsContent(d)
  BY ContentsAssumption
<1> QED
  BY <1>1, <1>2, <1>3 DEF IsContent

(***************************************************************************)
(* What the factory's digest keeps of a content.  Names are ordered by     *)
(* Before, a strict total order, so that every list can be sorted: the     *)
(* number of positions before a position in that order is its place.  Two  *)
(* lists that are rearrangements of each other have the same               *)
(* rearrangements, so the same one is chosen as sorted.  Joining loses     *)
(* nothing of names that have one part, but whether a list is empty or has *)
(* the empty name alone.                                                   *)
(***************************************************************************)
\* A set of numbers that is not empty has a least one.
LEMMA LeastNumber ==
    ASSUME NEW S, S \subseteq Nat, S # {}
    PROVE  \E i \in S : \A j \in S : i <= j
<1>1. PICK i \in S : \A j \in S : <<j, i>> \notin OpToRel(<, Nat)
  BY NatLessThanWellFounded, WFMin
<1>2. \A j \in S : ~(j < i)
  BY <1>1 DEF OpToRel
<1> QED
  BY <1>2

Name == Seq(Nat)

\* The first position at which two names differ decides; a prefix comes first.
At(a, b, i) ==
    /\ i \in 1..Len(b) /\ i <= Len(a) + 1
    /\ \A j \in 1..(i - 1) : a[j] = b[j]
    /\ i <= Len(a) => a[i] < b[i]

\* The two ways of stating the order agree.
LEMMA BeforeAt == \A a, b : Before(a, b) <=> \E i : At(a, b, i)
BY DEF Before, At

\* The order of names is strict.
LEMMA BeforeIrreflexive == ASSUME NEW a \in Name PROVE ~Before(a, a)
<1>1. Len(a) \in Nat /\ \A i \in 1..Len(a) : a[i] \in Nat
  BY DEF Name
<1> QED
  BY <1>1 DEF Before

\* Of three names in order, the first is before the last.
LEMMA BeforeTransitive ==
    ASSUME NEW a \in Name, NEW b \in Name, NEW c \in Name, Before(a, b), Before(b, c)
    PROVE  Before(a, c)
<1>1. /\ Len(a) \in Nat /\ \A i \in 1..Len(a) : a[i] \in Nat
      /\ Len(b) \in Nat /\ \A i \in 1..Len(b) : b[i] \in Nat
      /\ Len(c) \in Nat /\ \A i \in 1..Len(c) : c[i] \in Nat
  BY DEF Name
<1>2. PICK i : At(a, b, i)
  BY BeforeAt
<1>3. PICK k : At(b, c, k)
  BY BeforeAt
<1>4. i \in Nat /\ k \in Nat
  BY <1>1, <1>2, <1>3 DEF At
<1>5. CASE i <= k
  <2>1. i \in 1..Len(c) /\ i <= Len(a) + 1
    BY <1>1, <1>2, <1>3, <1>4, <1>5 DEF At
  <2>2. \A j \in 1..(i - 1) : a[j] = c[j]
    BY <1>1, <1>2, <1>3, <1>4, <1>5 DEF At
  <2>3. ASSUME i <= Len(a) PROVE a[i] < c[i]
    <3>1. a[i] < b[i] /\ i \in 1..Len(b) /\ i \in 1..Len(a)
      BY <1>1, <1>2, <2>3 DEF At
    <3>2. b[i] = c[i] \/ b[i] < c[i]
      BY <1>1, <1>3, <1>4, <1>5, <3>1 DEF At
    <3> QED BY <1>1, <2>1, <3>1, <3>2
  <2> QED BY <2>1, <2>2, <2>3, BeforeAt DEF At
<1>6. CASE k < i
  <2>1. k \in 1..Len(c) /\ k \in 1..Len(a) /\ k \in 1..Len(b)
    BY <1>1, <1>2, <1>3, <1>4, <1>6 DEF At
  <2>2. \A j \in 1..(k - 1) : a[j] = c[j]
    BY <1>1, <1>2, <1>3, <1>4, <1>6 DEF At
  <2>3. a[k] = b[k] /\ b[k] < c[k]
    BY <1>1, <1>2, <1>3, <1>4, <1>6, <2>1 DEF At
  <2>4. At(a, c, k)
    BY <1>1, <2>1, <2>2, <2>3 DEF At
  <2> QED BY <2>4, BeforeAt
<1> QED
  BY <1>4, <1>5, <1>6

\* Of two different names, one is before the other.
LEMMA BeforeTotal ==
    ASSUME NEW a \in Name, NEW b \in Name
    PROVE  a = b \/ Before(a, b) \/ Before(b, a)
<1>1. /\ Len(a) \in Nat /\ \A i \in 1..Len(a) : a[i] \in Nat
      /\ Len(b) \in Nat /\ \A i \in 1..Len(b) : b[i] \in Nat
  BY DEF Name
<1> DEFINE S == {i \in Nat \ {0} : i > Len(a) \/ i > Len(b) \/ a[i] # b[i]}
<1>2. S \subseteq Nat /\ Len(a) + 1 \in S
  BY <1>1
<1>3. PICK i \in S : \A j \in S : i <= j
  <2> HIDE DEF S
  <2> QED BY <1>2, LeastNumber
<1>4. i \in Nat \ {0} /\ (i > Len(a) \/ i > Len(b) \/ a[i] # b[i])
  OBVIOUS
<1>5. \A j \in 1..(i - 1) : j <= Len(a) /\ j <= Len(b) /\ a[j] = b[j]
  <2> SUFFICES ASSUME NEW j \in 1..(i - 1)
               PROVE  j <= Len(a) /\ j <= Len(b) /\ a[j] = b[j]
    OBVIOUS
  <2>1. j \in Nat \ {0} /\ ~(i <= j)
    BY <1>4
  <2>2. j \notin S
    BY <1>3, <2>1
  <2> QED BY <1>1, <2>1, <2>2
<1> HIDE DEF S
<1>6. i <= Len(a) + 1 /\ i <= Len(b) + 1
  <2>1. CASE i = 1
    BY <1>1, <2>1
  <2>2. CASE i # 1
    <3>1. i - 1 \in 1..(i - 1)
      BY <1>4, <2>2
    <3> QED BY <1>1, <1>4, <1>5, <3>1
  <2> QED BY <2>1, <2>2
<1>7. CASE i > Len(a) /\ i > Len(b)
  <2>1. Len(a) = i - 1 /\ Len(b) = i - 1
    BY <1>1, <1>4, <1>6, <1>7
  <2> QED BY <1>5, <2>1, SeqEqual DEF Name
<1>8. CASE i > Len(a) /\ ~(i > Len(b))
  <2>1. At(a, b, i)
    BY <1>1, <1>4, <1>5, <1>6, <1>8 DEF At
  <2> QED BY <2>1, BeforeAt
<1>9. CASE ~(i > Len(a)) /\ i > Len(b)
  <2>1. At(b, a, i)
    BY <1>1, <1>4, <1>5, <1>6, <1>9 DEF At
  <2> QED BY <2>1, BeforeAt
<1>10. CASE ~(i > Len(a)) /\ ~(i > Len(b))
  <2>1. a[i] # b[i] /\ i \in 1..Len(a) /\ i \in 1..Len(b)
    BY <1>1, <1>4, <1>10
  <2>2. a[i] < b[i] \/ b[i] < a[i]
    BY <1>1, <2>1
  <2>3. At(a, b, i) \/ At(b, a, i)
    BY <1>1, <1>4, <1>5, <1>6, <2>1, <2>2 DEF At
  <2> QED BY <2>3, BeforeAt
<1> QED
  BY <1>7, <1>8, <1>9, <1>10

\* A function on the first n numbers is a list of that length.
LEMMA FunctionIsList ==
    ASSUME NEW T, NEW n \in Nat, NEW f \in [1..n -> T]
    PROVE  f \in Seq(T) /\ Len(f) = n
<1>1. f \in Seq(T)
  OBVIOUS
<1>2. Len(f) \in Nat /\ 1..Len(f) = 1..n
  BY <1>1, LenProperties
<1>3. \A k, m \in Nat : 1..k = 1..m => k = m
  OBVIOUS
<1> QED
  BY <1>1, <1>2, <1>3

\* Rearranging is symmetric and transitive: a list and its rearrangements can be
\* rearranged to the same lists.
LEMMA RearrangedFacts ==
    ASSUME NEW T, NEW list \in Seq(T), NEW s \in Rearranged(list)
    PROVE  /\ s \in Seq(T) /\ Len(s) = Len(list) /\ DOMAIN s = DOMAIN list
           /\ list \in Rearranged(list)
           /\ Rearranged(s) = Rearranged(list)
<1> DEFINE D == DOMAIN list
<1>1. D = 1..Len(list) /\ Len(list) \in Nat /\ \A i \in D : list[i] \in T
  OBVIOUS
<1>2. PICK p \in Bijection(D, D) : s = [i \in D |-> list[p[i]]]
  BY DEF Rearranged
<1>3. p \in [D -> D]
  BY Fun_BijectionProperties
<1>4. s \in Seq(T) /\ Len(s) = Len(list) /\ DOMAIN s = D
  <2>1. s \in [1..Len(list) -> T]
    BY <1>1, <1>2, <1>3
  <2> QED BY <1>1, <2>1, FunctionIsList
<1> DEFINE q == Inverse(p, D, D)
<1>5. /\ q \in Bijection(D, D) /\ q \in [D -> D]
      /\ \A i \in D : q[p[i]] = i
      /\ \A i \in D : p[q[i]] = i
  <2>1. q \in Bijection(D, D) /\ Inverse(q, D, D) = p /\ \A i \in D : q[p[i]] = i
    BY Fun_BijInverse
  <2>2. \A i \in D : Inverse(q, D, D)[q[i]] = i
    <3> HIDE DEF q
    <3> QED BY <2>1, Fun_BijInverse
  <2>3. q \in [D -> D]
    BY <2>1, Fun_BijectionProperties
  <2> QED BY <2>1, <2>2, <2>3
<1> HIDE DEF q
<1>6. ASSUME NEW b \in Bijection(D, D), NEW c \in Bijection(D, D)
      PROVE  /\ [i \in D |-> c[b[i]]] \in Bijection(D, D) /\ b \in [D -> D] /\ c \in [D -> D]
  BY Fun_BijTransitive, Fun_BijectionProperties
<1>7. list \in Rearranged(list)
  <2>1. [i \in D |-> p[q[i]]] \in Bijection(D, D)
    BY <1>5, <1>6
  <2>2. \A i \in D : list[[j \in D |-> p[q[j]]][i]] = list[i]
    BY <1>5
  <2>3. list = [i \in D |-> list[i]]
    BY <1>1
  <2>4. list = [i \in D |-> list[[j \in D |-> p[q[j]]][i]]]
    BY <2>2, <2>3
  <2> QED BY <2>1, <2>4 DEF Rearranged
<1>8. ASSUME NEW b \in Bijection(D, D)
      PROVE  [i \in D |-> s[b[i]]] \in Rearranged(list)
  <2> DEFINE r == [i \in D |-> p[b[i]]]
  <2>1. r \in Bijection(D, D) /\ b \in [D -> D]
    BY <1>6
  <2>2. \A i \in D : s[b[i]] = list[r[i]]
    BY <1>2, <2>1
  <2>3. [i \in D |-> s[b[i]]] = [i \in D |-> list[r[i]]]
    BY <2>2
  <2> QED BY <2>1, <2>3 DEF Rearranged
<1>9. ASSUME NEW b \in Bijection(D, D)
      PROVE  [i \in D |-> list[b[i]]] \in Rearranged(s)
  <2> DEFINE r == [i \in D |-> q[b[i]]]
  <2>1. r \in Bijection(D, D) /\ b \in [D -> D]
    BY <1>5, <1>6
  <2>2. \A i \in D : list[b[i]] = s[r[i]]
    BY <1>2, <1>5, <2>1
  <2>3. [i \in D |-> list[b[i]]] = [i \in D |-> s[r[i]]]
    BY <2>2
  <2> QED BY <1>4, <2>1, <2>3 DEF Rearranged
<1>10. Rearranged(s) = Rearranged(list)
  <2>1. \A t \in Rearranged(s) : t \in Rearranged(list)
    BY <1>4, <1>8 DEF Rearranged
  <2>2. ASSUME NEW t \in Rearranged(list) PROVE t \in Rearranged(s)
    <3>1. PICK b \in Bijection(D, D) : t = [i \in D |-> list[b[i]]]
      BY DEF Rearranged
    <3> QED BY <1>9, <3>1
  <2> QED BY <2>1, <2>2
<1> QED
  BY <1>4, <1>7, <1>10

\* The positions of a list in the order of their names, equal ones from left to
\* right; a position's place is the number of those before it.
Precedes(list, i, j) == Before(list[i], list[j]) \/ (list[i] = list[j] /\ i < j)
Earlier(list, i) == {j \in DOMAIN list : Precedes(list, j, i)}
Place(list) == [i \in DOMAIN list |-> Cardinality(Earlier(list, i)) + 1]

\* Every position has a place of its own.
LEMMA PlaceIsBijection ==
    ASSUME NEW list \in Seq(Name)
    PROVE  /\ Place(list) \in Bijection(DOMAIN list, DOMAIN list)
           /\ \A i, j \in DOMAIN list :
                 Place(list)[i] < Place(list)[j] => Precedes(list, i, j)
<1> DEFINE D == DOMAIN list
           n == Len(list)
<1>1. D = 1..n /\ n \in Nat /\ \A i \in D : list[i] \in Name
  BY DEF Name
<1>2. IsFiniteSet(D) /\ Cardinality(D) = n
  BY <1>1, FS_Interval
<1>3. \A i \in D : ~Precedes(list, i, i)
  BY <1>1, BeforeIrreflexive DEF Precedes
<1>4. ASSUME NEW i \in D, NEW j \in D, NEW k \in D, Precedes(list, i, j), Precedes(list, j, k)
      PROVE  Precedes(list, i, k)
  <2>1. list[i] \in Name /\ list[j] \in Name /\ list[k] \in Name
        /\ i \in Nat /\ j \in Nat /\ k \in Nat
    BY <1>1
  <2> QED BY <1>4, <2>1, BeforeTransitive DEF Precedes
<1>5. ASSUME NEW i \in D, NEW j \in D
      PROVE  i = j \/ Precedes(list, i, j) \/ Precedes(list, j, i)
  <2>1. list[i] \in Name /\ list[j] \in Name /\ i \in Nat /\ j \in Nat
    BY <1>1
  <2> QED BY <2>1, BeforeTotal DEF Precedes
<1>6. ASSUME NEW i \in D
      PROVE  /\ IsFiniteSet(Earlier(list, i)) /\ Cardinality(Earlier(list, i)) \in Nat
             /\ Cardinality(Earlier(list, i)) < n
  <2>1. Earlier(list, i) \in SUBSET D /\ Earlier(list, i) # D
    BY <1>3 DEF Earlier
  <2> QED BY <1>1, <1>2, <2>1, FS_Subset, FS_CardinalityType
<1>7. ASSUME NEW i \in D, NEW j \in D, Precedes(list, i, j)
      PROVE  Place(list)[i] < Place(list)[j]
  <2>1. Earlier(list, i) \in SUBSET Earlier(list, j)
    BY <1>4, <1>7 DEF Earlier
  <2>2. Earlier(list, i) # Earlier(list, j)
    BY <1>3, <1>7 DEF Earlier
  <2>3. /\ IsFiniteSet(Earlier(list, j))
        /\ Cardinality(Earlier(list, i)) \in Nat /\ Cardinality(Earlier(list, j)) \in Nat
    BY <1>6
  <2>4. Cardinality(Earlier(list, i)) < Cardinality(Earlier(list, j))
    BY <2>1, <2>2, <2>3, FS_Subset
  <2> QED BY <2>3, <2>4 DEF Place
<1>8. Place(list) \in [D -> D]
  BY <1>1, <1>6 DEF Place
<1>9. Place(list) \in Injection(D, D)
  <2>1. \A i, j \in D : Place(list)[i] \in Nat
    BY <1>1, <1>8
  <2>2. \A i, j \in D : Place(list)[i] = Place(list)[j] => i = j
    BY <1>5, <1>7, <2>1
  <2> QED BY <1>8, <2>2, Fun_IsInj
<1>10. Place(list) \in Bijection(D, D)
  <2>1. Place(list) \in Surjection(D, D)
    BY <1>2, <1>9, FS_Injection
  <2> QED BY <1>9, <2>1, Fun_IsBij
<1>11. ASSUME NEW i \in D, NEW j \in D, Place(list)[i] < Place(list)[j]
       PROVE  Precedes(list, i, j)
  <2>1. Place(list)[i] \in Nat /\ Place(list)[j] \in Nat
    BY <1>1, <1>8
  <2> QED BY <1>5, <1>7, <1>11, <2>1
<1> QED
  BY <1>10, <1>11

\* Every list of names can be sorted.
LEMMA SortedIsRearranged == ASSUME NEW list \in Seq(Name) PROVE Sorted(list) \in Rearranged(list)
<1> DEFINE D == DOMAIN list
           p == Inverse(Place(list), D, D)
           s == [i \in D |-> list[p[i]]]
<1>1. Place(list) \in Bijection(D, D)
  BY PlaceIsBijection
<1>2. p \in Bijection(D, D) /\ Inverse(p, D, D) = Place(list)
  BY <1>1, Fun_BijInverse
<1>3. p \in [D -> D] /\ \A i \in D : Place(list)[p[i]] = i
  <2> HIDE DEF p
  <2>1. \A i \in D : Inverse(p, D, D)[p[i]] = i
    BY <1>2, Fun_BijInverse
  <2> QED BY <1>2, <2>1, Fun_BijectionProperties
<1> HIDE DEF p
<1>4. s \in Rearranged(list)
  BY <1>2 DEF Rearranged
<1>5. ASSUME NEW i \in D, NEW j \in D, i < j PROVE s[i] = s[j] \/ Before(s[i], s[j])
  <2>1. p[i] \in D /\ p[j] \in D /\ Place(list)[p[i]] < Place(list)[p[j]]
    BY <1>3, <1>5
  <2>2. Precedes(list, p[i], p[j])
    BY <2>1, PlaceIsBijection
  <2> QED BY <2>2 DEF Precedes
<1>6. \E t \in Rearranged(list) :
         \A i, j \in DOMAIN list : i < j => t[i] = t[j] \/ Before(t[i], t[j])
  BY <1>4, <1>5
<1> QED
  BY <1>6 DEF Sorted

\* A name of one part is that part.
LEMMA OnePart ==
    ASSUME NEW a \in Name, Len(a) = 1
    PROVE  a[1] \in Nat /\ a = <<a[1]>>
BY DEF Name

\* Two texts without a bar are told apart by the two of them joined.
LEMMA TwoParts ==
    ASSUME NEW a \in Name, NEW b \in Name, NEW c \in Name, NEW d \in Name,
           Len(a) = 1, Len(b) = 1, Len(c) = 1, Len(d) = 1, a \o b = c \o d
    PROVE  a = c /\ b = d
<1>1. ASSUME NEW x \in Name, NEW y \in Name, Len(x) = 1, Len(y) = 1
      PROVE  (x \o y)[1] = x[1] /\ (x \o y)[2] = y[1]
  <2>1. \A i \in 1 .. Len(x) + Len(y) :
            (x \o y)[i] = IF i <= Len(x) THEN x[i] ELSE y[i - Len(x)]
    BY ConcatProperties DEF Name
  <2> DEFINE z == x \o y
  <2>2. z[1] = x[1] /\ z[2] = y[1]
    <3> HIDE DEF z
    <3>1. \A i \in 1..2 : z[i] = IF i <= 1 THEN x[i] ELSE y[i - 1]
      <4>1. 1 .. Len(x) + Len(y) = 1..2
        BY <1>1
      <4> QED BY <1>1, <2>1, <4>1 DEF z
    <3>2. ASSUME NEW i \in 1..2, i = 1 PROVE z[i] = x[i]
      BY <3>1, <3>2
    <3>3. ASSUME NEW i \in 1..2, i = 2 PROVE z[i] = y[1]
      <4>1. i - 1 = 1 /\ ~(i <= 1)
        BY <3>3
      <4> QED BY <3>1, <4>1
    <3> QED BY <3>2, <3>3
  <2> QED BY <2>2
<1>2. a[1] = c[1] /\ b[1] = d[1]
  BY <1>1
<1>3. /\ a = <<a[1]>> /\ b = <<b[1]>>
      /\ c = <<c[1]>> /\ d = <<d[1]>>
  BY OnePart
<1> QED
  BY <1>2, <1>3

\* What it means to append a name of one part.
LEMMA PartAppended ==
    ASSUME NEW a \in Name, Len(a) = 1, NEW b \in Name, NEW c \in Name,
           Len(c) = Len(b) + 1, \A j \in 1..Len(b) : c[j] = b[j], c[Len(b) + 1] = a[1]
    PROVE  c = b \o a
<1>1. Len(b) \in Nat
  BY DEF Name
<1>2. /\ b \o a \in Seq(Nat) /\ Len(b \o a) = Len(b) + Len(a)
      /\ \A i \in 1 .. Len(b) + Len(a) :
            (b \o a)[i] = IF i <= Len(b) THEN b[i] ELSE a[i - Len(b)]
  BY ConcatProperties DEF Name
<1>3. \A i \in 1..Len(c) : c[i] = (b \o a)[i]
  <2> SUFFICES ASSUME NEW i \in 1..Len(c) PROVE c[i] = (b \o a)[i]
    OBVIOUS
  <2>1. CASE i <= Len(b)
    BY <1>1, <1>2, <2>1
  <2>2. CASE i = Len(b) + 1
    <3>1. i - Len(b) = 1 /\ ~(i <= Len(b))
      BY <1>1, <2>2
    <3> QED BY <1>1, <1>2, <2>2, <3>1
  <2>3. i <= Len(b) \/ i = Len(b) + 1
    BY <1>1
  <2> QED BY <2>1, <2>2, <2>3
<1> QED
  BY <1>2, <1>3, SeqEqual DEF Name

\* Names without a comma are joined to the sequence of their only parts.
LEMMA FlattenPlain ==
    ASSUME NEW list \in Seq(Name), \A i \in DOMAIN list : Len(list[i]) = 1
    PROVE  /\ FlattenSeq(list) \in Seq(Nat) /\ Len(FlattenSeq(list)) = Len(list)
           /\ \A i \in DOMAIN list : FlattenSeq(list)[i] = list[i][1]
<1> DEFINE n == Len(list)
           D == 1..n
           Step(f) == [i \in D |-> IF i = 1 THEN list[i] ELSE f[i - 1] \o list[i]]
           g == [i \in D |-> [j \in 1..i |-> list[j][1]]]
<1>1. /\ n \in Nat /\ DOMAIN list = D
      /\ \A i \in D : list[i] \in Name /\ Len(list[i]) = 1
  OBVIOUS
<1>2. CASE n = 0
  <2>1. FlattenSeq(list) = list /\ list = <<>>
    BY <1>2 DEF FlattenSeq
  <2> QED BY <1>1, <1>2, <2>1
<1>3. CASE n # 0
  <2>1. ASSUME NEW i \in D
        PROVE  /\ list[i][1] \in Nat /\ list[i] = <<list[i][1]>>
               /\ g[i] = [j \in 1..i |-> list[j][1]] /\ g[i] \in Name /\ Len(g[i]) = i
    <3>1. \A j \in D : list[j][1] \in Nat
      BY <1>1, OnePart
    <3>2. list[i] = <<list[i][1]>>
      BY <1>1, OnePart
    <3>3. g[i] = [j \in 1..i |-> list[j][1]] /\ i \in Nat
      BY <1>1
    <3>4. g[i] \in [1..i -> Nat]
      BY <1>1, <3>1, <3>3
    <3>5. g[i] \in Name /\ Len(g[i]) = i
      <4> HIDE DEF g
      <4> QED BY <3>3, <3>4, FunctionIsList DEF Name
    <3> QED BY <3>1, <3>2, <3>3, <3>5
  <2>2. ASSUME NEW i \in D, i # 1 PROVE g[i] = g[i - 1] \o list[i]
    <3>1. i - 1 \in D /\ i \in Nat
      BY <1>1, <2>2
    <3>2. /\ g[i - 1] \in Name /\ Len(g[i - 1]) = i - 1
          /\ \A j \in 1..(i - 1) : g[i - 1][j] = list[j][1]
          /\ list[i] \in Name /\ Len(list[i]) = 1
      BY <1>1, <2>1, <3>1
    <3>3. /\ g[i] \in Name /\ Len(g[i]) = i
          /\ \A j \in 1..i : g[i][j] = list[j][1]
      BY <2>1
    <3> HIDE DEF g
    <3>4. /\ Len(g[i]) = Len(g[i - 1]) + 1
          /\ \A j \in 1..Len(g[i - 1]) : g[i][j] = g[i - 1][j]
          /\ g[i][Len(g[i - 1]) + 1] = list[i][1]
      <4>1. Len(g[i - 1]) + 1 = i /\ i \in 1..i
        BY <3>1, <3>2
      <4>2. \A j \in 1..(i - 1) : j \in 1..i
        BY <3>1
      <4> QED BY <3>2, <3>3, <4>1, <4>2
    <3> QED BY <3>2, <3>3, <3>4, PartAppended
  <2>3. g = Step(g)
    <3>1. \A i \in D : g[i] = IF i = 1 THEN list[i] ELSE g[i - 1] \o list[i]
      <4>1. ASSUME 1 \in D PROVE g[1] = list[1]
        <5>1. g[1] \in Name /\ Len(g[1]) = 1 /\ g[1] = [j \in 1..1 |-> list[j][1]]
          BY <2>1, <4>1
        <5>2. list[1] = <<list[1][1]>>
          BY <2>1, <4>1
        <5> HIDE DEF g
        <5>3. g[1] = <<g[1][1]>> /\ g[1][1] = list[1][1]
          BY <5>1, OnePart
        <5> QED BY <5>2, <5>3
      <4> QED BY <2>2, <4>1
    <3> QED BY <3>1
  <2>4. ASSUME NEW f, f = Step(f) PROVE f = g
    <3> DEFINE S == {i \in D : f[i] # g[i]}
    <3>1. S \subseteq Nat
      BY <1>1
    <3>2. ASSUME NEW i \in S, \A j \in S : i <= j PROVE FALSE
      <4>1. i \in D /\ f[i] # g[i]
        OBVIOUS
      <4>2. f[i] = IF i = 1 THEN list[i] ELSE f[i - 1] \o list[i]
        BY <2>4, <4>1
      <4>3. g[i] = IF i = 1 THEN list[i] ELSE g[i - 1] \o list[i]
        BY <2>3, <4>1
      <4>4. CASE i = 1
        BY <4>1, <4>2, <4>3, <4>4
      <4>5. CASE i # 1
        <5>1. i - 1 \in D /\ ~(i <= i - 1)
          BY <1>1, <4>1, <4>5
        <5>2. f[i - 1] = g[i - 1]
          BY <3>2, <5>1
        <5> QED BY <4>1, <4>2, <4>3, <4>5, <5>2
      <4> QED BY <4>4, <4>5
    <3>3. S = {}
      <4> HIDE DEF S
      <4> QED BY <3>1, <3>2, LeastNumber
    <3>4. f = [i \in D |-> f[i]] /\ g = [i \in D |-> g[i]]
      BY <2>4
    <3>5. \A i \in D : f[i] = g[i]
      BY <3>3
    <3> HIDE DEF g, S
    <3> QED BY <3>4, <3>5
  <2>5. FlattenSeq(list) = (CHOOSE f : f = Step(f))[n]
    BY <1>3 DEF FlattenSeq
  <2>6. (CHOOSE f : f = Step(f)) = g
    <3> HIDE DEF g, Step
    <3> QED BY <2>3, <2>4
  <2>7. n \in D
    BY <1>1, <1>3
  <2>8. /\ FlattenSeq(list) = g[n]
        /\ g[n] \in Name /\ Len(g[n]) = n /\ \A i \in D : g[n][i] = list[i][1]
    <3>1. FlattenSeq(list) = g[n]
      BY <2>5, <2>6
    <3>2. g[n] \in Name /\ Len(g[n]) = n /\ g[n] = [j \in 1..n |-> list[j][1]]
      BY <2>1, <2>7
    <3> HIDE DEF g
    <3> QED BY <3>1, <3>2
  <2> HIDE DEF g, Step
  <2> QED BY <1>1, <2>8 DEF Name
<1> QED
  BY <1>2, <1>3

\* What sorted and joined lists have in common.
LEMMA JoinedFacts ==
    ASSUME NEW list \in Seq(Name), NEW other \in Seq(Name)
    PROVE  /\ list \in Rearranged(other) => Joined(list) = Joined(other)
           /\ /\ Joined(list) = Joined(other)
              /\ \A i \in DOMAIN list : Len(list[i]) = 1
              /\ \A i \in DOMAIN other : Len(other[i]) = 1
              /\ list # <<Empty>> /\ other # <<Empty>>
              => list \in Rearranged(other)
<1>1. ASSUME list \in Rearranged(other) PROVE Joined(list) = Joined(other)
  <2>1. Rearranged(list) = Rearranged(other) /\ DOMAIN list = DOMAIN other
    BY <1>1, RearrangedFacts
  <2>2. Sorted(list) = Sorted(other)
    BY <2>1 DEF Sorted
  <2>3. list = <<>> <=> other = <<>>
    BY <2>1
  <2> QED BY <2>2, <2>3 DEF Joined
<1>2. ASSUME NEW l \in Seq(Name), l # <<>>, \A i \in DOMAIN l : Len(l[i]) = 1
      PROVE  /\ Sorted(l) \in Seq(Name)
             /\ Len(Joined(l)) = Len(Sorted(l))
             /\ \A i \in DOMAIN Sorted(l) :
                   Len(Sorted(l)[i]) = 1 /\ Joined(l)[i] = Sorted(l)[i][1]
  <2>1. Sorted(l) \in Rearranged(l)
    BY SortedIsRearranged
  <2>2. Sorted(l) \in Seq(Name) /\ DOMAIN Sorted(l) = DOMAIN l
    BY <2>1, RearrangedFacts
  <2>3. \A i \in DOMAIN Sorted(l) : Len(Sorted(l)[i]) = 1
    <3>1. PICK p \in Bijection(DOMAIN l, DOMAIN l) : Sorted(l) = [i \in DOMAIN l |-> l[p[i]]]
      BY <2>1 DEF Rearranged
    <3>2. p \in [DOMAIN l -> DOMAIN l]
      BY Fun_BijectionProperties
    <3> QED BY <1>2, <3>1, <3>2
  <2>4. Joined(l) = FlattenSeq(Sorted(l))
    BY <1>2 DEF Joined
  <2> QED BY <2>2, <2>3, <2>4, FlattenPlain
<1>3. ASSUME Joined(list) = Joined(other), list # <<>>, other # <<>>,
             \A i \in DOMAIN list : Len(list[i]) = 1,
             \A i \in DOMAIN other : Len(other[i]) = 1
      PROVE  list \in Rearranged(other)
  <2> DEFINE s == Sorted(list)
             t == Sorted(other)
  <2>1. /\ s \in Seq(Name) /\ t \in Seq(Name) /\ Len(s) = Len(t)
        /\ \A i \in DOMAIN s : Len(s[i]) = 1 /\ Joined(list)[i] = s[i][1]
        /\ \A i \in DOMAIN t : Len(t[i]) = 1 /\ Joined(list)[i] = t[i][1]
    BY <1>2, <1>3
  <2>2. s \in Rearranged(list) /\ t \in Rearranged(other)
    BY SortedIsRearranged
  <2> HIDE DEF s, t
  <2>3. ASSUME NEW i \in 1..Len(s) PROVE s[i] = t[i]
    <3>1. /\ s[i] \in Seq(Nat) /\ Len(s[i]) = 1 /\ t[i] \in Seq(Nat) /\ Len(t[i]) = 1
          /\ s[i][1] = t[i][1]
      <4>1. s[i] \in Name /\ t[i] \in Name /\ i \in DOMAIN s /\ i \in DOMAIN t
        BY <2>1
      <4> QED BY <2>1, <4>1 DEF Name
    <3> QED BY <3>1, SeqEqual
  <2>4. s = t
    BY <2>1, <2>3, SeqEqual
  <2>5. Rearranged(s) = Rearranged(list) /\ Rearranged(t) = Rearranged(other)
        /\ list \in Rearranged(list)
    BY <2>2, RearrangedFacts
  <2> QED BY <2>4, <2>5
<1>4. ASSUME NEW l \in Seq(Name), l # <<>>, \A i \in DOMAIN l : Len(l[i]) = 1,
             Joined(l) = Empty
      PROVE  l = <<Empty>>
  <2>1. /\ Sorted(l) \in Seq(Name) /\ Sorted(l) \in Rearranged(l)
        /\ Len(Sorted(l)) = 1 /\ Len(Sorted(l)[1]) = 1 /\ Sorted(l)[1][1] = 0
    BY <1>2, <1>4, SortedIsRearranged DEF Empty
  <2>2. Sorted(l)[1] \in Name
    BY <2>1
  <2>3. Sorted(l)[1] = Empty
    BY <2>1, <2>2, OnePart DEF Empty
  <2>4. Len(l) = 1 /\ l[1] = Sorted(l)[1]
    <3>1. PICK p \in Bijection(DOMAIN l, DOMAIN l) : Sorted(l) = [i \in DOMAIN l |-> l[p[i]]]
      BY <2>1 DEF Rearranged
    <3>2. p \in [DOMAIN l -> DOMAIN l]
      BY Fun_BijectionProperties
    <3>3. Len(l) = 1 /\ DOMAIN l = {1}
      BY <2>1, RearrangedFacts
    <3> QED BY <3>1, <3>2, <3>3
  <2> QED BY <2>3, <2>4
<1>5. ASSUME Joined(list) = Joined(other), list = <<>> \/ other = <<>>,
             list # <<Empty>>, other # <<Empty>>,
             \A i \in DOMAIN list : Len(list[i]) = 1,
             \A i \in DOMAIN other : Len(other[i]) = 1
      PROVE  list \in Rearranged(other)
  <2>1. list = <<>> /\ other = <<>>
    BY <1>4, <1>5 DEF Joined
  <2> QED BY <2>1, SortedIsRearranged, RearrangedFacts
<1> QED
  BY <1>1, <1>3, <1>5

\* Contents that mean the same have the same digest, and only those where no
\* separator or empty name is hidden.
LEMMA DigestMeaning ==
    ASSUME NEW c \in Contents, NEW d \in Contents
    PROVE  /\ SameMeaning(c, d) => FactoryDigest(c) = FactoryDigest(d)
           /\ FactoryDigest(c) = FactoryDigest(d) /\ Plain(c) /\ Plain(d) => SameMeaning(c, d)
<1>1. /\ c.title \in Name /\ c.description \in Name /\ d.title \in Name /\ d.description \in Name
      /\ \A f \in ListFields : c[f] \in Seq(Name) /\ d[f] \in Seq(Name)
  BY ContentsAssumption DEF IsContent, Name
<1>2. FactoryDigest(c) = FactoryDigest(d) <=>
          /\ c.title \o c.description = d.title \o d.description
          /\ \A f \in ListFields : Joined(c[f]) = Joined(d[f])
          /\ c.constraints = d.constraints
  BY DEF FactoryDigest
<1>3. ASSUME SameMeaning(c, d) PROVE FactoryDigest(c) = FactoryDigest(d)
  BY <1>1, <1>2, <1>3, JoinedFacts DEF SameMeaning
<1>4. ASSUME FactoryDigest(c) = FactoryDigest(d), Plain(c), Plain(d) PROVE SameMeaning(c, d)
  <2>1. c.title = d.title /\ c.description = d.description
    <3>1. /\ Len(c.title) = 1 /\ Len(c.description) = 1
          /\ Len(d.title) = 1 /\ Len(d.description) = 1
      BY <1>4 DEF Plain
    <3>2. c.title \o c.description = d.title \o d.description
      BY <1>2, <1>4
    <3> QED BY <1>1, <3>1, <3>2, TwoParts
  <2>2. ASSUME NEW f \in ListFields PROVE c[f] \in Rearranged(d[f])
    <3>1. /\ Joined(c[f]) = Joined(d[f]) /\ c[f] # <<Empty>> /\ d[f] # <<Empty>>
          /\ \A i \in DOMAIN c[f] : Len(c[f][i]) = 1
          /\ \A i \in DOMAIN d[f] : Len(d[f][i]) = 1
      BY <1>2, <1>4 DEF Plain
    <3> QED BY <1>1, <3>1, JoinedFacts
  <2> QED BY <1>2, <1>4, <2>1, <2>2 DEF SameMeaning
<1> QED
  BY <1>3, <1>4

\* After a lock and any edits verify_integrity compares the content with the one
\* that was locked, as far as the digest tells contents apart: it notices every
\* change of meaning unless a separator or an empty name is hidden in a text, and
\* no mere reordering (models.py:166-181).
THEOREM IntegrityComparesMeaning == FactorySpec => []IntegrityNotices
<1>1. FactoryInv => IntegrityNotices
  <2> SUFFICES ASSUME FactoryInv, locked
               PROVE  /\ SameMeaning(content, sealed) => VerifyIntegrity
                      /\ VerifyIntegrity /\ Plain(content) /\ Plain(sealed)
                             => SameMeaning(content, sealed)
    BY DEF IntegrityNotices
  <2>1. VerifyIntegrity <=> FactoryDigest(content) = FactoryDigest(sealed)
    BY DigestsAreHashes DEF FactoryInv, Locked, VerifyIntegrity
  <2>2. content \in Contents /\ sealed \in Contents
    BY DEF FactoryInv, FactoryTypeOK
  <2> QED
    BY <2>1, <2>2, DigestMeaning
<1> QED
  BY <1>1, FactoryInvariance, PTL

\* An artifact is accepted only under a lock and if it was written under one, and
\* then exactly if the contents the two locks sealed mean the same, whatever was
\* edited, replaced or locked directly (blueprint.py:99-123, 139-143;
\* models.py:153-160).
THEOREM AcceptedArtifacts == FactorySpec => []AcceptedIsOfSealedContent
<1>1. FactoryInv => AcceptedIsOfSealedContent
  <2> SUFFICES ASSUME FactoryInv PROVE AcceptedIsOfSealedContent
    OBVIOUS
  <2>1. /\ sealed \in Contents /\ writtenFor \in [Artifacts -> SUBSET Contents]
        /\ \A a \in Artifacts : Carries(a)
        /\ locked => lockedHash = FactoryDigest(sealed)
        /\ validated => Complete(sealed) /\ phase = Phases[Len(Phases)]
    BY DEF FactoryInv, FactoryTypeOK, Locked
  <2>2. ASSUME NEW a \in Artifacts, VerifyArtifactHash(a) PROVE locked /\ writtenFor[a] # {}
    BY <2>1, <2>2, DigestsAreHashes DEF VerifyArtifactHash, Carries
  <2>3. ASSUME NEW a \in Artifacts, locked, NEW c \in writtenFor[a]
        PROVE  /\ SameMeaning(c, sealed) => VerifyArtifactHash(a)
               /\ VerifyArtifactHash(a) /\ Plain(c) /\ Plain(sealed)
                      => SameMeaning(c, sealed)
    <3>1. c \in Contents /\ artifact[a] = FactoryDigest(c)
      BY <2>1, <2>3 DEF Carries
    <3>2. VerifyArtifactHash(a) <=> FactoryDigest(c) = FactoryDigest(sealed)
      BY <2>1, <2>3, <3>1 DEF VerifyArtifactHash
    <3> QED BY <2>1, <3>1, <3>2, DigestMeaning
  <2> QED
    BY <2>1, <2>2, <2>3 DEF AcceptedIsOfSealedContent
<1> QED
  BY <1>1, FactoryInvariance, PTL

(***************************************************************************)
(* BlueprintChecks: the hash in feature.spec_hash is the digest of what    *)
(* was last locked, and that digest is injective; the older feature has no *)
(* hash or the one of its blueprint.                                       *)
(***************************************************************************)
ChecksInv ==
    /\ specification \in Contents
    /\ sharedSealed \in Contents \X Architectures
    /\ architecture \in Architectures
    /\ sharedHash # NoSpecHash => sharedHash = SharedDigest(sharedSealed[1], sharedSealed[2])
    /\ legacyCopy \in {NoSpecHash, legacyHash}

\* The check of the agents on the shared blueprint passes exactly on the content and
\* the architecture of its last lock; the older one, once there is a hash to compare,
\* passes whatever is edited (shared/models.py:159-168; state.py:230-237).
THEOREM ChecksCompared == ChecksSpec => []ChecksNotice
<1>1. ChecksInit => ChecksInv
  BY DraftAssumption, ArchitecturesAssumption DEF ChecksInit, ChecksInv
<1>2. ChecksInv /\ [ChecksNext]_checksVars => ChecksInv'
  <2> SUFFICES ASSUME ChecksInv, [ChecksNext]_checksVars PROVE ChecksInv'
    OBVIOUS
  <2>1. CASE EditSpecification
    BY <2>1 DEF EditSpecification, ChecksInv, shared, legacy
  <2>2. CASE SharedLock
    BY <2>2 DEF SharedLock, ChecksInv, legacy
  <2>3. CASE LegacyLock \/ LegacyAdopt \/ UNCHANGED checksVars
    BY <2>3 DEF LegacyLock, LegacyAdopt, checksVars, ChecksInv, shared, legacy
  <2> QED
    BY <2>1, <2>2, <2>3 DEF ChecksNext
<1>3. ChecksInv => ChecksNotice
  <2> SUFFICES ASSUME ChecksInv, sharedHash # NoSpecHash
               PROVE  SharedCheck <=> <<specification, architecture>> = sharedSealed
    BY DEF ChecksNotice, ChecksInv, ValidateSpecHash
  <2>1. /\ specification \in Contents /\ sharedSealed \in Contents \X Architectures
        /\ sharedHash = SharedDigest(sharedSealed[1], sharedSealed[2])
    BY DEF ChecksInv
  <2>2. SharedCheck <=> SharedDigest(specification, architecture)
                            = SharedDigest(sharedSealed[1], sharedSealed[2])
    BY <2>1 DEF SharedCheck
  <2>3. sharedSealed[1] \in Contents /\ sharedSealed = <<sharedSealed[1], sharedSealed[2]>>
    BY <2>1
  <2>4. ASSUME SharedCheck
        PROVE  specification = sharedSealed[1] /\ architecture = sharedSealed[2]
    BY <2>1, <2>2, <2>3, <2>4, SharedDigestInjective
  <2>5. ASSUME <<specification, architecture>> = sharedSealed PROVE SharedCheck
    BY <2>2, <2>5
  <2> QED BY <2>3, <2>4, <2>5
<1> QED
  BY <1>1, <1>2, <1>3, PTL DEF ChecksSpec
===============================================================================
