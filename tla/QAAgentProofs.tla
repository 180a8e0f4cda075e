----------------------------- MODULE QAAgentProofs -----------------------------
(***************************************************************************)
(* Proofs about QAAgent, for any number of edits of the blueprint.         *)
(*                                                                         *)
(* ReturnedIsVerified is not inductive: it needs to know where the agent   *)
(* is in its stages (Progress) and that the hash of the feature, if there  *)
(* is one, is the one the coder agent built from (HashBinds, JudgedRight). *)
(***************************************************************************)
EXTENDS QAAgent, SequenceTheorems, TLAPS

\* How far the agent is, by the stages that have returned.
Progress ==
    /\ passed \in Seq(StageNames) /\ Len(passed) <= 6
    /\ \A i \in 1..Len(passed) : passed[i] = Stages[i]
    /\ pc = "start" => Len(passed) = 0
    /\ \A i \in 1..6 : pc = Stages[i] => Len(passed) = i - 1
    /\ pc # "ended" => outcome = "pending"
    /\ outcome = "returned" => Len(passed) = 6 \/ (Len(passed) = 5 /\ ~NeedsFormal)

HashBinds == specHash \in {NoHash, Hash(builtFrom)}

JudgedRight ==
    pc \in StageNames \/ outcome = "returned" => (specHash # NoHash => judged = builtFrom)

Types ==
    /\ hasId \in BOOLEAN /\ bucket \in Buckets /\ flagged = FALSE
    /\ blueprint \in Versions /\ builtFrom \in Versions /\ judged \in Versions \cup {0}
    /\ specHash \in {NoHash} \cup {Hash(v) : v \in Versions}
    /\ pc \in StageNames \cup {"start", "ended"}
    /\ outcome \in Outcomes
    /\ cause \in Raisable \cup {"none"}

IInv == Types /\ Progress /\ HashBinds /\ JudgedRight /\ SeverityKept

-------------------------------------------------------------------------------
\* The six stages are different, and none is the start or the end.
LEMMA StagesFacts ==
    /\ Len(Stages) = 6 /\ DOMAIN Stages = 1..6 /\ Stages \in Seq(StageNames)
    /\ StageNames = {"unit_tests", "type_check", "lint", "security_scan", "hostile_audit",
                     "formal_verification"}
    /\ \A i, j \in 1..6 : Stages[i] = Stages[j] => i = j
    /\ \A i \in 1..6 : Stages[i] \in StageNames
    /\ "start" \notin StageNames /\ "ended" \notin StageNames
<1>1. Len(Stages) = 6 /\ DOMAIN Stages = 1..6
  BY DEF Stages
<1>2. /\ Stages[1] = "unit_tests" /\ Stages[2] = "type_check" /\ Stages[3] = "lint"
      /\ Stages[4] = "security_scan" /\ Stages[5] = "hostile_audit"
      /\ Stages[6] = "formal_verification"
  BY DEF Stages
<1>3. \A i \in 1..6 : i = 1 \/ i = 2 \/ i = 3 \/ i = 4 \/ i = 5 \/ i = 6
  OBVIOUS
<1>4. StageNames = {Stages[1], Stages[2], Stages[3], Stages[4], Stages[5], Stages[6]}
  BY <1>1, <1>3 DEF StageNames
<1>5. \A i, j \in 1..6 : Stages[i] = Stages[j] => i = j
  BY <1>2, <1>3
<1>6. Stages \in Seq(StageNames)
  BY <1>2, <1>4 DEF Stages
<1> QED
  BY <1>1, <1>2, <1>4, <1>5, <1>6, <1>3

\* What leaves BaseAgent.run: never an exceeded budget.
LEMMA WrappedKinds ==
    ASSUME NEW kind \in Raisable
    PROVE  /\ Wrapped(kind) = IF kind \in ForeignKinds THEN "transient" ELSE kind
           /\ Wrapped(kind) \in Raisable \cup {"transient"}
           /\ Wrapped(kind) # "budget" /\ Wrapped(kind) # "returned"
BY DEF Wrapped, Raisable, PipelineKinds, ForeignKinds

\* An exception ends the agent.
LEMMA RaiseFacts ==
    ASSUME NEW kind \in Raisable, Raise(kind), flagged = FALSE
    PROVE  /\ pc' = "ended" /\ outcome' \in Outcomes /\ outcome' # "returned"
           /\ cause' \in Raisable
           /\ flagged' = FALSE
           /\ SeverityKept'
<1>1. outcome' = Wrapped(kind) /\ flagged' = FALSE /\ pc' = "ended" /\ cause' = kind
  BY WrappedKinds DEF Raise
<1>2. Wrapped(kind) \in Outcomes /\ Wrapped(kind) # "returned"
  BY WrappedKinds DEF Outcomes
<1>3. SeverityKept'
  BY <1>1, WrappedKinds DEF SeverityKept
<1> QED
  BY <1>1, <1>2, <1>3

-------------------------------------------------------------------------------
\* Before the start no stage has passed.
LEMMA InitInv == Init => IInv
<1> SUFFICES ASSUME Init PROVE IInv
  OBVIOUS
<1>1. Types
  BY DEF Init, Types, Outcomes
<1>2. Progress
  BY StagesFacts DEF Init, Progress
<1>3. HashBinds /\ JudgedRight /\ SeverityKept
  BY StagesFacts DEF Init, HashBinds, JudgedRight, SeverityKept
<1> QED
  BY <1>1, <1>2, <1>3 DEF IInv

\* A step that leaves the feature alone and raises.
LEMMA RaiseInv ==
    ASSUME IInv, NEW kind \in Raisable, Raise(kind),
           UNCHANGED <<feature, passed>>, judged' \in Versions \cup {0}
    PROVE  IInv'
<1>1. /\ pc' = "ended" /\ outcome' \in Outcomes /\ outcome' # "returned"
      /\ cause' \in Raisable
      /\ flagged' = FALSE
      /\ SeverityKept'
  BY RaiseFacts DEF IInv, Types
<1>2. pc' \notin StageNames /\ pc' # "start"
  BY <1>1, StagesFacts
<1>3. Types'
  BY <1>1 DEF IInv, Types, feature
<1>4. Progress'
  BY <1>1, <1>2, StagesFacts DEF IInv, Progress
<1>5. HashBinds' /\ JudgedRight'
  BY <1>1, <1>2 DEF IInv, HashBinds, JudgedRight, feature
<1> QED
  BY <1>1, <1>3, <1>4, <1>5 DEF IInv

\* The start judges the version the hash binds, or ends the run.
LEMMA StartInv == IInv /\ Start => IInv'
<1> SUFFICES ASSUME IInv, Start PROVE IInv'
  OBVIOUS
<1>1. judged' = blueprint /\ judged' \in Versions /\ UNCHANGED <<feature, passed>>
  BY DEF IInv, Types, Start
<1>2. ASSUME NEW kind \in {"other", "blocking"}, Raise(kind) PROVE IInv'
  <2>1. kind \in Raisable
    BY DEF Raisable, PipelineKinds, ForeignKinds
  <2> QED
    BY <1>1, <1>2, <2>1, RaiseInv
<1>3. CASE ~HashDrifted /\ Await(Stages[1])
  <2>1. /\ pc' = Stages[1] /\ pc' \in StageNames /\ pc' # "ended" /\ pc' # "start"
        /\ UNCHANGED <<flagged, outcome, cause>>
    BY <1>3, StagesFacts DEF Await
  <2>2. pc = "start" /\ outcome = "pending" /\ Len(passed) = 0
    BY StagesFacts DEF Start, IInv, Progress
  <2>3. Types'
    BY <1>1, <2>1 DEF IInv, Types, feature
  <2>4. Progress'
    <3>1. ASSUME NEW i \in 1..6, pc' = Stages[i] PROVE i = 1
      <4>1. Stages[i] = Stages[1] /\ 1 \in 1..6
        BY <2>1, <3>1
      <4> QED
        BY <4>1, StagesFacts
    <3> QED
      BY <1>1, <2>1, <2>2, <3>1 DEF IInv, Progress
  <2>5. HashBinds'
    BY <1>1 DEF IInv, HashBinds, feature
  <2>6. specHash # NoHash => blueprint = builtFrom
    BY <1>3 DEF HashDrifted, IInv, HashBinds, Hash
  <2>7. JudgedRight'
    BY <1>1, <2>6 DEF JudgedRight, feature
  <2>8. SeverityKept'
    BY <2>1 DEF SeverityKept
  <2> QED
    BY <2>3, <2>4, <2>5, <2>7, <2>8 DEF IInv
<1> QED
  BY <1>2, <1>3 DEF Start

\* A stage passes: on to the next one that the bucket asks for, or the end.
LEMMA StageReturnsInv == IInv /\ StageReturns => IInv'
<1> SUFFICES ASSUME IInv, StageReturns PROVE IInv'
  OBVIOUS
<1>1. PICK i \in 1..6 :
        /\ pc = Stages[i]
        /\ passed' = Append(passed, pc)
        /\ \/ /\ i = 6 \/ (i = 5 /\ ~NeedsFormal)
              /\ Return
           \/ /\ i < 5 \/ (i = 5 /\ NeedsFormal)
              /\ Await(NextStage(i))
        /\ UNCHANGED <<feature, judged>>
  BY StagesFacts DEF StageReturns
<1>2. pc \in StageNames /\ pc # "start" /\ pc # "ended"
  BY <1>1, StagesFacts
<1>3. Len(passed) = i - 1 /\ outcome = "pending" /\ passed \in Seq(StageNames)
  BY <1>1, <1>2 DEF IInv, Progress
<1>4. /\ passed' \in Seq(StageNames) /\ Len(passed') = i
      /\ \A k \in 1..Len(passed') : passed'[k] = Stages[k]
  <2>1. \A k \in 1..(i - 1) : passed[k] = Stages[k]
    BY <1>3 DEF IInv, Progress
  <2> QED
    BY <1>1, <1>2, <1>3, <2>1
<1>5. specHash # NoHash => judged = builtFrom
  BY <1>2 DEF IInv, JudgedRight
<1>6. HashBinds' /\ JudgedRight'
  BY <1>1, <1>5 DEF IInv, HashBinds, JudgedRight, feature
<1>7. CASE /\ i = 6 \/ (i = 5 /\ ~NeedsFormal)
           /\ Return
  <2>1. pc' = "ended" /\ outcome' = "returned" /\ UNCHANGED <<flagged, cause>>
    BY <1>7 DEF Return
  <2>2. NeedsFormal' <=> NeedsFormal
    BY <1>1 DEF NeedsFormal, feature
  <2>3. Types'
    BY <1>1, <2>1 DEF IInv, Types, feature, Outcomes
  <2>4. Progress'
    BY <1>4, <1>7, <2>1, <2>2, StagesFacts DEF Progress
  <2>5. SeverityKept'
    BY <2>1 DEF SeverityKept
  <2> QED
    BY <1>6, <2>3, <2>4, <2>5 DEF IInv
<1>8. CASE /\ i < 5 \/ (i = 5 /\ NeedsFormal)
           /\ Await(NextStage(i))
  <2>1. /\ i + 1 \in 1..6 /\ pc' = Stages[i + 1]
        /\ UNCHANGED <<flagged, outcome, cause>>
    BY <1>8 DEF Await, NextStage
  <2>2. pc' \in StageNames /\ pc' # "start" /\ pc' # "ended"
    BY <2>1, StagesFacts
  <2>3. Types'
    BY <1>1, <2>1, <2>2 DEF IInv, Types, feature
  <2>4. \A k \in 1..6 : pc' = Stages[k] => k = i + 1
    BY <2>1, StagesFacts
  <2>5. Progress'
    BY <1>3, <1>4, <2>1, <2>2, <2>4 DEF Progress
  <2>6. SeverityKept'
    BY <2>2 DEF SeverityKept
  <2> QED
    BY <1>6, <2>3, <2>5, <2>6 DEF IInv
<1> QED
  BY <1>1, <1>7, <1>8

\* An edit changes neither what was built from nor what was judged.
LEMMA DriftInv == IInv /\ BlueprintDrifts => IInv'
<1> SUFFICES ASSUME IInv, BlueprintDrifts PROVE IInv'
  OBVIOUS
<1>1. blueprint' \in Versions
  BY MaxVersionAssumption DEF BlueprintDrifts, IInv, Types, Versions
<1>2. UNCHANGED <<hasId, bucket, specHash, builtFrom, flagged, pc, outcome, judged,
                  passed, cause>>
  BY DEF BlueprintDrifts
<1>3. Types'
  BY <1>1, <1>2 DEF IInv, Types
<1>4. NeedsFormal' <=> NeedsFormal
  BY <1>2 DEF NeedsFormal
<1>5. Progress'
  BY <1>2, <1>4 DEF IInv, Progress
<1>6. HashBinds' /\ JudgedRight' /\ SeverityKept'
  BY <1>2 DEF IInv, HashBinds, JudgedRight, SeverityKept
<1> QED
  BY <1>3, <1>5, <1>6 DEF IInv

\* One lemma above per action.
LEMMA NextInv == IInv /\ [Next]_vars => IInv'
<1> SUFFICES ASSUME IInv, [Next]_vars PROVE IInv'
  OBVIOUS
<1>1. CASE StageBlocks \/ StageRaises
  <2>1. PICK kind \in Raisable : Raise(kind)
    BY <1>1 DEF StageBlocks, StageRaises, Raisable, PipelineKinds
  <2>2. UNCHANGED <<feature, passed>> /\ judged' \in Versions \cup {0}
    BY <1>1 DEF StageBlocks, StageRaises, IInv, Types
  <2> QED
    BY <2>1, <2>2, RaiseInv
<1>2. CASE UNCHANGED vars
  <2>1. NeedsFormal' <=> NeedsFormal
    BY <1>2 DEF vars, feature, NeedsFormal
  <2> QED
    BY <1>2, <2>1 DEF IInv, Types, Progress, HashBinds, JudgedRight, SeverityKept,
          vars, feature
<1> QED
  BY <1>1, <1>2, StartInv, StageReturnsInv, DriftInv DEF Next

-------------------------------------------------------------------------------
\* The invariant has the types.
LEMMA InvTypes == IInv => TypeOK
<1> SUFFICES ASSUME IInv PROVE TypeOK
  OBVIOUS
<1>1. /\ passed \in Seq(StageNames) /\ Len(passed) \in 0..6
      /\ \A i \in 1..Len(passed) : passed[i] = Stages[i]
  <2>1. Progress
    BY DEF IInv
  <2>2. passed \in Seq(StageNames) /\ Len(passed) <= 6
    BY <2>1 DEF Progress
  <2>3. Len(passed) \in Nat
    BY <2>2
  <2>4. \A n \in Nat : n <= 6 => n \in 0..6
    OBVIOUS
  <2>5. Len(passed) \in 0..6
    BY <2>2, <2>3, <2>4
  <2> QED
    BY <2>1, <2>2, <2>5 DEF Progress
<1> DEFINE n == Len(passed)
           s == SubSeq(Stages, 1, n)
<1>2. /\ s \in Seq(StageNames) /\ Len(s) = n
      /\ \A i \in 1..n : s[i] = Stages[i]
  BY <1>1, StagesFacts
<1> HIDE DEF s
<1>3. passed = s
  BY <1>1, <1>2, SeqEqual
<1> QED
  BY <1>3 DEF IInv, Types, TypeOK, s

\* A returned feature has all stages behind it that its bucket asks for.
LEMMA InvVerified == IInv => ReturnedIsVerified
<1> SUFFICES ASSUME IInv, outcome = "returned" PROVE ReturnedIsVerified
  BY DEF ReturnedIsVerified
<1>1. /\ passed \in Seq(StageNames) /\ Len(passed) \in {5, 6}
      /\ \A i \in 1..Len(passed) : passed[i] = Stages[i]
      /\ Len(passed) = 5 => ~NeedsFormal
  <2>1. Progress
    BY DEF IInv
  <2>2. Len(passed) \in {5, 6} /\ (Len(passed) = 5 => ~NeedsFormal)
    BY <2>1 DEF Progress, NeedsFormal
  <2>3. passed \in Seq(StageNames) /\ \A i \in 1..Len(passed) : passed[i] = Stages[i]
    BY <2>1 DEF Progress
  <2> QED
    BY <2>2, <2>3
<1>2. {Stages[i] : i \in 1..5} \subseteq {passed[i] : i \in DOMAIN passed}
  <2>1. \A i \in 1..5 : i \in DOMAIN passed /\ passed[i] = Stages[i]
    BY <1>1
  <2> QED
    BY <2>1
<1>3. ASSUME bucket \in {"complex", "critical"} PROVE passed = Stages
  <2>1. NeedsFormal
    BY <1>3 DEF NeedsFormal
  <2>2. Len(passed) = 6
    BY <1>1, <2>1
  <2> QED
    BY <1>1, <2>2, StagesFacts, SeqEqual
<1>4. specHash # NoHash => judged = builtFrom
  BY DEF IInv, JudgedRight
<1> QED
  BY <1>2, <1>3, <1>4 DEF ReturnedIsVerified

\* The inductive invariant holds in every behaviour of the QA agent.
LEMMA Invariance == Spec => []IInv
BY InitInv, NextInv, PTL DEF Spec

\* Types, and the stages are passed in their order.
THEOREM TypeCorrect == Spec => []TypeOK
BY Invariance, InvTypes, PTL

\* A pass of QA stands for the stages the bucket calls for, begun on the
\* blueprint the code was generated from.
THEOREM PassesAreVerified == Spec => []ReturnedIsVerified
BY Invariance, InvVerified, PTL

\* Whatever a stage raises, what comes out has the severity it was raised with,
\* and a foreign exception the one of a transient failure.
THEOREM SeveritiesKept == Spec => []SeverityKept
<1>1. IInv => SeverityKept
  BY DEF IInv
<1> QED
  BY Invariance, <1>1, PTL
===============================================================================
