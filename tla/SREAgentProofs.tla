----------------------------- MODULE SREAgentProofs -----------------------------
(* Proofs about SREAgent and SREDecisions: types, the traces of revert         *)
(* protocols, the order of their reads, what a promotion after a fire drill    *)
(* rests on, and where the two implementations of a decision differ.           *)
EXTENDS SREDecisions, FiniteSetTheorems, WellFoundedInduction, TLAPS

\* A failing protocol is one of the two that raise RevertFailedError.
LEMMA Failing ==
    ASSUME NEW m \in Monitors, RevertRefused(m) \/ RevertUnverified(m)
    PROVE  /\ protocol[m].pc \in {"reverting", "verifying"}
           /\ RevertFails(m)
BY DEF RevertRefused, RevertUnverified

\* What the steps of the drills and the promotion leave alone.
LEMMA DrillFrame ==
    ASSUME NEW d \in Drills, DrillStep(d)
    PROVE  UNCHANGED <<production, incidents, protocol, error, orchestrator, counts>>
BY DEF DrillStep, StartDrill, FaultInjected, NotDetected, Detected, RevertMeasured,
       DrillRaises, EndDrill, feature

\* What the steps of the monitors leave alone.
LEMMA MonitorFrame ==
    ASSUME NEW m \in Monitors, DetectAnomaly(m) \/ ProtocolStep(m)
    PROVE  UNCHANGED <<production, drillResult, drill, orchestrator>>
BY Failing DEF DetectAnomaly, ProtocolStep, CaptureReturns, RevertExecuted,
       RevertVerified, ProtocolRaises, RevertFails, feature

-------------------------------------------------------------------------------
\* The records a drill goes through.
LEMMA DrillTypes ==
    /\ NoDrill \in DrillRuns
    /\ \A r \in DrillRuns : /\ [r EXCEPT !.pc = "injecting"] \in DrillRuns
                            /\ [r EXCEPT !.pc = "detecting"] \in DrillRuns
                            /\ r.detection \in Times \cup {None}
    /\ \A t \in Times \cup {None} : [pc |-> "reverting", detection |-> t] \in DrillRuns
BY DEF DrillRuns, NoDrill, None

\* One monitor's protocol is replaced by a well-typed one.
LEMMA ProtocolReplaced ==
    ASSUME TypeOK, NEW m \in Monitors, NEW p \in Protocols,
           p.pc # "idle" => p.trigger \in MetricNames,
           protocol' = [protocol EXCEPT ![m] = p]
    PROVE  /\ protocol' \in [Monitors -> Protocols]
           /\ \A n \in Monitors : protocol'[n].pc # "idle" => protocol'[n].trigger \in MetricNames
BY DEF TypeOK

\* A step of a monitor keeps the types of what monitors write.
LEMMA MonitorTypes ==
    ASSUME TypeOK, NEW m \in Monitors, DetectAnomaly(m) \/ ProtocolStep(m)
    PROVE  /\ incidents' \in Seq(MetricNames)
           /\ protocol' \in [Monitors -> Protocols]
           /\ \A n \in Monitors : protocol'[n].pc # "idle" => protocol'[n].trigger \in MetricNames
           /\ error' \in [Monitors -> SUBSET Errors]
           /\ began' \in 0..MaxProtocols /\ failed' \in Nat /\ crashed' \in Nat
<1> USE BoundsAssumption
<1>1. /\ protocol[m] \in Protocols /\ production \in Nat
      /\ protocol[m].target \in Nat /\ protocol[m].anomalyOn \in Nat
  BY DEF TypeOK, Protocols
<1>2. CASE DetectAnomaly(m)
  <2>1. PICK metric \in MetricNames : protocol' = [protocol EXCEPT ![m] =
            [pc |-> "capturing", trigger |-> metric, target |-> 0,
             anomalyOn |-> production]]
    BY <1>2 DEF DetectAnomaly
  <2> DEFINE p == [pc |-> "capturing", trigger |-> metric, target |-> 0,
                   anomalyOn |-> production]
  <2>2. p \in Protocols /\ p.trigger \in MetricNames
    BY <1>1 DEF Protocols
  <2>3. protocol' = [protocol EXCEPT ![m] = p]
    BY <2>1
  <2> HIDE DEF p
  <2>4. /\ protocol' \in [Monitors -> Protocols]
        /\ \A n \in Monitors : protocol'[n].pc # "idle" => protocol'[n].trigger \in MetricNames
    BY <2>2, <2>3, ProtocolReplaced
  <2>5. error' \in [Monitors -> SUBSET Errors]
    BY <1>2 DEF DetectAnomaly, TypeOK
  <2>6. began' \in 0..MaxProtocols
    BY <1>2 DEF DetectAnomaly, TypeOK
  <2> QED
    BY <1>2, <2>4, <2>5, <2>6 DEF DetectAnomaly, TypeOK, feature
<1>3. ASSUME NEW t \in Nat, NEW pc \in {"reverting", "verifying"},
             protocol[m].pc # "idle",
             protocol' = [protocol EXCEPT ![m].pc = pc, ![m].target = t]
      PROVE  /\ protocol' \in [Monitors -> Protocols]
             /\ \A n \in Monitors : protocol'[n].pc # "idle" => protocol'[n].trigger \in MetricNames
  <2> DEFINE p == [protocol[m] EXCEPT !.pc = pc, !.target = t]
  <2>1. p \in Protocols
    BY <1>1 DEF Protocols
  <2>2. p.trigger = protocol[m].trigger
    BY <1>1 DEF Protocols
  <2>3. p.trigger \in MetricNames
    BY <1>3, <2>2 DEF TypeOK
  <2>4. protocol' = [protocol EXCEPT ![m] = p]
    BY <1>3 DEF TypeOK
  <2> HIDE DEF p
  <2> QED
    BY <2>1, <2>3, <2>4, ProtocolReplaced
<1>4. CASE CaptureReturns(m)
  <2>1. /\ protocol' \in [Monitors -> Protocols]
        /\ \A n \in Monitors : protocol'[n].pc # "idle" => protocol'[n].trigger \in MetricNames
    BY <1>1, <1>3, <1>4 DEF CaptureReturns
  <2> QED
    BY <1>4, <2>1 DEF CaptureReturns, TypeOK, feature, counts
<1>5. CASE RevertExecuted(m)
  <2>1. protocol' = [protocol EXCEPT ![m].pc = "verifying", ![m].target = protocol[m].target]
    BY <1>1, <1>5 DEF RevertExecuted, TypeOK, Protocols
  <2>2. /\ protocol' \in [Monitors -> Protocols]
        /\ \A n \in Monitors : protocol'[n].pc # "idle" => protocol'[n].trigger \in MetricNames
    BY <1>1, <1>3, <1>5, <2>1 DEF RevertExecuted
  <2> QED
    BY <1>5, <2>2 DEF RevertExecuted, TypeOK, feature, counts
<1>6. ASSUME Leave(m)
      PROVE  /\ protocol' \in [Monitors -> Protocols]
             /\ \A n \in Monitors : protocol'[n].pc # "idle" => protocol'[n].trigger \in MetricNames
  <2>1. NoProtocol \in Protocols /\ NoProtocol.pc = "idle"
    BY DEF NoProtocol, Protocols
  <2> QED
    BY <1>6, <2>1, ProtocolReplaced DEF Leave
<1>7. CASE RevertRefused(m) \/ RevertUnverified(m)
  <2>1. RevertFails(m)
    BY <1>7, Failing
  <2>2. Leave(m)
    BY <2>1 DEF RevertFails
  <2>3. [deployment |-> production, target |-> protocol[m].target,
         anomalyOn |-> protocol[m].anomalyOn] \in Errors
    BY <1>1 DEF Errors
  <2>4. error' \in [Monitors -> SUBSET Errors]
    BY <2>1, <2>3 DEF RevertFails, TypeOK
  <2> QED
    BY <2>1, <1>6, <2>2, <2>4 DEF RevertFails, TypeOK, feature
<1>8. CASE RevertVerified(m)
  <2>1. protocol[m].trigger \in MetricNames
    BY <1>8 DEF RevertVerified, TypeOK
  <2>2. incidents' \in Seq(MetricNames)
    BY <1>8, <2>1 DEF RevertVerified, Report, TypeOK
  <2>3. Leave(m)
    BY <1>8 DEF RevertVerified
  <2> QED
    BY <1>8, <1>6, <2>2, <2>3 DEF RevertVerified, TypeOK, counts
<1>9. CASE ProtocolRaises(m)
  <2>1. Leave(m)
    BY <1>9 DEF ProtocolRaises
  <2> QED
    BY <1>9, <1>6, <2>1 DEF ProtocolRaises, TypeOK, feature
<1> QED
  BY <1>2, <1>4, <1>5, <1>7, <1>8, <1>9 DEF ProtocolStep

\* A step of a drill keeps the types of what drills write.
LEMMA DrillStepTypes ==
    ASSUME TypeOK, NEW d \in Drills, DrillStep(d)
    PROVE  /\ drillResult' \subseteq DrillResults /\ (\A r, s \in drillResult' : r = s)
           /\ drill' \in [Drills -> DrillRuns]
<1>1. drill[d] \in DrillRuns
  BY DEF TypeOK
<1>2. ASSUME NEW detection \in Times \cup {None}, NEW revert \in Times \cup {None, 0},
             NEW passed \in BOOLEAN, EndDrill(d, detection, revert, passed)
      PROVE  /\ drillResult' \subseteq DrillResults /\ (\A r, s \in drillResult' : r = s)
             /\ drill' \in [Drills -> DrillRuns]
  <2> DEFINE result == [detection |-> detection, revert |-> revert, passed |-> passed]
  <2>1. result \in DrillResults /\ drillResult' = {result}
    BY <1>2 DEF DrillResults, EndDrill
  <2> HIDE DEF result
  <2>2. drillResult' \subseteq DrillResults /\ (\A r, s \in drillResult' : r = s)
    BY <2>1
  <2>3. drill' \in [Drills -> DrillRuns]
    BY <1>2, DrillTypes DEF EndDrill, TypeOK
  <2> QED
    BY <2>2, <2>3
<1>3. CASE StartDrill(d) \/ FaultInjected(d) \/ DrillRaises(d)
  BY <1>1, <1>3, DrillTypes DEF StartDrill, FaultInjected, DrillRaises, TypeOK, feature
<1>4. CASE NotDetected(d)
  <2>1. PICK time \in Times \cup {None} : EndDrill(d, time, 0, FALSE)
    BY <1>4 DEF NotDetected
  <2> QED
    BY <1>2, <2>1
<1>5. CASE Detected(d)
  BY <1>5, DrillTypes DEF Detected, TypeOK, feature
<1>6. CASE RevertMeasured(d)
  <2>1. PICK time \in Times \cup {None}, passed \in BOOLEAN :
            EndDrill(d, drill[d].detection, time, passed)
    BY <1>6 DEF RevertMeasured
  <2>2. drill[d].detection \in Times \cup {None}
    BY <1>1, DrillTypes
  <2> QED
    BY <1>2, <2>1, <2>2
<1> QED
  BY <1>3, <1>4, <1>5, <1>6 DEF DrillStep

\* No protocol and no drill runs at first.
LEMMA InitTypes == Init => TypeOK
<1> SUFFICES ASSUME Init PROVE TypeOK
  OBVIOUS
<1>1. NoProtocol \in Protocols /\ NoProtocol.pc = "idle"
  BY DEF NoProtocol, Protocols
<1>2. drillResult \subseteq DrillResults /\ (\A r, s \in drillResult : r = s)
  BY DEF Init
<1> QED
  BY <1>1, <1>2, DrillTypes, BoundsAssumption DEF Init, TypeOK

\* Monitors, drills and promotions keep the types.
LEMMA NextTypes == TypeOK /\ [Next]_vars => TypeOK'
<1> SUFFICES ASSUME TypeOK, [Next]_vars PROVE TypeOK'
  OBVIOUS
<1>1. ASSUME NEW m \in Monitors, DetectAnomaly(m) \/ ProtocolStep(m) PROVE TypeOK'
  <2>1. UNCHANGED <<production, drillResult, drill, release, judged>>
    BY <1>1, MonitorFrame DEF orchestrator
  <2>2. /\ incidents' \in Seq(MetricNames)
        /\ protocol' \in [Monitors -> Protocols]
        /\ \A n \in Monitors : protocol'[n].pc # "idle" => protocol'[n].trigger \in MetricNames
        /\ error' \in [Monitors -> SUBSET Errors]
        /\ began' \in 0..MaxProtocols /\ failed' \in Nat /\ crashed' \in Nat
    BY <1>1, MonitorTypes
  <2> QED
    BY <2>1, <2>2 DEF TypeOK
<1>2. ASSUME NEW d \in Drills, DrillStep(d) PROVE TypeOK'
  <2>1. UNCHANGED <<production, incidents, protocol, error, release, judged, counts>>
    BY <1>2, DrillFrame DEF orchestrator
  <2>2. /\ drillResult' \subseteq DrillResults /\ (\A r, s \in drillResult' : r = s)
        /\ drill' \in [Drills -> DrillRuns]
    BY <1>2, DrillStepTypes
  <2> QED
    BY <2>1, <2>2 DEF TypeOK, counts
<1>3. CASE PassGate
  BY <1>3 DEF PassGate, TypeOK, feature, counts
<1>4. CASE ProductionPhaseEnds
  <2>1. production' \in 0..MaxDeployments
    BY <1>4, BoundsAssumption DEF ProductionPhaseEnds, TypeOK
  <2> QED
    BY <1>4, <2>1 DEF ProductionPhaseEnds, TypeOK, counts
<1>5. CASE UNCHANGED vars
  BY <1>5 DEF vars, feature, orchestrator, counts, TypeOK
<1> QED
  BY <1>1, <1>2, <1>3, <1>4, <1>5 DEF Next

\* Every state the agent reaches is well-typed, for all thresholds, timeouts and
\* numbers of monitors and drills.
THEOREM TypeCorrect == Spec => []TypeOK
BY InitTypes, NextTypes, PTL DEF Spec

-------------------------------------------------------------------------------
\* Protocols that begin and end count among the active ones.
LEMMA BecomesActive ==
    ASSUME TypeOK, NEW m \in Monitors, protocol[m].pc = "idle", NEW p, p.pc # "idle",
           protocol' = [protocol EXCEPT ![m] = p]
    PROVE  Cardinality(Active') = Cardinality(Active) + 1
<1>1. Active' = Active \cup {m} /\ m \notin Active
  BY DEF Active, TypeOK
<1>2. IsFiniteSet(Active)
  BY MonitorsAssumption, FS_Subset DEF Active
<1> QED
  BY <1>1, <1>2, FS_AddElement

\* A protocol that ends is one active monitor less.
LEMMA BecomesIdle ==
    ASSUME TypeOK, NEW m \in Monitors, protocol[m].pc # "idle", Leave(m)
    PROVE  Cardinality(Active') = Cardinality(Active) - 1
<1>1. Active' = Active \ {m} /\ m \in Active
  BY DEF Active, TypeOK, Leave, NoProtocol
<1>2. IsFiniteSet(Active)
  BY MonitorsAssumption, FS_Subset DEF Active
<1> QED
  BY <1>1, <1>2, FS_RemoveElement

\* The active monitors can be counted.
LEMMA ActiveFinite == IsFiniteSet(Active) /\ Cardinality(Active) \in Nat
BY MonitorsAssumption, FS_Subset, FS_CardinalityType DEF Active

\* No protocol has begun.
LEMMA InitAccounted == Init => EveryProtocolAccounted
<1> SUFFICES ASSUME Init PROVE EveryProtocolAccounted
  OBVIOUS
<1>1. Active = {}
  BY DEF Init, Active, NoProtocol
<1>2. Cardinality(Active) = 0
  BY <1>1, FS_EmptySet
<1> QED
  BY <1>2 DEF Init, EveryProtocolAccounted

\* Whatever ends a protocol leaves one trace of it.
LEMMA NextAccounted ==
    TypeOK /\ EveryProtocolAccounted /\ [Next]_vars => EveryProtocolAccounted'
<1> SUFFICES ASSUME TypeOK, EveryProtocolAccounted, [Next]_vars
             PROVE  EveryProtocolAccounted'
  OBVIOUS
<1>1. /\ began \in Nat /\ failed \in Nat /\ crashed \in Nat /\ Len(incidents) \in Nat
      /\ Cardinality(Active) \in Nat
      /\ began = Len(incidents) + failed + crashed + Cardinality(Active)
  BY ActiveFinite, BoundsAssumption DEF TypeOK, EveryProtocolAccounted
<1>2. ASSUME NEW m \in Monitors, DetectAnomaly(m) PROVE EveryProtocolAccounted'
  <2>1. PICK metric : protocol' = [protocol EXCEPT ![m] =
            [pc |-> "capturing", trigger |-> metric, target |-> 0,
             anomalyOn |-> production]]
    BY <1>2 DEF DetectAnomaly
  <2> DEFINE p == [pc |-> "capturing", trigger |-> metric, target |-> 0,
                   anomalyOn |-> production]
  <2>2. p.pc # "idle" /\ protocol' = [protocol EXCEPT ![m] = p]
    BY <2>1
  <2> HIDE DEF p
  <2>3. Cardinality(Active') = Cardinality(Active) + 1
    BY <1>2, <2>2, BecomesActive DEF DetectAnomaly
  <2>4. began' = began + 1 /\ UNCHANGED <<incidents, failed, crashed>>
    BY <1>2 DEF DetectAnomaly, feature
  <2> QED
    BY <1>1, <2>3, <2>4 DEF EveryProtocolAccounted
<1>3. ASSUME NEW m \in Monitors, CaptureReturns(m) \/ RevertExecuted(m)
      PROVE  EveryProtocolAccounted'
  <2>1. Active' = Active
    BY <1>3 DEF CaptureReturns, RevertExecuted, Active, TypeOK, Protocols
  <2>2. UNCHANGED <<incidents, began, failed, crashed>>
    BY <1>3 DEF CaptureReturns, RevertExecuted, feature, counts
  <2> QED
    BY <1>1, <2>1, <2>2 DEF EveryProtocolAccounted
<1>4. ASSUME NEW m \in Monitors, RevertRefused(m) \/ RevertUnverified(m)
      PROVE  EveryProtocolAccounted'
  <2>1. RevertFails(m)
    BY <1>4, Failing
  <2>2. protocol[m].pc # "idle" /\ Leave(m)
    BY <1>4, <2>1, Failing DEF RevertFails
  <2>3. Cardinality(Active') = Cardinality(Active) - 1
    BY <2>2, BecomesIdle
  <2>4. failed' = failed + 1 /\ UNCHANGED <<incidents, began, crashed>>
    BY <2>1 DEF RevertFails, feature
  <2> QED
    BY <1>1, <2>3, <2>4 DEF EveryProtocolAccounted
<1>5. ASSUME NEW m \in Monitors, RevertVerified(m) PROVE EveryProtocolAccounted'
  <2>1. protocol[m].pc # "idle" /\ Leave(m)
    BY <1>5 DEF RevertVerified
  <2>2. Cardinality(Active') = Cardinality(Active) - 1
    BY <2>1, BecomesIdle
  <2>3. Len(incidents') = Len(incidents) + 1
    BY <1>5 DEF RevertVerified, Report, TypeOK
  <2>4. UNCHANGED <<began, failed, crashed>>
    BY <1>5 DEF RevertVerified, counts
  <2> QED
    BY <1>1, <2>2, <2>3, <2>4 DEF EveryProtocolAccounted
<1>6. ASSUME NEW m \in Monitors, ProtocolRaises(m) PROVE EveryProtocolAccounted'
  <2>1. protocol[m].pc # "idle" /\ Leave(m)
    BY <1>6 DEF ProtocolRaises
  <2>2. Cardinality(Active') = Cardinality(Active) - 1
    BY <2>1, BecomesIdle
  <2>3. crashed' = crashed + 1 /\ UNCHANGED <<incidents, began, failed>>
    BY <1>6 DEF ProtocolRaises, feature
  <2> QED
    BY <1>1, <2>2, <2>3 DEF EveryProtocolAccounted
<1>7. ASSUME UNCHANGED <<incidents, protocol, counts>> PROVE EveryProtocolAccounted'
  BY <1>1, <1>7 DEF EveryProtocolAccounted, Active, counts
<1>8. CASE \E d \in Drills : DrillStep(d)
  BY <1>8, <1>7, DrillFrame
<1>9. CASE PassGate \/ ProductionPhaseEnds \/ UNCHANGED vars
  BY <1>9, <1>7 DEF PassGate, ProductionPhaseEnds, vars, feature
<1> QED
  BY <1>2, <1>3, <1>4, <1>5, <1>6, <1>8, <1>9 DEF Next, ProtocolStep

\* Each revert protocol leaves one report, one RevertFailedError or one exception
\* of the infrastructure, however many run at once on one feature.
THEOREM TracesOfReverts == Spec => []EveryProtocolAccounted
<1>1. Init => TypeOK /\ EveryProtocolAccounted
  BY InitTypes, InitAccounted
<1>2. TypeOK /\ EveryProtocolAccounted /\ [Next]_vars => (TypeOK /\ EveryProtocolAccounted)'
  BY NextTypes, NextAccounted
<1> QED
  BY <1>1, <1>2, PTL DEF Spec

-------------------------------------------------------------------------------
\* ReadsInOrder, and what it rests on: no protocol was begun on a deployment
\* later than the one in production.
Reads ==
    /\ TypeOK
    /\ ReadsInOrder
    /\ \A m \in Monitors : protocol[m].pc # "idle" => protocol[m].anomalyOn <= production

\* A monitor's part of Reads after a step that does not promote.
ReadsOf(m) ==
    /\ protocol[m].pc # "idle" => protocol[m].anomalyOn <= production
    /\ protocol[m].pc \in {"reverting", "verifying"} =>
          protocol[m].anomalyOn <= protocol[m].target /\ protocol[m].target <= production
    /\ \A e \in error[m] :
          e.anomalyOn <= e.target /\ e.target <= e.deployment /\ e.deployment <= production

\* The invariant is about one monitor at a time.
LEMMA ReadsOfAll == Reads <=> TypeOK /\ \A m \in Monitors : ReadsOf(m)
BY DEF Reads, ReadsInOrder, ReadsOf

\* One monitor's step does not touch the reads of another.
LEMMA ReadsElsewhere ==
    ASSUME TypeOK, NEW m \in Monitors, NEW n \in Monitors \ {m}, ReadsOf(n),
           DetectAnomaly(m) \/ ProtocolStep(m)
    PROVE  ReadsOf(n)'
<1>1. production' = production
  BY MonitorFrame
<1>2. protocol'[n] = protocol[n] /\ error'[n] = error[n]
  BY Failing DEF TypeOK, DetectAnomaly, ProtocolStep, CaptureReturns, RevertExecuted,
       RevertVerified, ProtocolRaises, RevertFails, Leave
<1> QED
  BY <1>1, <1>2 DEF ReadsOf

\* A monitor reads the deployment in production, which is not older than what it read before.
LEMMA ReadsHere ==
    ASSUME TypeOK, NEW m \in Monitors, ReadsOf(m), DetectAnomaly(m) \/ ProtocolStep(m)
    PROVE  ReadsOf(m)'
<1>1. /\ production' = production /\ production \in Nat
      /\ protocol[m].target \in Nat /\ protocol[m].anomalyOn \in Nat
  BY MonitorFrame DEF TypeOK, Protocols
<1>2. CASE DetectAnomaly(m)
  <2>1. error'[m] = {}
    BY <1>2 DEF DetectAnomaly, TypeOK
  <2>2. protocol'[m].pc = "capturing" /\ protocol'[m].anomalyOn = production
    BY <1>2 DEF DetectAnomaly, TypeOK
  <2> QED
    BY <1>1, <2>1, <2>2 DEF ReadsOf
<1>3. CASE CaptureReturns(m)
  <2>1. /\ protocol'[m].anomalyOn = protocol[m].anomalyOn
        /\ protocol'[m].target = production
        /\ protocol[m].pc # "idle" /\ error' = error
    BY <1>3 DEF CaptureReturns, TypeOK, Protocols
  <2> QED
    BY <1>1, <2>1 DEF ReadsOf
<1>4. CASE RevertExecuted(m)
  <2>1. /\ protocol'[m].anomalyOn = protocol[m].anomalyOn
        /\ protocol'[m].target = protocol[m].target
        /\ protocol[m].pc = "reverting" /\ error' = error
    BY <1>4 DEF RevertExecuted, TypeOK, Protocols
  <2> QED
    BY <1>1, <2>1 DEF ReadsOf
<1>5. ASSUME Leave(m), error' = error PROVE ReadsOf(m)'
  <2>1. protocol'[m].pc = "idle"
    BY <1>5 DEF Leave, NoProtocol, TypeOK
  <2> QED
    BY <1>1, <1>5, <2>1 DEF ReadsOf
<1>6. CASE RevertRefused(m) \/ RevertUnverified(m)
  <2>1. RevertFails(m)
    BY <1>6, Failing
  <2>2. protocol'[m].pc = "idle"
    BY <2>1 DEF RevertFails, Leave, NoProtocol, TypeOK
  <2>3. error'[m] = {[deployment |-> production, target |-> protocol[m].target,
                      anomalyOn |-> protocol[m].anomalyOn]}
    BY <2>1 DEF RevertFails, TypeOK
  <2>4. protocol[m].anomalyOn <= protocol[m].target /\ protocol[m].target <= production
    BY <1>6, Failing DEF ReadsOf
  <2>5. \A e \in error'[m] :
            e.anomalyOn <= e.target /\ e.target <= e.deployment /\ e.deployment <= production
    BY <1>1, <2>3, <2>4
  <2> QED
    BY <1>1, <2>2, <2>5 DEF ReadsOf
<1>7. CASE RevertVerified(m) \/ ProtocolRaises(m)
  BY <1>5, <1>7 DEF RevertVerified, ProtocolRaises
<1> QED
  BY <1>2, <1>3, <1>4, <1>6, <1>7 DEF ProtocolStep

\* Nothing has been read yet.
LEMMA InitReads == Init => Reads
<1> SUFFICES ASSUME Init PROVE Reads
  OBVIOUS
<1>1. \A m \in Monitors : protocol[m].pc = "idle" /\ error[m] = {}
  BY DEF Init, NoProtocol
<1> QED
  BY <1>1, InitTypes DEF Reads, ReadsInOrder

\* A monitor reads; a promotion only makes production newer.
LEMMA NextReads == Reads /\ [Next]_vars => Reads'
<1> SUFFICES ASSUME Reads, [Next]_vars PROVE Reads'
  OBVIOUS
<1>1. TypeOK /\ TypeOK' /\ \A m \in Monitors : ReadsOf(m)
  BY ReadsOfAll, NextTypes
<1>2. SUFFICES ASSUME NEW n \in Monitors PROVE ReadsOf(n)'
  BY <1>1 DEF Reads, ReadsInOrder, ReadsOf
<1>3. ASSUME NEW m \in Monitors, DetectAnomaly(m) \/ ProtocolStep(m) PROVE ReadsOf(n)'
  <2>1. CASE m = n
    BY <1>1, <1>3, <2>1, ReadsHere
  <2>2. CASE m # n
    BY <1>1, <1>3, <2>2, ReadsElsewhere
  <2> QED
    BY <2>1, <2>2
<1>4. ASSUME UNCHANGED <<production, protocol, error>> PROVE ReadsOf(n)'
  BY <1>1, <1>4 DEF ReadsOf
<1>5. CASE \E d \in Drills : DrillStep(d)
  BY <1>4, <1>5, DrillFrame
<1>6. CASE ProductionPhaseEnds
  <2>1. /\ production \in Nat /\ production' \in {production, production + 1}
        /\ UNCHANGED <<protocol, error>>
    BY <1>1, <1>6 DEF ProductionPhaseEnds, TypeOK
  <2>2. protocol[n].target \in Nat /\ protocol[n].anomalyOn \in Nat
    BY <1>1 DEF TypeOK, Protocols
  <2>3. \A e \in error[n] : e.deployment \in Nat
    BY <1>1 DEF TypeOK, Errors
  <2> QED
    BY <1>1, <2>1, <2>2, <2>3 DEF ReadsOf
<1>7. CASE PassGate \/ UNCHANGED vars
  BY <1>4, <1>7 DEF PassGate, vars, feature
<1> QED
  BY <1>3, <1>5, <1>6, <1>7 DEF Next

\* A protocol never reverts a deployment older than the one the anomaly was seen
\* on, and its error never names one older than it reverted.
THEOREM OrderOfReads == Spec => []ReadsInOrder
<1>1. Reads => ReadsInOrder
  BY DEF Reads
<1> QED
  BY <1>1, InitReads, NextReads, PTL DEF Spec

-------------------------------------------------------------------------------
\* A passed result was measured in time, and so were the detection of a drill that
\* measures its revert and the result that the gate has let through.
DrillsInTime ==
    /\ \A r \in drillResult : r.passed =>
          r.detection \in 0..DetectionTimeout /\ r.revert \in 0..RevertTimeout
    /\ \A d \in Drills : drill[d].pc = "reverting" =>
          drill[d].detection \in 0..DetectionTimeout
    /\ \A r \in judged :
          r.detection \in 0..DetectionTimeout /\ r.revert \in 0..RevertTimeout

\* What is not too slow was measured and is within its timeout.
LEMMA InTime ==
    ASSUME NEW timeout \in Nat, NEW time \in Times \cup {None}, ~TooSlow(time, timeout)
    PROVE  time \in 0..timeout
BY ValuesAssumption DEF TooSlow, None

\* A drill passes on to the revert, and to a passed result, in time only.
LEMMA DrillsStay ==
    ASSUME TypeOK, DrillsInTime, NEW d \in Drills, DrillStep(d)
    PROVE  DrillsInTime'
<1>0. judged' = judged
  BY DrillFrame DEF orchestrator
<1>1. ASSUME NEW detection, NEW revert, EndDrill(d, detection, revert, FALSE)
      PROVE  DrillsInTime'
  BY <1>0, <1>1 DEF EndDrill, DrillsInTime, NoDrill, TypeOK
<1>2. CASE StartDrill(d) \/ FaultInjected(d) \/ DrillRaises(d)
  BY <1>0, <1>2 DEF StartDrill, FaultInjected, DrillRaises, DrillsInTime, NoDrill, TypeOK,
              DrillRuns, feature
<1>3. CASE NotDetected(d)
  BY <1>1, <1>3 DEF NotDetected
<1>4. CASE Detected(d)
  <2>1. PICK time \in Times \cup {None} :
            /\ ~TooSlow(time, DetectionTimeout)
            /\ drill' = [drill EXCEPT ![d] = [pc |-> "reverting", detection |-> time]]
    BY <1>4 DEF Detected
  <2>2. time \in 0..DetectionTimeout
    BY <2>1, InTime, TimeoutsAssumption
  <2> QED
    BY <1>0, <1>4, <2>1, <2>2 DEF Detected, DrillsInTime, TypeOK, feature
<1>5. CASE RevertMeasured(d)
  <2>1. PICK time \in Times \cup {None} :
            \/ EndDrill(d, drill[d].detection, time, FALSE)
            \/ /\ ~TooSlow(time, RevertTimeout)
               /\ EndDrill(d, drill[d].detection, time, TRUE)
    BY <1>5 DEF RevertMeasured
  <2>2. CASE ~TooSlow(time, RevertTimeout) /\ EndDrill(d, drill[d].detection, time, TRUE)
    <3>1. time \in 0..RevertTimeout
      BY <2>2, InTime, TimeoutsAssumption
    <3>2. drill[d].detection \in 0..DetectionTimeout
      BY <1>5 DEF RevertMeasured, DrillsInTime
    <3> QED
      BY <1>0, <2>2, <3>1, <3>2 DEF EndDrill, DrillsInTime, NoDrill, TypeOK
  <2> QED
    BY <1>1, <2>1, <2>2
<1> QED
  BY <1>2, <1>3, <1>4, <1>5 DEF DrillStep

\* Only drills and the gate write what DrillsInTime is about.
LEMMA NextDrills == TypeOK /\ DrillsInTime /\ [Next]_vars => DrillsInTime'
<1> SUFFICES ASSUME TypeOK, DrillsInTime, [Next]_vars PROVE DrillsInTime'
  OBVIOUS
<1>1. ASSUME UNCHANGED <<drillResult, drill, judged>> PROVE DrillsInTime'
  BY <1>1 DEF DrillsInTime
<1>2. CASE \E m \in Monitors : DetectAnomaly(m) \/ ProtocolStep(m)
  BY <1>1, <1>2, MonitorFrame DEF orchestrator
<1>3. CASE ProductionPhaseEnds \/ UNCHANGED vars
  BY <1>1, <1>3 DEF ProductionPhaseEnds, vars, feature, orchestrator
<1>4. CASE PassGate
  BY <1>4 DEF PassGate, GateOpen, DrillsInTime, feature
<1> QED
  BY <1>2, <1>3, <1>4, DrillsStay DEF Next

\* Every result and every measured detection is in time, in every behaviour.
THEOREM DrillTimes == Spec => [](TypeOK /\ DrillsInTime)
<1>1. Init => TypeOK /\ DrillsInTime
  BY InitTypes DEF Init, DrillsInTime, NoDrill
<1>2. TypeOK /\ DrillsInTime /\ [Next]_vars => (TypeOK /\ DrillsInTime)'
  BY NextTypes, NextDrills
<1> QED
  BY <1>1, <1>2, PTL DEF Spec

\* Whatever drills overlap, fail or raise, also between the gate and the end of
\* the production phase, the result that let a promotion through is of a drill
\* whose detection and revert were measured within their timeouts.
THEOREM PromotionsAfterDrills == Spec => PromotionWithinTimes
<1>1. TypeOK /\ DrillsInTime /\ [Next]_vars =>
         [production' # production =>
            \A r \in judged : /\ r.detection \in 0..DetectionTimeout
                              /\ r.revert \in 0..RevertTimeout]_vars
  BY DEF DrillsInTime
<1> QED
  BY <1>1, DrillTimes, PTL DEF Spec, PromotionWithinTimes

-------------------------------------------------------------------------------
\* A set of numbers that is not empty has a least one.
LEMMA LeastNumber ==
    ASSUME NEW S, S \subseteq Nat, S # {}
    PROVE  \E i \in S : \A j \in S : i <= j
<1>1. PICK i \in S : \A j \in S : <<j, i>> \notin OpToRel(<, Nat)
  BY NatLessThanWellFounded, WFMin
<1>2. \A j \in S : ~(j < i)
  BY <1>1 DEF OpToRel
<1> QED
  BY <1>2

\* A reading is a number, also where there is none.
LEMMA ReadingType ==
    ASSUME NEW readings \in [MetricNames -> Readings \cup {None}],
           NEW x \in MetricNames
    PROVE  readings[x] \in Int
<1>1. readings[x] \in Readings \cup {None}
  OBVIOUS
<1>2. Readings \subseteq Int /\ None \in Int
  BY ValuesAssumption DEF None
<1> QED
  BY <1>1, <1>2

\* What a metric at position i is, and what its reading and its limit are.
LEMMA Compared ==
    ASSUME NEW readings \in [MetricNames -> Readings \cup {None}]
    PROVE  /\ DOMAIN Metrics \subseteq Nat
           /\ \A i \in DOMAIN Metrics : \A j \in 1..(i - 1) : j \in DOMAIN Metrics
           /\ \A i \in DOMAIN Metrics :
                 /\ Metrics[i] \in MetricNames
                 /\ readings[Metrics[i]] \in Int
                 /\ Limits[Metrics[i]] \in Nat /\ Limits[Metrics[i]] > 0
<1>1. \A i \in DOMAIN Metrics : Metrics[i] \in MetricNames
  BY DEF MetricNames
<1>2. \A x \in MetricNames : readings[x] \in Int
  BY ReadingType
<1>3. \A x \in MetricNames : Limits[x] \in Nat /\ Limits[x] > 0
  BY MetricsAssumption, ThresholdsAssumption
<1>4. DOMAIN Metrics = 1..Len(Metrics) /\ Len(Metrics) \in Nat
  BY MetricsAssumption
<1> QED
  BY <1>1, <1>2, <1>3, <1>4

\* thresholds.py compares the same numbers: a metric that is missing is not
\* over its limit, and 0 has not reached it.
LEMMA ReachedIsAtLeast ==
    ASSUME NEW readings \in [MetricNames -> Readings \cup {None}],
           NEW x \in MetricNames
    PROVE  Reached(Snapshot(readings)[x], Limits[x]) <=> readings[x] >= Limits[x]
<1>1. readings[x] \in Int /\ Limits[x] \in Nat /\ Limits[x] > 0
  BY MetricsAssumption, ThresholdsAssumption, ReadingType
<1>2. Snapshot(readings)[x] = IF readings[x] = None /\ x # Latency THEN 0 ELSE readings[x]
  BY DEF Snapshot
<1> QED
  BY <1>1, <1>2 DEF Reached, None

\* Some metric at or over its limit: thresholds.py decides for the first one.
LEMMA RevertsAtFirst ==
    ASSUME NEW readings \in [MetricNames -> Readings \cup {None}],
           NEW i \in DOMAIN Metrics, readings[Metrics[i]] >= Limits[Metrics[i]]
    PROVE  \E k \in DOMAIN Metrics :
              /\ k <= i
              /\ readings[Metrics[k]] >= Limits[Metrics[k]]
              /\ Reverts(readings, Metrics[k])
<1> DEFINE S == {k \in DOMAIN Metrics : readings[Metrics[k]] >= Limits[Metrics[k]]}
<1>1. S \subseteq Nat /\ i \in S
  BY Compared
<1>2. PICK k \in S : \A j \in S : k <= j
  <2> HIDE DEF S
  <2> QED BY <1>1, LeastNumber
<1>3. k \in DOMAIN Metrics /\ readings[Metrics[k]] >= Limits[Metrics[k]] /\ k <= i
  BY <1>1, <1>2
<1>4. \A j \in 1..(k - 1) : j \in DOMAIN Metrics /\ j \notin S
  <2>1. \A j \in 1..(k - 1) : ~(k <= j)
    BY <1>1, <1>2
  <2> QED BY <2>1, <1>2, <1>3, Compared
<1>5. \A j \in 1..(k - 1) : ~Reached(Snapshot(readings)[Metrics[j]], Limits[Metrics[j]])
  BY <1>4, Compared, ReachedIsAtLeast
<1>6. Reached(Snapshot(readings)[Metrics[k]], Limits[Metrics[k]])
  BY <1>3, Compared, ReachedIsAtLeast
<1>7. Reverts(readings, Metrics[k])
  BY <1>3, <1>5, <1>6 DEF Reverts
<1> QED
  BY <1>3, <1>7

\* Some metric over its limit: the agent signals for the first one.
LEMMA SignalsAtFirst ==
    ASSUME NEW readings \in [MetricNames -> Readings \cup {None}],
           NEW i \in DOMAIN Metrics, readings[Metrics[i]] > Limits[Metrics[i]]
    PROVE  \E x \in MetricNames : Signals(readings, x)
<1> DEFINE S == {k \in DOMAIN Metrics : readings[Metrics[k]] > Limits[Metrics[k]]}
<1>1. S \subseteq Nat /\ i \in S
  BY Compared
<1>2. PICK k \in S : \A j \in S : k <= j
  <2> HIDE DEF S
  <2> QED BY <1>1, LeastNumber
<1>3. \A j \in 1..(k - 1) : j \in DOMAIN Metrics /\ j \notin S
  <2>1. \A j \in 1..(k - 1) : ~(k <= j)
    BY <1>1, <1>2
  <2> QED BY <2>1, <1>2, Compared
<1>4. \A j \in 1..(k - 1) : readings[Metrics[j]] <= Limits[Metrics[j]]
  BY <1>3, Compared
<1>5. Signals(readings, Metrics[k])
  BY <1>2, <1>4 DEF Signals
<1> QED
  BY <1>2, <1>5, Compared

\* The two detectors, for any readings: a reading exactly at its limit makes the
\* whole difference.
LEMMA Detectors == DetectorsAgree
<1> SUFFICES ASSUME NEW readings \in [MetricNames -> Readings \cup {None}]
             PROVE  /\ \A x \in MetricNames : Signals(readings, x) =>
                          \E y \in {x} \cup Exactly(readings) : Reverts(readings, y)
                    /\ (\E x \in MetricNames : Reverts(readings, x))
                          /\ ~(\E x \in MetricNames : Signals(readings, x))
                       <=> Exactly(readings) # {}
                             /\ ~(\E x \in MetricNames : Signals(readings, x))
  BY DEF DetectorsAgree
<1>1. ASSUME NEW x \in MetricNames, Signals(readings, x)
      PROVE  \E y \in {x} \cup Exactly(readings) : Reverts(readings, y)
  <2>1. PICK i \in DOMAIN Metrics :
            /\ x = Metrics[i]
            /\ readings[x] > Limits[x]
            /\ \A j \in 1..(i - 1) : readings[Metrics[j]] <= Limits[Metrics[j]]
    BY <1>1 DEF Signals
  <2>2. readings[Metrics[i]] >= Limits[Metrics[i]]
    BY <2>1, Compared
  <2>3. PICK k \in DOMAIN Metrics :
            /\ k <= i
            /\ readings[Metrics[k]] >= Limits[Metrics[k]]
            /\ Reverts(readings, Metrics[k])
    BY <2>2, RevertsAtFirst
  <2>4. CASE k = i
    BY <2>1, <2>3, <2>4
  <2>5. CASE k # i
    <3>1. k \in 1..(i - 1)
      <4>1. DOMAIN Metrics = 1..Len(Metrics) /\ Len(Metrics) \in Nat
        BY MetricsAssumption
      <4> QED BY <2>3, <2>5, <4>1
    <3>2. readings[Metrics[k]] = Limits[Metrics[k]] /\ Metrics[k] \in MetricNames
      BY <2>1, <2>3, <3>1, Compared
    <3>3. Metrics[k] \in Exactly(readings)
      BY <3>2 DEF Exactly
    <3> QED BY <2>3, <3>3
  <2> QED BY <2>4, <2>5
<1>2. ASSUME NEW x \in MetricNames, Reverts(readings, x),
             ~(\E y \in MetricNames : Signals(readings, y))
      PROVE  Exactly(readings) # {}
  <2>1. PICK i \in DOMAIN Metrics :
            x = Metrics[i] /\ Reached(Snapshot(readings)[x], Limits[x])
    BY <1>2 DEF Reverts
  <2>2. readings[x] >= Limits[x]
    BY <2>1, ReachedIsAtLeast
  <2>3. ~(readings[Metrics[i]] > Limits[Metrics[i]])
    BY <1>2, SignalsAtFirst
  <2>4. readings[x] = Limits[x]
    BY <2>1, <2>2, <2>3, Compared
  <2> QED BY <2>4 DEF Exactly
<1>3. ASSUME NEW x \in Exactly(readings)
      PROVE  \E y \in MetricNames : Reverts(readings, y)
  <2>1. x \in MetricNames /\ readings[x] = Limits[x]
    BY DEF Exactly
  <2>2. PICK i \in DOMAIN Metrics : x = Metrics[i]
    BY <2>1 DEF MetricNames
  <2>3. readings[Metrics[i]] >= Limits[Metrics[i]]
    BY <2>1, <2>2, Compared
  <2>4. PICK k \in DOMAIN Metrics : Reverts(readings, Metrics[k])
    BY <2>3, RevertsAtFirst
  <2> QED BY <2>4, Compared
<1> QED
  BY <1>1, <1>2, <1>3

\* The three gates, where there is at most one result and a passed one is in time.
LEMMA Gates == TypeOK /\ DrillsInTime => GatesAgree
<1> SUFFICES ASSUME TypeOK, DrillsInTime PROVE GatesAgree
  OBVIOUS
<1>1. \A r \in drillResult : r.passed =>
         r.detection <= DetectionTimeout /\ r.revert <= RevertTimeout
  BY TimeoutsAssumption DEF DrillsInTime
<1>2. ASSUME drillResult # {}, GateOpen PROVE CanPromote(TRUE)
  BY <1>1, <1>2 DEF GateOpen, CanPromote
<1>3. ASSUME drillResult = {} PROVE GateOpen /\ ~CanPromote(TRUE)
  BY <1>3 DEF GateOpen, CanPromote
<1>4. ASSUME NEW r \in drillResult, r.passed PROVE GateOpen
  <2>1. drillResult = {r}
    BY DEF TypeOK
  <2> QED BY <1>4, <2>1 DEF GateOpen
<1>5. ASSUME NEW enabled \in BOOLEAN, CanPromote(enabled), ~GateOpen PROVE ~enabled
  BY <1>4, <1>5 DEF CanPromote
<1>6. ASSUME NEW auditBlocks \in BOOLEAN, NEW loadTestPassed \in BOOLEAN,
             NEW enabled \in BOOLEAN, ReadyForDeployment(auditBlocks, loadTestPassed)
      PROVE  CanPromote(enabled)
  BY <1>1, <1>6 DEF ReadyForDeployment, CanPromote
<1> QED
  BY <1>2, <1>3, <1>5, <1>6 DEF GatesAgree

\* Each decision is made twice in the repository; the two answers differ for a
\* reading at its threshold and for a feature without a drill, and never
\* otherwise (sre_agent.py:96-116; thresholds.py:92-143; workflow.py:238;
\* fire_drill.py:73-114; models.py:235-243).
THEOREM DecisionsDiffer == Spec => []DecisionsAgree
<1>1. TypeOK /\ DrillsInTime => DecisionsAgree
  BY Detectors, Gates DEF DecisionsAgree
<1> QED
  BY <1>1, DrillTimes, PTL
================================================================================
