------------------------------- MODULE SREAgent -------------------------------
(***************************************************************************)
(* The SRE agent (workers/sre_agent.py) of one feature: revert protocols   *)
(* begun by monitoring, fire drills, and the promotions that the result of *)
(* a drill lets through (orchestrator/workflow.py).                        *)
(*                                                                         *)
(* A protocol or drill gives up control where it awaits the infrastructure *)
(* (external: placeholders in the source, which can answer anything or     *)
(* raise); from one await to the next is one step.  All of them read and   *)
(* write one FeatureRequest.  Deployments are numbered in the order of     *)
(* their promotion, 0 is the empty string; the target "pre_<id>" of a      *)
(* revert is the number of the deployment it undoes.                       *)
(***************************************************************************)
EXTENDS Integers, FiniteSets, Sequences

CONSTANTS Monitors,          \* coroutines that watch the metrics
          Drills,            \* coroutines that run fire drills
          Metrics,           \* sequence: the metrics in the order they are compared
          Limits,            \* [metric -> Nat]: the revert threshold of each
          DetectionTimeout,  \* FIRE_DRILL_DETECTION_TIMEOUT_S
          RevertTimeout,     \* FIRE_DRILL_REVERT_TIMEOUT_S
          Readings,          \* values of a metric
          Times,             \* durations a drill can measure
          MaxDeployments,    \* bound: promotions
          MaxProtocols       \* bound: revert protocols begun

MetricNames == {Metrics[i] : i \in DOMAIN Metrics}

ASSUME MonitorsAssumption == IsFiniteSet(Monitors)
ASSUME MetricsAssumption == Metrics \in Seq(MetricNames) /\ Limits \in [MetricNames -> Nat]
ASSUME TimeoutsAssumption == DetectionTimeout \in Nat /\ RevertTimeout \in Nat
ASSUME ValuesAssumption == Readings \subseteq Nat /\ Times \subseteq Nat
ASSUME BoundsAssumption == MaxDeployments \in Nat /\ MaxProtocols \in Nat

\* None where a number is expected: no reading, or nothing measured.
None == -1

VARIABLES production,    \* feature.production_deployment_id
          incidents,     \* feature.incident_history: the triggers of its reports
          drillResult,   \* feature.fire_drill_result, a set of at most one result
          protocol,      \* [Monitors -> the revert protocol each one runs]
          error,         \* [Monitors -> the RevertFailedErrors its last protocol raised]
          drill,         \* [Drills -> the fire drill each one runs]
          release,       \* the orchestrator: waiting, or in the production phase
          judged,        \* history: the drill result its gate read last
          began,         \* history: protocols begun
          failed,        \* history: protocols that raised RevertFailedError
          crashed        \* history: protocols an external call ended by raising

feature == <<production, incidents, drillResult>>
counts == <<began, failed, crashed>>
orchestrator == <<release, judged>>
vars == <<feature, protocol, error, drill, orchestrator, counts>>

\* anomalyOn is history: the deployment the anomaly was detected on.
Protocols == [pc : {"idle", "capturing", "reverting", "verifying"},
              trigger : MetricNames \cup {"none"}, target : Nat, anomalyOn : Nat]
NoProtocol == [pc |-> "idle", trigger |-> "none", target |-> 0, anomalyOn |-> 0]
Errors == [deployment : Nat, target : Nat, anomalyOn : Nat]
DrillRuns == [pc : {"idle", "injecting", "detecting", "reverting"},
              detection : Times \cup {None}]
NoDrill == [pc |-> "idle", detection |-> None]
DrillResults == [detection : Times \cup {None}, revert : Times \cup {None, 0},
                 passed : BOOLEAN]

Init ==
    /\ production = 0 /\ incidents = <<>> /\ drillResult = {}
    /\ protocol = [m \in Monitors |-> NoProtocol]
    /\ error = [m \in Monitors |-> {}]
    /\ drill = [d \in Drills |-> NoDrill]
    /\ release = "waiting" /\ judged = {}
    /\ began = 0 /\ failed = 0 /\ crashed = 0

-------------------------------------------------------------------------------
\* The signal is the first metric over its threshold, in the order they are
\* compared; a metric that is missing, or exactly at its threshold, is skipped.
Signals(readings, metric) ==
    \E i \in DOMAIN Metrics :
        /\ metric = Metrics[i]
        /\ readings[metric] > Limits[metric]
        /\ \A j \in 1..(i - 1) : readings[Metrics[j]] <= Limits[Metrics[j]]

\* detect_anomaly signals, and its caller begins the revert protocol, which
\* awaits the forensic capture.
DetectAnomaly(m) ==
    /\ protocol[m].pc = "idle"
    /\ began < MaxProtocols
    /\ \E readings \in [MetricNames -> Readings \cup {None}], metric \in MetricNames :
          /\ Signals(readings, metric)
          /\ protocol' = [protocol EXCEPT ![m] =
                [pc |-> "capturing", trigger |-> metric,
                 target |-> 0, anomalyOn |-> production]]
    /\ began' = began + 1
    /\ error' = [error EXCEPT ![m] = {}]
    /\ UNCHANGED <<feature, drill, orchestrator, failed, crashed>>

\* The state is captured; what is in production now is reverted.
CaptureReturns(m) ==
    /\ protocol[m].pc = "capturing"
    /\ protocol' = [protocol EXCEPT ![m].pc = "reverting", ![m].target = production]
    /\ UNCHANGED <<feature, error, drill, orchestrator, counts>>

\* The frame of the protocol, with the forensic capture in it, is gone.
Leave(m) == protocol' = [protocol EXCEPT ![m] = NoProtocol]

\* Mutant: the error names the deployment the anomaly was detected on.
RevertFailsOnEntry(m) ==
    /\ error' = [error EXCEPT ![m] = {[deployment |-> protocol[m].anomalyOn,
            target |-> protocol[m].target, anomalyOn |-> protocol[m].anomalyOn]}]
    /\ failed' = failed + 1
    /\ Leave(m)
    /\ UNCHANGED <<feature, drill, orchestrator, began, crashed>>

\* RevertFailedError: the deployment is read again from the feature, after the
\* awaits; the target is the one determined before.
RevertFails(m) ==
    /\ error' = [error EXCEPT ![m] = {[deployment |-> production,
            target |-> protocol[m].target, anomalyOn |-> protocol[m].anomalyOn]}]
    /\ failed' = failed + 1
    /\ Leave(m)
    /\ UNCHANGED <<feature, drill, orchestrator, began, crashed>>

\* _execute_revert returns False or True.
RevertRefused(m) == protocol[m].pc = "reverting" /\ RevertFails(m)

RevertExecuted(m) ==
    /\ protocol[m].pc = "reverting"
    /\ protocol' = [protocol EXCEPT ![m].pc = "verifying"]
    /\ UNCHANGED <<feature, error, drill, orchestrator, counts>>

\* Mutant: a second report with the same trigger is dropped as a duplicate.
ReportOnce(m) ==
    incidents' = IF \E i \in DOMAIN incidents : incidents[i] = protocol[m].trigger THEN incidents
                 ELSE Append(incidents, protocol[m].trigger)

\* feature.incident_history.append(report)
Report(m) == incidents' = Append(incidents, protocol[m].trigger)

\* _verify_revert returns False or True.
RevertUnverified(m) == protocol[m].pc = "verifying" /\ RevertFails(m)

RevertVerified(m) ==
    /\ protocol[m].pc = "verifying"
    /\ Report(m)
    /\ Leave(m)
    /\ UNCHANGED <<production, drillResult, error, drill, orchestrator, counts>>

\* An external call raises: the exception leaves the protocol as it is, without
\* RevertFailedError and without a report.
ProtocolRaises(m) ==
    /\ protocol[m].pc # "idle"
    /\ crashed' = crashed + 1
    /\ Leave(m)
    /\ UNCHANGED <<feature, error, drill, orchestrator, began, failed>>

ProtocolStep(m) ==
    \/ CaptureReturns(m)
    \/ RevertRefused(m) \/ RevertExecuted(m)
    \/ RevertUnverified(m) \/ RevertVerified(m)
    \/ ProtocolRaises(m)

-------------------------------------------------------------------------------
StartDrill(d) ==
    /\ drill[d].pc = "idle"
    /\ drill' = [drill EXCEPT ![d].pc = "injecting"]
    /\ UNCHANGED <<feature, protocol, error, orchestrator, counts>>

FaultInjected(d) ==
    /\ drill[d].pc = "injecting"
    /\ drill' = [drill EXCEPT ![d].pc = "detecting"]
    /\ UNCHANGED <<feature, protocol, error, orchestrator, counts>>

\* Mutant: a drill adds its result to those before it.
EndDrillAdding(d, detection, revert, passed) ==
    /\ drillResult' = drillResult \cup
          {[detection |-> detection, revert |-> revert, passed |-> passed]}
    /\ drill' = [drill EXCEPT ![d] = NoDrill]
    /\ UNCHANGED <<production, incidents, protocol, error, orchestrator, counts>>

\* The drill stores its result and returns it, or raises FireDrillFailedError.
EndDrill(d, detection, revert, passed) ==
    /\ drillResult' = {[detection |-> detection, revert |-> revert, passed |-> passed]}
    /\ drill' = [drill EXCEPT ![d] = NoDrill]
    /\ UNCHANGED <<production, incidents, protocol, error, orchestrator, counts>>

\* Mutant: a drill that measured nothing is not noticed.
TooSlowUnlessNone(time, timeout) == time > timeout

\* Nothing measured, or not in time; exactly at the timeout is in time.
TooSlow(time, timeout) == time = None \/ time > timeout

NotDetected(d) ==
    /\ drill[d].pc = "detecting"
    /\ \E time \in Times \cup {None} :
          TooSlow(time, DetectionTimeout) /\ EndDrill(d, time, 0, FALSE)

Detected(d) ==
    /\ drill[d].pc = "detecting"
    /\ \E time \in Times \cup {None} :
          /\ ~TooSlow(time, DetectionTimeout)
          /\ drill' = [drill EXCEPT ![d] = [pc |-> "reverting", detection |-> time]]
    /\ UNCHANGED <<feature, protocol, error, orchestrator, counts>>

RevertMeasured(d) ==
    /\ drill[d].pc = "reverting"
    /\ \E time \in Times \cup {None} :
          \/ /\ TooSlow(time, RevertTimeout)
             /\ EndDrill(d, drill[d].detection, time, FALSE)
          \/ /\ ~TooSlow(time, RevertTimeout)
             /\ EndDrill(d, drill[d].detection, time, TRUE)

\* An external call of the drill raises: the result before it stays.
DrillRaises(d) ==
    /\ drill[d].pc # "idle"
    /\ drill' = [drill EXCEPT ![d] = NoDrill]
    /\ UNCHANGED <<feature, protocol, error, orchestrator, counts>>

DrillStep(d) ==
    StartDrill(d) \/ FaultInjected(d) \/ NotDetected(d) \/ Detected(d)
        \/ RevertMeasured(d) \/ DrillRaises(d)

\* The orchestrator's gate: no result at all passes.
GateOpen == \A r \in drillResult : r.passed

\* The fire drill phase reads the result, and the production phase is awaited.
PassGate ==
    /\ release = "waiting"
    /\ GateOpen
    /\ production < MaxDeployments
    /\ release' = "releasing"
    /\ judged' = drillResult
    /\ UNCHANGED <<feature, protocol, error, drill, counts>>

\* The deployment (external) is in production, or the phase raises.
ProductionPhaseEnds ==
    /\ release = "releasing"
    /\ release' = "waiting"
    /\ production' \in {production, production + 1}
    /\ UNCHANGED <<incidents, drillResult, judged, protocol, error, drill, counts>>

Next ==
    \/ \E m \in Monitors : DetectAnomaly(m) \/ ProtocolStep(m)
    \/ \E d \in Drills : DrillStep(d)
    \/ PassGate \/ ProductionPhaseEnds

Spec == Init /\ [][Next]_vars

-------------------------------------------------------------------------------
\* Types.
TypeOK ==
    /\ production \in 0..MaxDeployments
    /\ incidents \in Seq(MetricNames)
    /\ drillResult \subseteq DrillResults /\ \A r, s \in drillResult : r = s
    /\ protocol \in [Monitors -> Protocols]
    /\ \A m \in Monitors : protocol[m].pc # "idle" => protocol[m].trigger \in MetricNames
    /\ error \in [Monitors -> SUBSET Errors]
    /\ drill \in [Drills -> DrillRuns]
    /\ release \in {"waiting", "releasing"}
    /\ release = "releasing" => production < MaxDeployments
    /\ judged \subseteq DrillResults
    /\ began \in 0..MaxProtocols /\ failed \in Nat /\ crashed \in Nat

Active == {m \in Monitors : protocol[m].pc # "idle"}

\* Each revert protocol leaves exactly one trace, also when several run at once
\* and share incident_history: a report, a RevertFailedError, or the exception
\* of an external call (sre_agent.py:131-216).
EveryProtocolAccounted ==
    began = Len(incidents) + failed + crashed + Cardinality(Active)

\* What a protocol reads from the feature between its awaits never goes back in
\* time: the deployment it reverts is the one the anomaly was seen on or a later
\* one, and the deployment its error names is the reverted one or a later one
\* (sre_agent.py:158, 166, 182, 200).
ReadsInOrder ==
    /\ \A m \in Monitors : protocol[m].pc \in {"reverting", "verifying"} =>
          /\ protocol[m].anomalyOn <= protocol[m].target
          /\ protocol[m].target <= production
    /\ \A m \in Monitors : \A e \in error[m] :
          /\ e.anomalyOn <= e.target
          /\ e.target <= e.deployment
          /\ e.deployment <= production

\* Whichever drills ended, overlapped or raised before, the result that the gate
\* has let through, if there was one, is of a drill whose detection and revert
\* were both measured and both in time.  It may be of an earlier drill than the
\* last one begun, and a drill that ends during the production phase is not seen
\* (sre_agent.py:240-289 and workflow.py:238).
PromotionWithinTimes ==
    [][production' # production =>
          \A r \in judged : /\ r.detection \in 0..DetectionTimeout
                            /\ r.revert \in 0..RevertTimeout]_vars
===============================================================================
