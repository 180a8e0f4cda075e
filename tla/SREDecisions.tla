----------------------------- MODULE SREDecisions -----------------------------
(***************************************************************************)
(* The second implementation of what the SRE agent and the orchestrator    *)
(* decide: detect_anomaly of workers/sre/thresholds.py,                    *)
(* evaluate_fire_drill of workers/sre/fire_drill.py and                    *)
(* is_ready_for_deployment of pipeline/models.py (all under                *)
(* src/autonomous_software_factory), on the readings and the drill results *)
(* of SREAgent.                                                            *)
(***************************************************************************)
EXTENDS SREAgent

CONSTANT Latency   \* the metric that is a ratio to a baseline, if any

\* RevertThresholds.validate: a threshold is positive.
ASSUME ThresholdsAssumption == \A x \in MetricNames : Limits[x] > 0

\* A missing metric is 0 in a MetricsSnapshot; without a baseline there is no
\* ratio, and the latency is not compared.
Snapshot(readings) ==
    [x \in MetricNames |-> IF readings[x] = None /\ x # Latency THEN 0 ELSE readings[x]]

\* Mutant: exactly at the threshold is not an anomaly.
ReachedStrictly(reading, threshold) == reading > threshold

Reached(reading, threshold) == reading # None /\ reading >= threshold

\* detect_anomaly decides REVERT for the first metric, in the same order, that
\* has reached its threshold.
Reverts(readings, metric) ==
    \E i \in DOMAIN Metrics :
        /\ metric = Metrics[i]
        /\ Reached(Snapshot(readings)[metric], Limits[metric])
        /\ \A j \in 1..(i - 1) :
              ~Reached(Snapshot(readings)[Metrics[j]], Limits[Metrics[j]])

\* can_promote of evaluate_fire_drill with the same timeouts; a result is
\* NOT_RUN as long as there was no drill.
CanPromote(enabled) ==
    \/ ~enabled
    \/ \E r \in drillResult :
          r.passed /\ r.detection <= DetectionTimeout /\ r.revert <= RevertTimeout

ReadyForDeployment(auditBlocks, loadTestPassed) ==
    ~auditBlocks /\ (\E r \in drillResult : r.passed) /\ loadTestPassed

-------------------------------------------------------------------------------
Exactly(readings) == {x \in MetricNames : readings[x] = Limits[x]}

\* The two detectors differ exactly at a threshold: whenever the agent signals,
\* thresholds.py reverts, for the same metric or for one before it that is at
\* its threshold; and it reverts alone exactly if some metric is at its
\* threshold and none above.
DetectorsAgree ==
    \A readings \in [MetricNames -> Readings \cup {None}] :
        LET signalled == \E x \in MetricNames : Signals(readings, x)
            reverted  == \E x \in MetricNames : Reverts(readings, x)
        IN  /\ \A x \in MetricNames : Signals(readings, x) =>
                  \E y \in {x} \cup Exactly(readings) : Reverts(readings, y)
            /\ reverted /\ ~signalled <=> Exactly(readings) # {} /\ ~signalled

\* The three drill gates differ exactly if no drill was ever run: then the
\* orchestrator's is open and the other two are closed, unless drills are
\* disabled.
GatesAgree ==
    /\ GateOpen /\ ~CanPromote(TRUE) <=> drillResult = {}
    /\ \A enabled \in BOOLEAN : CanPromote(enabled) /\ ~GateOpen => ~enabled
    /\ \A auditBlocks, loadTestPassed, enabled \in BOOLEAN :
          ReadyForDeployment(auditBlocks, loadTestPassed) => CanPromote(enabled)

\* Each decision is made twice in the repository.  Whatever is read, and
\* whatever drills end, overlap or raise, the two versions come to the same
\* answer, but for a reading exactly at its threshold and a feature without a
\* drill; is_ready_for_deployment, which looks at the audit and the load test
\* as well, is never open where the drill gate is closed (sre_agent.py:96-116;
\* thresholds.py:92-143; workflow.py:238; fire_drill.py:73-114; models.py:235-243).
DecisionsAgree == DetectorsAgree /\ GatesAgree
===============================================================================
