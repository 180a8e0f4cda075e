SPECIFICATION Spec
CONSTANTS
    Monitors = {m1, m2}
    Drills = {d1, d2}
    Metrics <- MCMetrics
    Limits <- MCLimits
    DetectionTimeout = 0
    RevertTimeout = 1
    Readings = {0, 1, 2, 3}
    Latency = "p99_latency_increase"
    Times = {0, 1, 2}
    MaxDeployments = 2
    MaxProtocols = 2
SYMMETRY Symmetry
INVARIANTS
    TypeOK
    EveryProtocolAccounted
    ReadsInOrder
    DecisionsAgree
PROPERTY
    PromotionWithinTimes
