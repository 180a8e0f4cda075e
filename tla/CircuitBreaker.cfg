SPECIFICATION BreakerFairSpec
CONSTANTS
    Threshold = 3
    ResetTimeout = 3
    Amounts <- MCAmounts
    MaxValue = 8
    MaxInFlight = 3
INVARIANTS
    BreakerTypeOK
    ClosedIffUnderThreshold
    CooldownCountsQuiet
PROPERTIES
    AdmissionNeedsQuiet
    RecoveryNeedsReset
    RejectionEnds
