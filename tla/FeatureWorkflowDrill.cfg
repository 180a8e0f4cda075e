SPECIFICATION Spec
CONSTANTS
    NumFiles = 1
    RetryLimits <- MCRetryLimits
    MaxVersion = 1
INVARIANT
    PromotionNeedsPassedDrill
CHECK_DEADLOCK FALSE
