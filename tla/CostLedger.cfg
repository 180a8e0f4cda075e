SPECIFICATION Spec
CONSTANTS
    a1 = a1
    a2 = a2
    a3 = a3
    Agents = {a1, a2, a3}
    Limit <- MCLimit
    Amounts <- MCAmounts
    LargestAmount = 2
    MaxSurvived = 2
SYMMETRY Symmetry
INVARIANTS
    TypeOK
    TripTellsTheTruth
    OvershootPaidFor
    BudgetsAgree
CHECK_DEADLOCK FALSE
