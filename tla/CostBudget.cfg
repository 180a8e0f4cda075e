SPECIFICATION Spec
CONSTANTS
    a1 = a1
    a2 = a2
    Agents = {a1, a2}
    Limit <- MCLimit
    Latencies <- MCLatencies
    ResetTimeout = 2
    MaxCharges = 3
    MaxStarts = 2
INVARIANTS
    TypeOK
    BreakersMatchTotals
    RefusedWhileCharged
