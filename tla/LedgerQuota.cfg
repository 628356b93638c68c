SPECIFICATION Spec
CONSTANTS
    Subs = {1}
    Plan <- QuotaPlan
    Requests = {r1, r2}
    Wants <- QuotaWants
    Usages = {1, 3}
    Isolation = "conflict_fails"
    KeepTime = 1
    MaxRetries = 1
    MaxTime = 4
    MaxFaults = 1
SYMMETRY Symmetry
INVARIANTS TypeOK UsageExact NeverOvercounted SettleStaysInWindow WindowsAligned HoldInItsWindow
