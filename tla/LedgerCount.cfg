SPECIFICATION Spec
CONSTANTS
    Subs = {1, 2}
    Plan <- CountPlans
    Requests = {r1, r2}
    Wants <- CountWants
    Usages = {1, 3}
    Isolation = "conflict_fails"
    KeepTime = 9
    MaxRetries = 0
    MaxTime = 2
    MaxFaults = 0
INVARIANTS LifetimeExact NotOversold
PROPERTIES DueWindowReset
