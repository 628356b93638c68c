SPECIFICATION Spec
CONSTANTS
    Subs = {1}
    Plan <- QuotaPlan
    Requests = {r1, r2}
    Wants <- QuotaWants
    Usages = {1, 3}
    Isolation = "last_write_wins"
    KeepTime = 9
    MaxRetries = 0
    MaxTime = 2
    MaxFaults = 0
INVARIANT UsageExact
