SPECIFICATION Spec
CONSTANTS
    Requests = {r1, r2}
    Profiles <- MixedProfiles
    Usages = {0, 3}
    UserQuota0 = 5
    TokenQuota0 = 4
    TokenUnlimited = FALSE
    TrustQuota = 0
    SubResource = "request_count"
    SubAmountTotal = 5
    SubCountTotal = 2
    ViolationFee = 1
    PeriodOutcomes = {FALSE}
    RetryTimes = 1
    AutoGroups = 1
    CrossGroupRetry = FALSE
    MaxTurns = 1
    MaxFaults = 1
    MaxCrashes = 0
INVARIANTS NoQuotaMinted
PROPERTIES FailedRequestMadeWhole
