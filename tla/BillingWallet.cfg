SPECIFICATION Spec
CONSTANTS
    Requests = {r1, r2}
    Profiles <- WalletProfiles
    Usages = {0, 3}
    UserQuota0 = 5
    TokenQuota0 = 4
    TokenUnlimited = FALSE
    TrustQuota = 3
    SubResource = "none"
    SubAmountTotal = 0
    SubCountTotal = 0
    ViolationFee = 1
    PeriodOutcomes = {TRUE, FALSE}
    RetryTimes = 1
    AutoGroups = 2
    CrossGroupRetry = TRUE
    MaxTurns = 1
    MaxFaults = 1
    MaxCrashes = 1
INVARIANTS TypeOK NoQuotaMinted FailedRequestRestored SuccessChargedOnce
PROPERTIES SettledIsFinal
