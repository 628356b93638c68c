SPECIFICATION Spec
CONSTANTS
    t1 = t1
    t2 = t2
    u1 = u1
    u2 = u2
    Tasks = {t1, t2}
    Kind <- ImageAndSuno
    Sources = {"subscription"}
    Holds = {2}
    Quotas = {2}
    Actuals = {1}
    Reports <- SunoAnswer
    Users = {}
    Deletable = {}
    MaxQueries = 0
    MaxFaults = 1
    MaxCrashes = 1
INVARIANTS ChargeFollowsOutcome
PROPERTIES TaskEnds
