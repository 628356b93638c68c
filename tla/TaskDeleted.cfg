SPECIFICATION Spec
CONSTANTS
    t1 = t1
    t2 = t2
    u1 = u1
    u2 = u2
    Tasks = {t1}
    Kind <- OneVideo
    Sources = {"wallet"}
    Holds = {2}
    Quotas = {2}
    Actuals = {0}
    Reports <- Answer
    Users = {u1}
    Deletable = {t1}
    MaxQueries = 1
    MaxFaults = 0
    MaxCrashes = 0
INVARIANTS DeletedIsRefunded
