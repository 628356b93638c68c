SPECIFICATION Spec
CONSTANTS
    t1 = t1
    t2 = t2
    u1 = u1
    u2 = u2
    Tasks = {t1}
    Kind <- OneVideo
    Sources = {"wallet", "subscription", "request_count"}
    Holds = {1, 2}
    Quotas = {2}
    Actuals = {0, 1}
    Reports <- Answer
    Users = {u1, u2}
    Deletable = {t1}
    MaxQueries = 2
    MaxFaults = 1
    MaxCrashes = 1
SYMMETRY Symmetry
INVARIANTS TypeOK ChargeFollowsOutcome NeverOverRefunded
PROPERTIES TerminalIsFinal
