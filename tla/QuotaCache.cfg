SPECIFICATION Spec
CONSTANTS
    Users = {u}
    Tokens = {t}
    BatchEnabled = TRUE
    Calls = {c1, c2}
    Readers = {g}
    Deltas <- Changes
    Quota0 = 5
    MaxFaults = 1
INVARIANTS TypeOK CacheExact
PROPERTIES CountedOnce Converges
CHECK_DEADLOCK FALSE
