SPECIFICATION Spec
CONSTANTS
    MaxRetries = 3
    MaxTimeouts = 2
    MaxQuits = 2
INVARIANTS TypeOK NoOrphan WindowTracked
PROPERTIES StartSettles QuitEnds
CHECK_DEADLOCK FALSE
