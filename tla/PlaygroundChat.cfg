SPECIFICATION Spec
CONSTANTS
    MaxRequests = 2
    Streams = {TRUE, FALSE}
    MaxChanges = 1
    MaxReloads = 1
CONSTRAINT NoCauseYet
INVARIANTS TypeOK OwnAnswers OnlyLastGenerates SavedWhenQuiet
CHECK_DEADLOCK FALSE
