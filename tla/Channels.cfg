SPECIFICATION Spec
CONSTANTS
    Filters = {"none", "f"}
    MaxPage = 2
    Slots = {1, 2}
    NModels = 3
    Limit = 2
    Loops = {1, 2}
    MaxLists = 3
CONSTRAINT StillGood
INVARIANTS TypeOK RowsMatch BatchUnderControl
CHECK_DEADLOCK FALSE
