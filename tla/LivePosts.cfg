SPECIFICATION Spec
CONSTANTS
    Clicks = {1, 2, 3}
    MaxStems = 2
    MaxCards = 3
    None = None
INVARIANTS JudgedAfresh
CHECK_DEADLOCK FALSE
