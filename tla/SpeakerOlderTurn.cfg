CONSTANTS
    Accepts = {"a1"}
    Declines = {}
    Sims = {TRUE}
    MaxTurns = 2
    MaxFast = 1
    MaxWaits = 0
SPECIFICATION Spec
PROPERTIES OlderTurnWaits
CHECK_DEADLOCK FALSE
