CONSTANTS
    Accepts = {"a1"}
    Declines = {"d1"}
    Sims = {TRUE}
    MaxTurns = 1
    MaxFast = 1
    MaxWaits = 0
SPECIFICATION Spec
PROPERTIES DisclosureFirst
CHECK_DEADLOCK FALSE
