SPECIFICATION Spec
CONSTANTS
    Accepts = {"a1"}
    Declines = {"d1"}
    Sims = {TRUE, FALSE}
    MaxTurns = 3
    MaxFast = 2
    MaxWaits = 1
INVARIANTS OneSpeaker QueuedCounts NoWakeMissed
PROPERTIES ReleaseAfterRep LineCutFairly
CHECK_DEADLOCK FALSE
