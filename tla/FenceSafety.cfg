SPECIFICATION FairSpec
CONSTANTS
    Views = {TRUE, FALSE}
    MaxUserMsgs = 1
    MaxTriggers = 2
    MaxInputs = 2
    MaxMints = 1
    MaxEpoch = 1
    None = None
INVARIANTS FencesTrackInputs FencesPursued LineWaitsForCause
PROPERTIES ReleaseCovered FencesClear LineResolves
