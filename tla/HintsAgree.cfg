SPECIFICATION PartSpec
CONSTANTS
    o1 = o1
    o2 = o2
    Refs = {o1, o2}
    Rest <- Recorded
    Prices = {1, 2}
    Changes = {"none", "unsupported"}
    Lives = {}
    Confs = {}
    Lanes = {}
    MaxRev = 1
    MaxEpoch = 1
    MaxMandates = 1
    MaxDecided = 1
    MaxPosts = 1
    Horizon = 2
    CARD_TTL = 1
    CAP_TTL = 1
    Speech = 1
    None = None
INVARIANTS HintsAgree
CHECK_DEADLOCK FALSE
