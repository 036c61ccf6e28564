SPECIFICATION Spec
CONSTANTS
    o1 = o1
    o2 = o2
    Refs = {o1, o2}
    Rest <- Recorded
    Prices = {1}
    Changes = {"none"}
    Lives = {}
    Confs = {}
    Lanes = {}
    MaxRev = 1
    MaxEpoch = 0
    MaxMandates = 0
    MaxDecided = 1
    MaxPosts = 1
    Horizon = 2
    CARD_TTL = 2
    CAP_TTL = 2
    Speech = 1
    None = None
PROPERTIES NamedAcceptPasses
CHECK_DEADLOCK FALSE
