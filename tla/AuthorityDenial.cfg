SPECIFICATION Spec
CONSTANTS
    Refs = {r1}
    Prices = {1}
    Changes = {"none"}
    Lives = {}
    Confs = {}
    Lanes = {}
    MaxRev = 1
    MaxEpoch = 0
    MaxMandates = 0
    MaxDecided = 2
    MaxPosts = 1
    Horizon = 2
    CARD_TTL = 2
    CAP_TTL = 2
    Speech = 1
    None = None
PROPERTIES DenialWins
CHECK_DEADLOCK FALSE
