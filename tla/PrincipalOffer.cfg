SPECIFICATION Spec
CONSTANTS
    STOP_DELAY = 1
    REPLY_DELAY = 2
    APPROVER_DELAY = 2
    CARD_TTL = 3
    K = 1
    Subjects = {1, 2}
    MaxMsgs = 1
    Horizon = 3
INVARIANTS OfferStops
CHECK_DEADLOCK FALSE
