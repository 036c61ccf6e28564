SPECIFICATION PartSpec
CONSTANTS
    r1 = r1
    r2 = r2
    c1 = c1
    Refs = {r1, r2}
    Prices = {1, 2}
    Changes = {"none", "forbidden"}
    Lives = {1, 3}
    Confs = {c1}
    Lanes = {"user", "cp"}
    MaxRev = 2
    MaxEpoch = 2
    MaxMandates = 2
    MaxDecided = 2
    MaxPosts = 1
    Horizon = 4
    CARD_TTL = 2
    CAP_TTL = 2
    Speech = 1
    None = None
INVARIANTS AcceptOnce CommitTracksLine OutcomeTruthful AwaitingHasCard
PROPERTIES ClosedStaysClosed ReplanOnlyWhenDue ImplementsConsent
CHECK_DEADLOCK FALSE
