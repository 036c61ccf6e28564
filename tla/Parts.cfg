SPECIFICATION Spec
CONSTANTS
    None = None
    NoTime = NoTime
    \* a wait under the heartbeat and one over it; two rep lines
    HEARTBEAT = 2
    LagWaits = {1, 3}
    MAX_STEPS = 3
    LagHorizon = 3
    LagLines = 2
    \* two keys the call needs
    Keys = {"k1", "k2"}
    Required = {"k1", "k2"}
    MaxAsks = 2
    \* three subscribers, one of them isolated
    Subscribers = 3
    Isolated = {3}
    MaxEvents = 4
    \* an unpriced model, limits of one
    Endpoint <- Rates
    Streaming = {"fast"}
    CAP = 1
    Projected = 1
    MAX_REGENERATIONS = 1
    MaxCalls = 2
    \* one card; a stop as soon as its answer, or after it
    STOP_DELAY = 1
    REPLY_DELAY = 2
    APPROVER_DELAY = 2
    CARD_TTL = 3
    AfterTurns = 1
    Subjects = {1}
    MaxMsgs = 1
    UserHorizon = 4
    \* two requests
    Posts = {1, 2}
    \* a log of five lines, three halves at a time
    LogLength = 5
    ReadChunk = 3
    \* three clicks on cards of two revisions
    Clicks = {1, 2, 3}
    MaxStems = 2
    MaxCards = 3
    \* two revisions of the offer, an epoch, a card that lives one instant
    Lives = {}
    CardLife = 1
    CAP_TTL = 2
    Speech = 1
    MaxRev = 2
    MaxEpoch = 1
    MaxAsked = 1
    FoldHorizon = 2
    \* two offers, one that lapses; blocks of two utterances
    Ladder = 2
    Levers = {"l1", "l2"}
    TTL <- Spans
    SILENCE = 1
    HOLD = 2
    STRIKES = 2
    MaxHeard = 5
    MaxBlock = 2
    RepHorizon = 2
    \* two offers, a request about the first, three lines
    Refs = {"o1", "o2"}
    Cited = {"o1"}
    Saids <- RepSays
    Forms = {{"fee"}, {"price", "fee"}, {"price", "fees_none"}}
    MaxRevs = 3
    MaxRequests = 1
    MaxRepLines = 3
    \* two conditions on one cell; an endpoint that may serve another model
    Conditions = {"C5", "C2"}
    Blocks = {1}
    Plans <- Schedules
    Echoes = {"A", "B"}
    Reasons = {"completed", "budget", "llm_unavailable", "error"}
    MaxBundles = 3
    \* three items, one that holds only prose; two at a time, two calls
    Items = {1, 2, 3}
    Prose = {3}
    Tries = 2
    ArmGate = 2
    Cap = 2
    MaxRows = 4
    \* two GUIDEs, three generations of two sentences, a rep line
    GuideMoves = {"final"}
    MaxGuides = 2
    MaxGens = 3
    MaxSentences = 2
    MaxReps = 1
    VerbatimLines = 1
    LaneEpochs = 1
    \* two of Slow's messages, one notice
    LaneMsgs = 2
    LaneNotices = 1
    \* two generations of FastC, the disclosure and an accept
    LogLanes = {"cp"}
    Accepts = {"accept"}
    Declines = {}
    Responses = {"bare", "twice"}
    Speeches = {"a"}
    ItemsOf <- Parsed
    LogGens <- TwoEach
INVARIANTS SlowLag EventOrder CallsCharged PartnersHonest LiveCasesExact StreamExact FoldTakesTheChecked LaneKeepsFaith LogsPass TurnsParse
PROPERTIES NeedsHonest BindsReadBack FatesSettle ResumesExact
CHECK_DEADLOCK FALSE
