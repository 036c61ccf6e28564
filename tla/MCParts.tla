------------------------------ MODULE MCParts -------------------------------
(***************************************************************************)
(* Parts of the system that share no state in the model, checked in one run:*)
(* part, chosen by Init, says which one runs, and x1, x2, ... are its      *)
(* variables. The constants of the parts that PartsProofs proves about are *)
(* those below; the others are given with their instance.                  *)
(***************************************************************************)
EXTENDS Integers, Sequences, FiniteSets

CONSTANTS
    None, NoTime,
    HEARTBEAT, LagWaits, MAX_STEPS, LagHorizon, LagLines,              \* W
    Keys, Required, MaxAsks,                                        \* G
    Subscribers, Isolated, MaxEvents,                               \* B
    Endpoint, Streaming, CAP, Projected, MAX_REGENERATIONS, MaxCalls, \* C
    STOP_DELAY, REPLY_DELAY, APPROVER_DELAY, CARD_TTL, AfterTurns,
    Subjects, MaxMsgs, UserHorizon,                                 \* P
    Posts,                                                          \* L
    LogLength, ReadChunk,                                           \* T
    Clicks, MaxStems, MaxCards,                                     \* D
    Lives, CardLife, CAP_TTL, Speech, MaxRev, MaxEpoch, MaxAsked, FoldHorizon, \* K
    Ladder, Levers, TTL, SILENCE, HOLD, STRIKES,
    MaxHeard, MaxBlock, RepHorizon,                                 \* R
    Refs, Cited, Saids, Forms, MaxRevs, MaxRequests, MaxRepLines,   \* Q
    Conditions, Blocks, Plans, Echoes, Reasons, MaxBundles,         \* M
    Items, Prose, Tries, ArmGate, Cap, MaxRows,                     \* A
    GuideMoves, MaxGuides, MaxGens, MaxSentences, MaxReps, VerbatimLines,
    LaneEpochs,                                                     \* H
    LaneMsgs, LaneNotices,                                          \* F
    LogLanes, Accepts, Declines, Responses, Speeches, ItemsOf, LogGens \* E

(* One endpoint without a rate, so that every limit can be crossed. *)
Rates == [slow |-> "rated", fast |-> "unrated", world |-> "rated"]

(* Two offers of the rep, one that lapses. *)
Spans == <<1, None>>

(* A rep that says one price or another, alone, with the fee or that there *)
(* is none, or the fee alone.                                              *)
Says(price, fee, none) == [price |-> price, fee |-> fee, fees_none |-> none]
RepSays ==
    {Says({"50"}, {}, {}), Says({"60"}, {}, {}), Says({"50"}, {"9"}, {"false"}),
     Says({"60"}, {"none"}, {"true"}), Says({}, {"9"}, {"false"})}

(* A plan with one condition, or with both in either order. *)
OneBlock(c) == <<c, 1>>
Schedules ==
    {<<OneBlock("C5")>>, <<OneBlock("C2"), OneBlock("C5")>>,
     <<OneBlock("C5"), OneBlock("C2")>>}

(* Two generations of FastC; a text of two lines that read alike, and one  *)
(* of none.                                                                *)
TwoEach == [lane \in {"cp"} |-> 2]
Parsed == [r \in {"bare", "twice"} |-> IF r = "twice" THEN <<"a", "a">> ELSE <<>>]

(* An attempt in flight, and what may have ended a session. *)
Attempts == [n : Nat, text : BOOLEAN, usage : BOOLEAN, finish : BOOLEAN, done : BOOLEAN]
Ends == {"budget", "llm_unavailable", "world_error", "error", "slow_timeout",
         "timeout", "abandoned", "stopped"}

(* A row of an arm's file. *)
ArmRows ==
    [key : Items, status : {"ok", "exhausted", "timeout", "not_replayable",
                            "capped", "unavailable"}]

(* Times, delays and amounts are numbers, None and NoTime are none of the  *)
(* values they stand beside, a required key is a key, a cited offer is one, *)
(* a line says something or nothing of each field, a plan holds some       *)
(* cells, each once, and no text is of two kinds.                          *)
ASSUME PartsAssumption ==
    /\ None \notin Attempts /\ None \notin Ends /\ NoTime \notin Int
    /\ HEARTBEAT \in Nat /\ LagWaits \subseteq Nat
    /\ Required \subseteq Keys
    /\ Subscribers \in Nat \ {0} /\ LogLength \in Nat
    /\ CAP \in Nat /\ Projected \in Nat
    /\ CARD_TTL \in Int /\ 0 \notin Subjects
    /\ Lives \subseteq Int /\ CardLife \in Nat /\ CAP_TTL \in Nat \ {0}
    /\ Speech \in Nat /\ FoldHorizon \in Nat
    /\ Ladder \in Nat /\ STRIKES \in Nat \ {0} /\ None \notin Int
    /\ TTL \in [1..Ladder -> Nat \cup {None}]
    /\ Cited \subseteq Refs /\ Forms \subseteq SUBSET {"price", "fee", "fees_none"}
    /\ \A said \in Saids : DOMAIN said = {"price", "fee", "fees_none"}
    /\ \A p \in Plans : /\ p \in Seq(Conditions \X Blocks) /\ p # <<>>
                        /\ \A i, j \in DOMAIN p : p[i] = p[j] => i = j
    /\ IsFiniteSet(Echoes) /\ Cap \in Nat /\ None \notin ArmRows
    /\ LogLanes \subseteq {"user", "cp"} /\ LogGens \in [LogLanes -> Nat]
    /\ "disclosure" \notin Accepts \cup Declines /\ Accepts \cap Declines = {}
    /\ None \notin Responses \cup Accepts \cup Declines \cup Speeches \cup {"disclosure"}
    /\ ItemsOf \in [Responses -> Seq(Speeches)]

VARIABLES part, x1, x2, x3, x4, x5, x6, x7, x8, x9, x10, x11, x12, x13, x14, x15,
          x16, x17, x18, x19, x20, x21, x22

(* Slow's wakes. *)
W == INSTANCE Wakes WITH
        Waits <- LagWaits, Horizon <- LagHorizon, MaxLines <- LagLines,
        now <- x1, ended <- x2,
        call <- x3, fast <- x4, triggered <- x5, lines <- x6, gens <- x7,
        held <- x8, timer <- x9, slow <- x10, asked <- x11, steps <- x12,
        reasons <- x13, said <- x14, unseen <- x15, rested <- x16

(* The keys the call needs, asked one by one or together. *)
G == INSTANCE CallGate WITH
        intake <- x1, opened <- x2, deadline <- x3, soon <- x4, facts <- x5,
        needs <- x6, unvoiced <- x7, voicing <- x8, asks <- x9, hold <- x10,
        told <- x11

(* The event bus. *)
B == INSTANCE Bus WITH
        N <- Subscribers, log <- x1, ended <- x2, queue <- x3, current <- x4,
        turn <- x5, rejected <- x6, raised <- x7, received <- x8, dropped <- x9,
        nested <- x10

(* The model calls of one session. *)
C == INSTANCE ModelCalls WITH
        call <- x1, calls <- x2, tries <- x3, live <- x4, more <- x5, ending <- x6, dead <- x7,
        leaves <- x8, aborted <- x9, ledger <- x10, attempts <- x11,
        late <- x12, reason <- x13

(* The simulated rep. *)
R == INSTANCE SimRep WITH
        Horizon <- RepHorizon,
        now <- x1, said <- x2, backlog <- x3, phase <- x4, block <- x5,
        listed <- x6, decided <- x7, state <- x8, rung <- x9, offers <- x10,
        levers <- x11, pending <- x12, identity <- x13, timers <- x14,
        silences <- x15, holds <- x16, holdSince <- x17, holdClock <- x18,
        free <- x19, inbox <- x20, asked <- x21, accepted <- x22

(* The simulated user: a stop may come before, at or after a decision. *)
P == INSTANCE Principal WITH
        K <- AfterTurns, Horizon <- UserHorizon, now <- x1,
        msgs <- x2, task <- x3, fired <- x4, mind <- x5, turns <- x6,
        queue <- x7, busy <- x8, incoming <- x9, fences <- x10,
        subjects <- x11, pending <- x12, offered <- x13, granted <- x14,
        stopped <- x15, cleared <- x16

(* Requests to start a case. *)
L == INSTANCE LiveCases WITH
        at <- x1, lockq <- x2, task <- x3, abandoned <- x4,
        run <- x5, session <- x6, stopping <- x7, started <- x8, late <- x9

(* Clicks, in two tabs say, on cards of several revisions. *)
D == INSTANCE LivePosts WITH
        session <- x1,
        stem <- x2, cards <- x3, card <- x4, decided <- x5, click <- x6,
        slots <- x7, queue <- x8

(* A log, read by chunks that may end inside a line. *)
T == INSTANCE Stream WITH
        Length <- LogLength, Chunk <- ReadChunk, rep <- x1, hidden <- x2, written <- x3,
        moved <- x4, conn <- x5, wire <- x6, code <- x7, got <- x8

(* The Guard's checks and the fold. *)
K == INSTANCE Fold WITH
        CARD_TTL <- CardLife, Horizon <- FoldHorizon, bb <- x1,
        now <- x2, todo <- x3, checked <- x4, rejected <- x5

(* A campaign that is killed and resumed, with the plan a person gives. *)
M == INSTANCE Matrix WITH
        disk <- x1, plan <- x2, pos <- x3, busy <- x4, seen <- x5, runs <- x6,
        served <- x7

(* An arm of the world-model selection. *)
A == INSTANCE ArmRun WITH
        Gate <- ArmGate, file <- x1, open <- x2, up <- x3, todo <- x4,
        in <- x5, calls <- x6, asked <- x7

(* FastC's lane and the log Slow reads of it. *)
H == INSTANCE Heard WITH
        Moves <- GuideMoves, MaxMsgs <- 0, MaxNotices <- 0,
        MaxLines <- VerbatimLines, MaxEpochs <- LaneEpochs, lane <- x1,
        closed <- x2, pending <- x3, phase <- x4, ask <- x5, voices <- x6,
        moved <- x7, since <- x8, hold <- x9, holds <- x10, newest <- x11,
        unvoiced <- x12, said <- x13, retried <- x14, card <- x15, sent <- x16,
        moves <- x17, gens <- x18, lines <- x19, fates <- x20

(* The Fast lanes, by themselves. *)
F == INSTANCE FastLane WITH
        MaxMsgs <- LaneMsgs, MaxNotices <- LaneNotices,
        MaxLines <- VerbatimLines, MaxEpochs <- LaneEpochs, lane <- x1,
        closed <- x2, pending <- x3, phase <- x4, ask <- x5, voices <- x6,
        moved <- x7, since <- x8, hold <- x9, holds <- x10, newest <- x11,
        unvoiced <- x12, said <- x13, retried <- x14, card <- x15, sent <- x16

(* Offers, and requests to read them back. *)
Q == INSTANCE Readback WITH
        MaxAsks <- MaxRequests, MaxLines <- MaxRepLines, lines <- x1,
        offers <- x2, asks <- x3, acting <- x4

(* What FastC and the Guard say in the call, and the log of it. *)
E == INSTANCE Chain WITH
        Lanes <- LogLanes, Lines <- Speeches, MaxGens <- LogGens, log <- x1,
        state <- x2, call <- x3, gens <- x4, job <- x5, line <- x6

(* Every text of at most four words, cut into every sequence of deltas. *)
N == INSTANCE Grammar WITH
        Words <- {"word", "stop", "offer", "first", "at", "slow", "hold", "wait", "end", "nl"},
        Lane <- "cp", MaxText <- 4, text <- x1, ends <- x2, fed <- x3,
        half <- x4, parser <- x5

Rest4 == <<x5, x6, x7, x8, x9, x10, x11, x12, x13, x14, x15, x16, x17, x18,
           x19, x20, x21, x22>>
Rest5 == <<x6, x7, x8, x9, x10, x11, x12, x13, x14, x15, x16, x17, x18, x19,
           x20, x21, x22>>
Rest6 == <<x7, x8, x9, x10, x11, x12, x13, x14, x15, x16, x17, x18, x19, x20,
           x21, x22>>
Rest7 == <<x8, x9, x10, x11, x12, x13, x14, x15, x16, x17, x18, x19, x20, x21,
           x22>>
Rest8 == <<x9, x10, x11, x12, x13, x14, x15, x16, x17, x18, x19, x20, x21, x22>>
Rest9 == <<x10, x11, x12, x13, x14, x15, x16, x17, x18, x19, x20, x21, x22>>
Rest10 == <<x11, x12, x13, x14, x15, x16, x17, x18, x19, x20, x21, x22>>
Rest11 == <<x12, x13, x14, x15, x16, x17, x18, x19, x20, x21, x22>>
Rest13 == <<x14, x15, x16, x17, x18, x19, x20, x21, x22>>
Rest16 == <<x17, x18, x19, x20, x21, x22>>
Rest20 == <<x21, x22>>

Init ==
    \/ /\ part = "wakes" /\ W!Init
       /\ x17 = 0 /\ x18 = 0 /\ x19 = 0 /\ x20 = 0 /\ x21 = 0 /\ x22 = 0
    \/ /\ part = "call gate" /\ G!Init
       /\ x12 = 0 /\ x13 = 0 /\ x14 = 0 /\ x15 = 0 /\ x16 = 0 /\ x17 = 0
       /\ x18 = 0 /\ x19 = 0 /\ x20 = 0 /\ x21 = 0 /\ x22 = 0
    \/ /\ part = "bus" /\ B!Init
       /\ x11 = 0 /\ x12 = 0 /\ x13 = 0 /\ x14 = 0 /\ x15 = 0 /\ x16 = 0
       /\ x17 = 0 /\ x18 = 0 /\ x19 = 0 /\ x20 = 0 /\ x21 = 0 /\ x22 = 0
    \/ /\ part = "model calls" /\ C!Init
       /\ x14 = 0 /\ x15 = 0 /\ x16 = 0 /\ x17 = 0 /\ x18 = 0 /\ x19 = 0
       /\ x20 = 0 /\ x21 = 0 /\ x22 = 0
    \/ /\ part = "rep" /\ R!Init
    \/ /\ part = "principal" /\ P!Init
       /\ x17 = 0 /\ x18 = 0 /\ x19 = 0 /\ x20 = 0 /\ x21 = 0 /\ x22 = 0
    \/ /\ part = "live cases" /\ L!Init
       /\ x10 = 0 /\ x11 = 0 /\ x12 = 0 /\ x13 = 0 /\ x14 = 0 /\ x15 = 0
       /\ x16 = 0 /\ x17 = 0 /\ x18 = 0 /\ x19 = 0 /\ x20 = 0 /\ x21 = 0
       /\ x22 = 0
    \/ /\ part = "live posts" /\ D!Init
       /\ x9 = 0 /\ x10 = 0 /\ x11 = 0 /\ x12 = 0 /\ x13 = 0 /\ x14 = 0
       /\ x15 = 0 /\ x16 = 0 /\ x17 = 0 /\ x18 = 0 /\ x19 = 0 /\ x20 = 0
       /\ x21 = 0 /\ x22 = 0
    \/ /\ part = "stream" /\ T!Init
       /\ x9 = 0 /\ x10 = 0 /\ x11 = 0 /\ x12 = 0 /\ x13 = 0 /\ x14 = 0
       /\ x15 = 0 /\ x16 = 0 /\ x17 = 0 /\ x18 = 0 /\ x19 = 0 /\ x20 = 0
       /\ x21 = 0 /\ x22 = 0
    \/ /\ part = "fold" /\ K!Init
       /\ x6 = 0 /\ x7 = 0 /\ x8 = 0 /\ x9 = 0 /\ x10 = 0 /\ x11 = 0
       /\ x12 = 0 /\ x13 = 0 /\ x14 = 0 /\ x15 = 0 /\ x16 = 0 /\ x17 = 0
       /\ x18 = 0 /\ x19 = 0 /\ x20 = 0 /\ x21 = 0 /\ x22 = 0
    \/ /\ part = "matrix" /\ M!Init
       /\ x8 = 0 /\ x9 = 0 /\ x10 = 0 /\ x11 = 0 /\ x12 = 0 /\ x13 = 0
       /\ x14 = 0 /\ x15 = 0 /\ x16 = 0 /\ x17 = 0 /\ x18 = 0 /\ x19 = 0
       /\ x20 = 0 /\ x21 = 0 /\ x22 = 0
    \/ /\ part = "arm" /\ A!Init
       /\ x8 = 0 /\ x9 = 0 /\ x10 = 0 /\ x11 = 0 /\ x12 = 0 /\ x13 = 0
       /\ x14 = 0 /\ x15 = 0 /\ x16 = 0 /\ x17 = 0 /\ x18 = 0 /\ x19 = 0
       /\ x20 = 0 /\ x21 = 0 /\ x22 = 0
    \/ /\ part = "heard" /\ H!HInit
       /\ x21 = 0 /\ x22 = 0
    \/ /\ part = "lane" /\ F!Init
       /\ x17 = 0 /\ x18 = 0 /\ x19 = 0 /\ x20 = 0 /\ x21 = 0 /\ x22 = 0
    \/ /\ part = "read-back" /\ Q!Init
       /\ x5 = 0 /\ x6 = 0 /\ x7 = 0 /\ x8 = 0 /\ x9 = 0 /\ x10 = 0 /\ x11 = 0
       /\ x12 = 0 /\ x13 = 0 /\ x14 = 0 /\ x15 = 0 /\ x16 = 0 /\ x17 = 0
       /\ x18 = 0 /\ x19 = 0 /\ x20 = 0 /\ x21 = 0 /\ x22 = 0
    \/ /\ part = "grammar" /\ N!Init
       /\ x6 = 0 /\ x7 = 0 /\ x8 = 0 /\ x9 = 0 /\ x10 = 0 /\ x11 = 0
       /\ x12 = 0 /\ x13 = 0 /\ x14 = 0 /\ x15 = 0 /\ x16 = 0 /\ x17 = 0
       /\ x18 = 0 /\ x19 = 0 /\ x20 = 0 /\ x21 = 0 /\ x22 = 0
    \/ /\ part = "chain" /\ E!Init
       /\ x7 = 0 /\ x8 = 0 /\ x9 = 0 /\ x10 = 0 /\ x11 = 0 /\ x12 = 0 /\ x13 = 0
       /\ x14 = 0 /\ x15 = 0 /\ x16 = 0 /\ x17 = 0 /\ x18 = 0 /\ x19 = 0
       /\ x20 = 0 /\ x21 = 0 /\ x22 = 0

Next ==
    /\ part' = part
    /\ \/ part = "wakes" /\ W!Next /\ UNCHANGED Rest16
       \/ part = "call gate" /\ G!Next /\ UNCHANGED Rest11
       \/ part = "bus" /\ B!Next /\ UNCHANGED Rest10
       \/ part = "model calls" /\ C!Next /\ UNCHANGED Rest13
       \/ part = "rep" /\ R!Next
       \/ part = "principal" /\ P!Next /\ UNCHANGED Rest16
       \/ part = "live cases" /\ L!Next /\ UNCHANGED Rest9
       \/ part = "live posts" /\ D!Next /\ UNCHANGED Rest8
       \/ part = "stream" /\ T!Next /\ UNCHANGED Rest8
       \/ part = "fold" /\ K!Next /\ UNCHANGED Rest5
       \/ part = "matrix" /\ M!Next /\ UNCHANGED Rest7
       \/ part = "arm" /\ A!Next /\ UNCHANGED Rest7
       \/ part = "heard" /\ H!HNext /\ UNCHANGED Rest20
       \/ part = "lane" /\ F!Next /\ UNCHANGED Rest16
       \/ part = "read-back" /\ Q!Next /\ UNCHANGED Rest4
       \/ part = "grammar" /\ N!Next /\ UNCHANGED Rest5
       \/ part = "chain" /\ E!Next /\ UNCHANGED Rest6

vars == <<part, x1, x2, x3, x4, x5, x6, x7, x8, x9, x10, x11, x12, x13, x14, x15,
          x16, x17, x18, x19, x20, x21, x22>>

Spec == Init /\ [][Next]_vars

-----------------------------------------------------------------------------
(* A rep line is seen by a Slow step within the bound, and Slow is never   *)
(* idle past the heartbeat in the call (kernel/wake.py).                   *)
SlowLag == part = "wakes" => W!LagBound /\ W!NeverIdle

(* A key that waits for the user was asked, or will be; and start_call      *)
(* opens only what the user replied to (guard/needs.py, slow/asks.py).     *)
NeedsHonest ==
    /\ [](part = "call gate" => G!NoKeyStuck)
    /\ [][part = "call gate" => G!StartCallStep]_vars

(* Subscribers see events in the order of the log, and a rejected nested   *)
(* emit reaches its emitter (core/bus.py).                                 *)
EventOrder == part = "bus" => B!LogOrder /\ B!RejectionReachesEmitter

(* Every attempt of a model call is charged once, no call begins over a    *)
(* limit, and the session's end names the worst of what befell it          *)
(* (llm/http.py, llm/spend.py, kernel/session.py).                         *)
CallsCharged == part = "model calls" => C!EveryAttemptCharged /\ C!RunawayStops /\ C!EndNamesTheWorst

(* The rep commits only what the caller named or was asked, and reports     *)
(* every strike once (env/counterparty/policy.py, kernel/channels.py); and  *)
(* a grant never overtakes the stop its card set off (kernel/fence.py).     *)
PartnersHonest ==
    /\ part = "rep" => R!CommitMeant /\ R!StrikesReported
    /\ part = "principal" => P!GrantHeedsStop

(* One session at a time, and none is left running that nobody knows of    *)
(* (serve/start.py, kernel/web.py); and two clicks on one card are handed   *)
(* over once, and none once decided (serve/cases.py).                       *)
LiveCasesExact ==
    /\ part = "live cases" => L!OneSession /\ L!NoCaseLeftRunning
    /\ part = "live posts" => D!HandedOnce

(* A browser takes each event it may see once, in order (serve/stream.py). *)
StreamExact == part = "stream" => T!StreamExact

(* What the Guard lets through, the fold takes, but for an expiry between   *)
(* the check and the emission (core/fold.py, guard/*.py).                  *)
FoldTakesTheChecked == part = "fold" => K!FoldTakesTheChecked

(* A GUIDE heard whole is not voiced again, and what a Fast lane was asked  *)
(* to voice is kept until it is settled (kernel/lanes.py, _add).            *)
LaneKeepsFaith ==
    /\ part = "heard" => H!GuideHeardOnce
    /\ part = "lane" => F!DebtsKept

(* The lane and Slow agree on what the rep heard; Slow waits only for what  *)
(* can still be heard; and a GUIDE's fate, once settled, stays             *)
(* (slow/heard.py, slow/state.py, kernel/lanes.py).                        *)
FatesSettle ==
    /\ [](part = "heard" => H!Agree /\ H!WaitsHonest)
    /\ [][part = "heard" => H!FatesStay]_vars

(* The Guard binds only the rep's last word, and no term on the strength of *)
(* the very answer that changed it (guard/readback.py).                    *)
BindsReadBack ==
    /\ [](part = "read-back" => Q!LastWord)
    /\ [][part = "read-back" => Q!ChangeAskedAgain]_vars

(* However a campaign is killed, aborted and resumed: a cell is scored once, *)
(* a finished matrix has counted what the report counts, and a comparison  *)
(* past the gate has every cell of both; an item of an arm has one final   *)
(* row, which no later write ruins, and a run that returns has one of every*)
(* item (eval/matrix.py, benchmark.py; scripts/mod/world_select_run.py).   *)
ResumesExact ==
    /\ [](part = "matrix" => M!Counted /\ M!Claims /\ M!OneMatrix)
    /\ [][part = "matrix" => M!ScoredOnce]_vars
    /\ [](part = "arm" => A!OneRowEach)
    /\ [][part = "arm" => A!RowsStay]_vars

(* Every line said is traced in the log to one answer of a model, or to one *)
(* line of the Guard's, through retries, stale turns, cuts and revocations, *)
(* wherever the session ends (evidence/chain.py, llm/http.py).             *)
LogsPass == part = "chain" => E!LogPasses

(* A turn's items are those of its text, however it is cut into deltas; it *)
(* parses back from its canonical text; it pauses once, and then is silent *)
(* (contract/protocol.py).                                                 *)
TurnsParse == part = "grammar" => N!StreamedAsWhole /\ N!RoundTrip /\ N!OnePause

=============================================================================
