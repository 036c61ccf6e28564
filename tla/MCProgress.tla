----------------------------- MODULE MCProgress -----------------------------
(***************************************************************************)
(* What must come about in time, part by part, each under the fairness of  *)
(* its own module: part, chosen by Init, says which one runs, and x1, x2,  *)
(* ... are its variables.                                                  *)
(***************************************************************************)
EXTENDS Integers, Sequences, FiniteSets

CONSTANT None     \* Authority's
VARIABLES part, x1, x2, x3, x4, x5, x6, x7, x8, x9, x10, x11, x12, x13, x14, x15,
          x16, x17, x18, x19

(* One accept line and one decline line, two rep turns. *)
S == INSTANCE Speaker WITH
        Accepts <- {"a1"}, Declines <- {"d1"}, Sims <- BOOLEAN, MaxTurns <- 2,
        MaxFast <- 1, MaxWaits <- 1, sim <- x1, floor <- x2, queued <- x3,
        stage <- x4, held <- x5, waits <- x6, fast <- x7, fastSays <- x8,
        fastTurns <- x9, call <- x10, disclosed <- x11, composing <- x12,
        incoming <- x13, rep <- x14, barge <- x15, stale <- x16, begun <- x17,
        landed <- x18, mark <- x19

(* Two Slow guides, two messages, a notice and an epoch. *)
F == INSTANCE FastLane WITH
        MaxGuides <- 2, MaxMsgs <- 2, MaxNotices <- 1, MaxLines <- 0,
        MaxEpochs <- 1, lane <- x1, closed <- x2, pending <- x3, phase <- x4,
        ask <- x5, voices <- x6, moved <- x7, since <- x8, hold <- x9,
        holds <- x10, newest <- x11, unvoiced <- x12, said <- x13,
        retried <- x14, card <- x15, sent <- x16

(* Two requests to start a case. *)
L == INSTANCE LiveCases WITH
        Posts <- {1, 2}, at <- x1, lockq <- x2, task <- x3, abandoned <- x4,
        run <- x5, session <- x6, stopping <- x7, started <- x8, late <- x9

(* One offer, one approval, three ticks, fences that may never clear. *)
A == INSTANCE Authority WITH
        Refs <- {"r1"}, Prices <- {1}, Changes <- {"none"}, Lives <- {}, Confs <- {},
        Lanes <- {"cp"}, MaxRev <- 1, MaxEpoch <- 1, MaxMandates <- 0,
        MaxDecided <- 1, MaxPosts <- 1, Horizon <- 2, CARD_TTL <- 2, CAP_TTL <- 2,
        Speech <- 1, status <- x1, epoch <- x2, now <- x3, offers <- x4,
        mandate <- x5, mandates <- x6, card <- x7, approvals <- x8, caps <- x9,
        evidence <- x10, fences <- x11, posts <- x12, timers <- x13, line <- x14,
        slow <- x15, replan <- x16, call <- x17, consents <- x18

Rest9 == <<x10, x11, x12, x13, x14, x15, x16, x17, x18, x19>>
Rest16 == <<x17, x18, x19>>

Init ==
    \/ /\ part = "speaker" /\ S!Init
    \/ /\ part = "fast lane" /\ F!Init
       /\ x17 = 0 /\ x18 = 0 /\ x19 = 0
    \/ /\ part = "live cases" /\ L!Init
       /\ x10 = 0 /\ x11 = 0 /\ x12 = 0 /\ x13 = 0 /\ x14 = 0 /\ x15 = 0
       /\ x16 = 0 /\ x17 = 0 /\ x18 = 0 /\ x19 = 0
    \/ /\ part = "authority" /\ A!Init
       /\ x19 = 0

Next ==
    /\ part' = part
    /\ \/ part = "speaker" /\ S!Next
       \/ part = "fast lane" /\ F!Next /\ UNCHANGED Rest16
       \/ part = "live cases" /\ L!Next /\ UNCHANGED Rest9
       \/ part = "authority" /\ A!Next /\ UNCHANGED x19

vars == <<part, x1, x2, x3, x4, x5, x6, x7, x8, x9, x10, x11, x12, x13, x14, x15,
          x16, x17, x18, x19>>

Spec == Init /\ [][Next]_vars

(* Which tasks run: asyncio runs every ready task once the running one      *)
(* awaits, and the clock and its sleeps do not stop while Slow steps.      *)
(* Authority: Slow's loop runs and its model call is bounded (CALL_S); a   *)
(* timer or line that is ready again and again between Slow's acts runs;   *)
(* the floor is assumed to come free, and the user, the rep, Fast and      *)
(* Slow's choice of tools are under no obligation.  Speaker: a ready task runs, a speech ends (12 s at     *)
(* most), the rep composes its turn, a fence wait ends (at the expiry at   *)
(* the latest), a model call ends, the call opens (at the intake's         *)
(* deadline); nobody need begin a rep turn, a FastC turn or a line.  Fast  *)
(* lane: its task runs, a model call and a speech end.  Live cases: the    *)
(* server's loop, its threads and its timers run; a start, and a session,  *)
(* may hang.                                                               *)
Ingress == S!TurnBegins \/ S!TurnSilent \/ S!TurnLands
FastTask == S!FastTurned \/ S!FastJoins \/ S!FastGivesBack \/ S!FastSilent
              \/ S!FastSpeaks \/ S!FastHeard
LineTask(v) == S!Begins(v) \/ S!Goes(v) \/ S!GivesBack(v) \/ S!Releases(v)
                 \/ S!IsRevoked(v) \/ S!WaitsForFence(v) \/ S!LineHeard(v)

SpeakerFair ==
    /\ WF_vars(part = "speaker" /\ S!CallOpens /\ UNCHANGED part)
    /\ WF_vars(part = "speaker" /\ S!Composed /\ UNCHANGED part)
    /\ WF_vars(part = "speaker" /\ Ingress /\ UNCHANGED part)
    /\ WF_vars(part = "speaker" /\ FastTask /\ UNCHANGED part)
    /\ \A v \in S!Verbatim :
          WF_vars(part = "speaker" /\ LineTask(v) /\ UNCHANGED part)

LaneFair == WF_vars(part = "fast lane" /\ F!Run /\ UNCHANGED <<part, Rest16>>)

StartsFair ==
    \A p \in {1, 2} :
        WF_vars(part = "live cases" /\ L!Served(p) /\ UNCHANGED <<part, Rest9>>)

InCase(step) == part = "authority" /\ step /\ UNCHANGED <<part, x19>>

AuthorityFair ==
    /\ WF_vars(InCase(A!StepStarted)) /\ WF_vars(InCase(x15 = "thinking" /\ A!Act))
    /\ WF_vars(InCase(A!StepCompleted))
    /\ SF_vars(InCase(A!Tick)) /\ SF_vars(InCase(A!CardExpires))
    /\ SF_vars(InCase(A!Release)) /\ SF_vars(InCase(A!Revoked))
    /\ SF_vars(InCase(A!Delivered))

FairSpec == Spec /\ SpeakerFair /\ LaneFair /\ StartsFair

-----------------------------------------------------------------------------
(* Every verbatim line is said or revoked: the floor's waits (the partner,  *)
(* the lock, a fence) end however the rep, FastC and other lines interleave*)
(* (kernel/speaker.py; x4 is stage).  A line is said once, and there are   *)
(* finitely many: a moment comes when none is under way.                   *)
LineStarted == part = "speaker" /\ \E v \in S!Verbatim : x4[v] # "none"
NoneUnderWay == part = "speaker" /\ \A v \in S!Verbatim : x4[v] \in {"none", "done"}

LinesEnd == LineStarted ~> NoneUnderWay

(* Every rep turn lands, and every FastC turn ends: neither is kept off    *)
(* the floor by lines that wait for it (x17 is begun, x18 landed, x7 fast).*)
TurnsLand ==
    /\ (part = "speaker" /\ x17 > 0) ~> (part = "speaker" /\ 1..x17 \subseteq x18)
    /\ (part = "speaker" /\ x7 # "none") ~> (part = "speaker" /\ x7 = "none")

(* What the lane was asked to say is settled: the newest GUIDE; a Slow     *)
(* message, unless the user never leaves the lane a moment; and FastC, if  *)
(* it keeps having something to say, says it: "a rep who keeps talking     *)
(* cannot starve FastC" (kernel/lanes.py; x4 is phase).                    *)
InLane == part = "fast lane"

Answers ==
    /\ \A g \in 1..2 : (InLane /\ F!Owes(g)) ~> (InLane /\ F!Settled(g))
    /\ []<>(InLane /\ F!Free) =>
          \A n \in 1..2 : (InLane /\ F!Waits(n)) ~> (InLane /\ ~F!Waits(n))
    /\ []<>(InLane /\ x4 = "floor") =>
          \/ []<>(InLane /\ x4 = "speaking")
          \/ []<><<InLane /\ F!Turns /\ x4' # "floor">>_vars

(* A start that hangs, or swallows its cancellation, still frees the lock   *)
(* (serve/start.py).  The two requests are alike: one stands for both.     *)
LockFreed ==
    (part = "live cases" /\ L!Waits(1)) ~> (part = "live cases" /\ L!Answered(1))

(* A case does not wait for the user forever: the card is decided, staled  *)
(* or expires, whatever the user and Slow do (x1 is status, x17 call).     *)
CaseIn(s) == part = "authority" /\ x1 = s
CaseLeft(s) == part = "authority" /\ (x1 # s \/ x17 = "ended")

AwaitingResolves == AuthorityFair => CaseIn("AWAITING_APPROVAL") ~> CaseLeft("AWAITING_APPROVAL")

(* An authorized accept is heard, cut or revoked: a fence that never       *)
(* clears holds the line only until its capability expires.                *)
CommitResolves == AuthorityFair => CaseIn("COMMIT_AUTHORIZED") ~> CaseLeft("COMMIT_AUTHORIZED")

(* A case that needs a replan is back in the call or closed: the move      *)
(* wakes Slow, and the step that saw it completes.                         *)
ReplanResolves == AuthorityFair => CaseIn("NEEDS_REPLAN") ~> CaseLeft("NEEDS_REPLAN")
=============================================================================
