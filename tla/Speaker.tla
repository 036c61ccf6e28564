------------------------------ MODULE Speaker ------------------------------
(***************************************************************************)
(* The floor of the phone call (kernel/speaker.py): the lock, FastC's      *)
(* turns, the Guard's verbatim lines, and the rep's turns that wait for it *)
(* or cut the line being said.  With it, the rep's channel                 *)
(* (kernel/channels.py), the ingress that lands its turns                  *)
(* (kernel/session.py) and the watchdog's ticks (kernel/watchdog.py).      *)
(*                                                                         *)
(* An action is what one task does between two awaits.  Two awaits are one *)
(* where nothing can come between.  Joining a free lock is a step apart    *)
(* from what follows it: a contended one is resumed just so.               *)
(***************************************************************************)
EXTENDS Integers, Sequences, FiniteSets

CONSTANTS
    Accepts,   \* accept lines
    Declines,  \* decline lines
    Sims,      \* what the rep can be, chosen once: simulated, or a person who types
    MaxTurns,  \* bound: rep turns
    MaxFast,   \* bound: FastC turns
    MaxWaits   \* bound: fence waits of one accept line

Verbatim == Accepts \cup Declines

ASSUME SpeakerConstants ==
    /\ Accepts \cap Declines = {} /\ Verbatim \cap {"fast", "rep"} = {}
    /\ IsFiniteSet(Verbatim)
    /\ Sims \subseteq BOOLEAN
    /\ {MaxTurns, MaxFast, MaxWaits} \subseteq Nat

(* A verbatim line that waits for the floor.  "idle" and "quiet": it       *)
(* awaits _partner_idle or the channel's quiet; "idled" and "quieted": the *)
(* event woke it; "lock": it awaits the lock.                              *)
Waiting == {"start", "idle", "idled", "quiet", "quieted", "lock"}
Stages == Waiting \cup {"none", "spawned", "fence", "speaking", "done"}

(* FastC's turn, from its request; "await": it awaits _no_queued.          *)
FastStages == {"none", "asked", "lines", "await", "woken", "lock", "speaking"}

(* Rep turns are numbered as they begin. *)
Turn == [n : Nat \ {0}, lines : BOOLEAN, end : BOOLEAN]
Turns(n) == [n : {n}, lines : BOOLEAN, end : BOOLEAN]
              \ {[n |-> n, lines |-> FALSE, end |-> FALSE]}
NoTurn == [n |-> 0, lines |-> FALSE, end |-> FALSE]

VARIABLES
    sim,       \* the rep is simulated; else a person types
    floor,     \* _lock: its holder, then those who wait for it
    queued,    \* _queued: verbatim lines that keep Fast from a new turn
    stage,     \* per verbatim line, where its task is
    held,      \* per verbatim line, counted in queued over its fence wait
    waits,     \* bound: fence waits so far
    fast,      \* FastC's turn; the first is the disclosure
    fastSays,  \* of that turn: it answers the rep; it is stale on the floor
    fastTurns, \* bound: FastC turns so far
    call,      \* "none", "open", "closed" (k.closed)
    disclosed, \* the disclosure was said
    composing, \* rep turns being composed (Channel._composing)
    incoming,  \* rep turns not yet taken (Channel.incoming)
    rep,       \* the rep turn that waits for the floor (_partner)
    barge,     \* _barge: the turn that set it, or 0
    stale,     \* _stale: the rep was busy when this speech began
    begun,     \* history: the last rep turn begun
    landed,    \* history: rep turns whose lines landed, or that had none
    mark       \* history: the last rep turn begun when this speech began

fastVars == <<fast, fastSays, fastTurns, disclosed>>
repVars == <<call, composing, incoming, rep, begun, landed>>
lineVars == <<stage, held, waits>>
speech == <<barge, stale, mark>>
vars == <<sim, floor, queued, lineVars, fastVars, repVars, speech>>

Holds(t) == floor # <<>> /\ Head(floor) = t
Speakers == {v \in Verbatim : stage[v] = "speaking"}
              \cup {t \in {"fast"} : fast = "speaking"}
Speaking == Speakers # {}
Busy == composing # {}
Pending == rep # NoTurn \/ Busy \/ incoming # <<>>   \* _partner_pending

Init ==
    /\ sim \in Sims /\ floor = <<>> /\ queued = 0
    /\ stage = [v \in Verbatim |-> "none"]
    /\ held = [v \in Verbatim |-> FALSE] /\ waits = [v \in Verbatim |-> 0]
    /\ fast = "none" /\ fastSays = [reply |-> FALSE, old |-> FALSE]
    /\ fastTurns = 0 /\ call = "none" /\ disclosed = FALSE
    /\ composing = {} /\ incoming = <<>> /\ rep = NoTurn
    /\ barge = 0 /\ stale = FALSE /\ begun = 0 /\ landed = {} /\ mark = 0

(* An event that lines await wakes them. *)
Wake(from, to) == [v \in Verbatim |-> IF stage[v] = from THEN to ELSE stage[v]]

-----------------------------------------------------------------------------
(* The rep. *)

BeginTurn == begun < MaxTurns /\ begun' = begun + 1

(* Channel.hear: a simulated rep is busy at once (SimRepChannel._run). *)
Hear ==
    IF sim /\ begun < MaxTurns
    THEN BeginTurn /\ composing' = composing \cup {begun + 1}
    ELSE UNCHANGED <<begun, composing>>

(* Mutant: the watchdog ticks while the agent speaks. *)
TickAnyTime ==
    /\ sim /\ disclosed /\ ~Busy /\ call = "open"
    /\ BeginTurn /\ composing' = {begun + 1}
    /\ UNCHANGED <<sim, floor, queued, lineVars, fastVars, call, incoming, rep,
                   landed, speech>>

(* The watchdog's tick: on a free floor, of a rep that is not busy. *)
Tick ==
    /\ sim /\ disclosed /\ ~Speaking /\ ~Busy /\ call = "open"
    /\ BeginTurn /\ composing' = {begun + 1}
    /\ UNCHANGED <<sim, floor, queued, lineVars, fastVars, call, incoming, rep,
                   landed, speech>>

(* A composed turn is queued before the channel is quiet: lines, an end of *)
(* the call with or without lines, or nothing.                             *)
Composed ==
    \E n \in composing :
        /\ composing' = composing \ {n}
        /\ stage' = IF composing' = {} THEN Wake("quiet", "quieted") ELSE stage
        /\ \/ incoming' = incoming /\ landed' = landed \cup {n}
           \/ /\ \E t \in Turns(n) : incoming' = Append(incoming, t)
              /\ landed' = landed
        /\ UNCHANGED <<sim, floor, queued, held, waits, fastVars, call, rep,
                       begun, speech>>

(* A person types a line, before the call's ingress runs or after. *)
Types ==
    /\ ~sim /\ BeginTurn
    /\ incoming' = Append(incoming, [n |-> begun', lines |-> TRUE, end |-> FALSE])
    /\ UNCHANGED <<sim, floor, queued, lineVars, fastVars, call, composing, rep,
                   landed, speech>>

(* The ingress takes one turn at a time, once the call was opened. *)
Takes == call # "none" /\ rep = NoTurn /\ incoming # <<>>

(* partner_turn begins: it cuts the line being said, unless the rep was    *)
(* busy when that speech began, and waits for the floor.                   *)
TurnBegins ==
    /\ Takes /\ call = "open" /\ Head(incoming).lines
    /\ rep' = Head(incoming) /\ incoming' = Tail(incoming)
    /\ barge' = IF Speaking /\ stale THEN barge ELSE rep'.n
    /\ floor' = Append(floor, "rep")
    /\ UNCHANGED <<sim, queued, lineVars, fastVars, call, composing, begun,
                   landed, stale, mark>>

(* A turn without lines waits for nothing; after the call none lands. *)
TurnSilent ==
    /\ Takes /\ (call = "closed" \/ ~Head(incoming).lines)
    /\ incoming' = Tail(incoming) /\ landed' = landed \cup {Head(incoming).n}
    /\ call' = IF Head(incoming).end THEN "closed" ELSE call
    /\ UNCHANGED <<sim, floor, queued, lineVars, fastVars, composing, rep,
                   begun, speech>>

(* Mutant: lines that wait for the partner are not woken. *)
TurnLandsAsleep ==
    /\ Holds("rep") /\ floor' = Tail(floor)
    /\ rep' = NoTurn /\ landed' = landed \cup {rep.n}
    /\ call' = IF rep.end THEN "closed" ELSE call
    /\ fastSays' = [fastSays EXCEPT !.old = @ \/ (fastSays.reply /\ fast # "none")]
    /\ UNCHANGED <<sim, queued, lineVars, fast, fastTurns, disclosed, composing,
                   incoming, begun, speech>>

(* The floor is given back at once and the turn's lines land: a reply of   *)
(* FastC's requested before them is stale.  Then the partner is idle.      *)
TurnLands ==
    /\ Holds("rep") /\ floor' = Tail(floor)
    /\ rep' = NoTurn /\ landed' = landed \cup {rep.n}
    /\ call' = IF rep.end THEN "closed" ELSE call
    /\ fastSays' = [fastSays EXCEPT !.old = @ \/ (fastSays.reply /\ fast # "none")]
    /\ stage' = Wake("idle", "idled")
    /\ UNCHANGED <<sim, queued, held, waits, fast, fastTurns, disclosed,
                   composing, incoming, begun, speech>>

-----------------------------------------------------------------------------
(* FastC (speak), and the disclosure that opens the call. *)

(* _call and _disclose: the disclosure, ready to be said. *)
CallOpens ==
    /\ call = "none" /\ fast = "none" /\ call' = "open" /\ fast' = "lines"
    /\ UNCHANGED <<sim, floor, queued, lineVars, fastSays, fastTurns, disclosed,
                   composing, incoming, rep, begun, landed, speech>>

FastAsks ==
    /\ fast = "none" /\ disclosed /\ call = "open" /\ fastTurns < MaxFast
    /\ fast' = "asked" /\ fastTurns' = fastTurns + 1
    /\ \E reply \in BOOLEAN : fastSays' = [reply |-> reply, old |-> FALSE]
    /\ UNCHANGED <<sim, floor, queued, lineVars, repVars, disclosed, speech>>

(* The turn is there, with lines to say or none. *)
FastTurned ==
    /\ fast = "asked" /\ fast' \in {"lines", "none"}
    /\ UNCHANGED <<sim, floor, queued, lineVars, repVars, fastSays, fastTurns,
                   disclosed, speech>>

(* It awaits the lock, once no verbatim line is counted. *)
FastJoins ==
    /\ fast \in {"lines", "woken"}
    /\ IF fast = "lines" /\ queued > 0
       THEN fast' = "await" /\ floor' = floor
       ELSE fast' = "lock" /\ floor' = Append(floor, "fast")
    /\ UNCHANGED <<sim, queued, lineVars, repVars, fastSays, fastTurns,
                   disclosed, speech>>

(* Mutant: it awaits the lock of nobody. *)
OnFloorNow == fast = "lock"

OnFloor == Holds("fast") /\ fast = "lock"

(* Mutant: it keeps the lock while it waits. *)
FastKeepsFloor ==
    /\ OnFloor /\ queued > 0 /\ fast' = "await"
    /\ UNCHANGED <<sim, floor, queued, lineVars, repVars, fastSays, fastTurns,
                   disclosed, speech>>

(* A verbatim line was counted meanwhile. *)
FastGivesBack ==
    /\ OnFloor /\ queued > 0
    /\ floor' = Tail(floor) /\ fast' = "await"
    /\ UNCHANGED <<sim, queued, lineVars, repVars, fastSays, fastTurns,
                   disclosed, speech>>

(* The turn is stale, or the call is over: nothing is said. *)
FastSilent ==
    /\ OnFloor /\ queued = 0 /\ (call = "closed" \/ (disclosed /\ fastSays.old))
    /\ floor' = Tail(floor) /\ fast' = "none"
    /\ disclosed' = TRUE
    /\ UNCHANGED <<sim, queued, lineVars, repVars, fastSays, fastTurns, speech>>

(* A speech begins (_deliver). *)
SpeechBegins == barge' = 0 /\ stale' = Busy /\ mark' = begun

FastSpeaks ==
    /\ OnFloor /\ queued = 0 /\ call = "open" /\ ~(disclosed /\ fastSays.old)
    /\ fast' = "speaking" /\ SpeechBegins
    /\ UNCHANGED <<sim, floor, queued, lineVars, repVars, fastSays, fastTurns,
                   disclosed>>

FastEnds == floor' = Tail(floor) /\ fast' = "none" /\ disclosed' = TRUE

(* Heard whole; the rep hears it once the floor is free. *)
FastHeard ==
    /\ fast = "speaking" /\ FastEnds /\ Hear
    /\ UNCHANGED <<sim, queued, lineVars, fastSays, fastTurns, call, incoming,
                   rep, landed, speech>>

(* Cut, a prefix of it heard or nothing.  The disclosure is not cut. *)
FastCut ==
    /\ fast = "speaking" /\ disclosed /\ barge # 0 /\ FastEnds
    /\ Hear \/ UNCHANGED <<begun, composing>>
    /\ UNCHANGED <<sim, queued, lineVars, fastSays, fastTurns, call, incoming,
                   rep, landed, speech>>

-----------------------------------------------------------------------------
(* The Guard's verbatim lines. *)

(* speak.verbatim spawns the line's task.  One accept is in flight at a    *)
(* time, for terms the rep read out; an offer without slots may be         *)
(* recorded, and declined, at any time.                                    *)
Asked(v) ==
    /\ stage[v] = "none" /\ stage' = [stage EXCEPT ![v] = "spawned"]
    /\ v \in Accepts => /\ landed # {}
                        /\ \A a \in Accepts : stage[a] \in {"none", "done"}
    /\ UNCHANGED <<sim, floor, queued, held, waits, fastVars, repVars, speech>>

(* Mutant: the count falls to zero and Fast's task sleeps on. *)
QueueAsleep(n) == queued' = n /\ fast' = fast

(* _queue: at zero, Fast's task is woken. *)
Queue(n) ==
    /\ queued' = n
    /\ fast' = IF n = 0 /\ fast = "await" THEN "woken" ELSE fast

(* The line waits for the floor: first, or again after a fence wait, which *)
(* a fence, the epoch or the expiry ends.                                  *)
Begins(v) ==
    /\ stage[v] \in {"spawned", "fence"}
    /\ stage' = [stage EXCEPT ![v] = "start"] /\ Queue(queued + 1)
    /\ UNCHANGED <<sim, floor, held, waits, fastSays, fastTurns, disclosed,
                   repVars, speech>>

(* _floor_after_partner, up to the lock: where the line's task gets to.    *)
Reaches(from) ==
    LET quieted == IF incoming # <<>> THEN "start" ELSE "lock"
        idled   == IF Busy THEN "quiet" ELSE quieted
    IN  CASE from = "start"   -> IF rep # NoTurn THEN "idle" ELSE idled
          [] from = "idled"   -> idled
          [] from = "quieted" -> quieted

Goes(v) ==
    /\ stage[v] \in {"start", "idled", "quieted"}
    /\ stage' = [stage EXCEPT ![v] = Reaches(stage[v])]
    /\ floor' = IF stage'[v] = "lock" THEN Append(floor, v) ELSE floor
    /\ UNCHANGED <<sim, queued, held, waits, fastVars, repVars, speech>>

(* A rep turn began while it waited for the lock: it gives the floor back. *)
GivesBack(v) ==
    /\ Holds(v) /\ stage[v] = "lock" /\ Pending
    /\ floor' = Tail(floor) /\ stage' = [stage EXCEPT ![v] = "start"]
    /\ UNCHANGED <<sim, queued, held, waits, fastVars, repVars, speech>>

(* Mutant: the rep is not looked at again on the floor. *)
TakesFloorBlind(v) == Holds(v) /\ stage[v] = "lock"

(* The floor is its, and no rep turn is pending: it no longer counts, nor  *)
(* over its fence wait.                                                    *)
TakesFloor(v) == Holds(v) /\ stage[v] = "lock" /\ ~Pending

Uncounted(v) == queued - 1 - (IF held[v] THEN 1 ELSE 0)
NotHeld(v) == held' = [held EXCEPT ![v] = FALSE]

(* speak.released, and the speech.  Whether an accept may go out depends   *)
(* on fences, epoch and expiry, which are not here.                        *)
Releases(v) ==
    /\ TakesFloor(v) /\ call # "closed" /\ Queue(Uncounted(v)) /\ NotHeld(v)
    /\ stage' = [stage EXCEPT ![v] = "speaking"] /\ SpeechBegins
    /\ UNCHANGED <<sim, floor, waits, fastSays, fastTurns, disclosed, repVars>>

(* speak.revoked: the call is over, or an accept may not go out. *)
IsRevoked(v) ==
    /\ TakesFloor(v) /\ (call = "closed" \/ v \in Accepts)
    /\ Queue(Uncounted(v)) /\ NotHeld(v)
    /\ stage' = [stage EXCEPT ![v] = "done"] /\ floor' = Tail(floor)
    /\ UNCHANGED <<sim, waits, fastSays, fastTurns, disclosed, repVars, speech>>

(* Mutant: a line held before is counted again, and never uncounted. *)
WaitsForFenceTwice(v) ==
    /\ TakesFloor(v) /\ call # "closed" /\ v \in Accepts /\ waits[v] < MaxWaits
    /\ Queue(queued) /\ NotHeld(v)
    /\ stage' = [stage EXCEPT ![v] = "fence"] /\ floor' = Tail(floor)
    /\ waits' = [waits EXCEPT ![v] = @ + 1]
    /\ UNCHANGED <<sim, fastSays, fastTurns, disclosed, repVars, speech>>

(* Partner fences hold the accept: it gives the floor back, and if each is *)
(* bound it stays counted.                                                 *)
WaitsForFence(v) ==
    /\ TakesFloor(v) /\ call # "closed" /\ v \in Accepts /\ waits[v] < MaxWaits
    /\ \E bound \in BOOLEAN :
        /\ held' = [held EXCEPT ![v] = bound]
        /\ Queue(Uncounted(v) + (IF bound THEN 1 ELSE 0))
    /\ stage' = [stage EXCEPT ![v] = "fence"] /\ floor' = Tail(floor)
    /\ waits' = [waits EXCEPT ![v] = @ + 1]
    /\ UNCHANGED <<sim, fastSays, fastTurns, disclosed, repVars, speech>>

(* utt.delivered of the line: a FastC turn requested before it is stale. *)
LineEnds(v) ==
    /\ stage[v] = "speaking" /\ stage' = [stage EXCEPT ![v] = "done"]
    /\ floor' = Tail(floor)
    /\ fastSays' = [fastSays EXCEPT !.old = @ \/ (disclosed /\ fast # "none")]
    /\ UNCHANGED <<sim, queued, held, waits, fast, fastTurns, disclosed, call,
                   incoming, rep, landed, speech>>

LineHeard(v) == LineEnds(v) /\ Hear
LineCut(v) == LineEnds(v) /\ barge # 0 /\ (Hear \/ UNCHANGED <<begun, composing>>)

-----------------------------------------------------------------------------
RepStep == Tick \/ Composed \/ Types \/ TurnBegins \/ TurnSilent \/ TurnLands
FastStep ==
    \/ CallOpens \/ FastAsks \/ FastTurned \/ FastJoins \/ FastGivesBack
    \/ FastSilent \/ FastSpeaks \/ FastHeard \/ FastCut
LineStep(v) ==
    \/ Asked(v) \/ Begins(v) \/ Goes(v) \/ GivesBack(v)
    \/ Releases(v) \/ IsRevoked(v) \/ WaitsForFence(v)
    \/ LineHeard(v) \/ LineCut(v)

Next == RepStep \/ FastStep \/ \E v \in Verbatim : LineStep(v)

Spec == Init /\ [][Next]_vars

-----------------------------------------------------------------------------
(* Properties. *)

Values ==
    /\ sim \in BOOLEAN
    /\ floor \in Seq(Verbatim \cup {"fast", "rep"})
    /\ stage \in [Verbatim -> Stages]
    /\ held \in [Verbatim -> BOOLEAN] /\ waits \in [Verbatim -> Nat]
    /\ fast \in FastStages /\ fastSays \in [reply : BOOLEAN, old : BOOLEAN]
    /\ fastTurns \in Nat /\ disclosed \in BOOLEAN
    /\ call \in {"none", "open", "closed"}
    /\ composing \subseteq Nat \ {0} /\ incoming \in Seq(Turn) /\ rep \in Turn \cup {NoTurn}
    /\ barge \in Nat /\ stale \in BOOLEAN
    /\ begun \in Nat /\ landed \subseteq Nat /\ mark \in Nat

(* Every variable holds a value its counterpart in the code can hold: no   *)
(* path uncounts a line it did not count (Speaker._queued).                *)
TypeOK == Values /\ queued \in Nat

(* A verbatim line goes out only once every rep turn begun has landed, so  *)
(* an accept is revalidated on a board that has it (I6; kernel/speaker.py, *)
(* "an accept is revalidated only on a board that has the partner's turn").*)
ReleaseAfterRep == [][\A v \in Verbatim : Releases(v) => 1..begun \subseteq landed]_vars

(* An accept or decline line is cut only by a rep turn begun after it; the *)
(* simulated rep, which speaks only when spoken to or on a free floor,     *)
(* never cuts one.                                                         *)
LineCutFairly == [][\A v \in Verbatim : LineCut(v) => ~sim /\ barge > mark]_vars

(* One speaks at a time: who speaks holds the lock, and in the lock's queue *)
(* are those who speak or await it, each once (Speaker._lock).  Else two   *)
(* lines are said over each other, or a task that gave up its wait still   *)
(* gets the floor and nobody gives it back.                                *)
Seekers ==
    {v \in Verbatim : stage[v] \in {"lock", "speaking"}}
    \cup {t \in {"fast"} : fast \in {"lock", "speaking"}}
    \cup {t \in {"rep"} : rep # NoTurn}

OneSpeaker ==
    /\ \A t \in Speakers : Holds(t)
    /\ \A i, j \in DOMAIN floor : floor[i] = floor[j] => i = j
    /\ {floor[i] : i \in DOMAIN floor} = Seekers

(* _queued counts the lines that wait for the floor, and those held over a *)
(* fence wait once more while they wait for it again: no path leaves a     *)
(* count behind, which would keep Fast silent for good.                    *)
QueuedCounts ==
    queued = Cardinality({v \in Verbatim : stage[v] \in Waiting})
               + Cardinality({v \in Verbatim : held[v]})

(* No wake is missed: who awaits an event awaits one that is still to come. *)
(* A line awaits a rep turn that has begun and not landed, or a rep who is *)
(* composing; FastC awaits lines that are counted.  Else the event came    *)
(* before the wait or between its tests, and the line or FastC is silent   *)
(* for the rest of the call (kernel/speaker.py:182, asyncio.Event).  With  *)
(* OneSpeaker, no circle is left: what FastC awaits awaits the rep or the  *)
(* lock, the rep's turn the lock, and whoever holds the lock can step.     *)
NoWakeMissed ==
    /\ \A v \in Verbatim : /\ stage[v] = "idle" => rep # NoTurn
                          /\ stage[v] = "quiet" => Busy
    /\ fast = "await" => queued > 0

(* "A partner turn begun before this speech answers an older line: it      *)
(* waits for the floor instead of cutting the line" (kernel/speaker.py).   *)
OlderTurnWaits ==
    [][Speaking /\ barge' \notin {0, barge} => barge' > mark]_vars

(* The disclosure is the first line the rep hears of the agent (I11;       *)
(* kernel/calls.py, "the first thing the rep hears").                      *)
DisclosureFirst == [][\A v \in Verbatim : Releases(v) => disclosed]_vars
=============================================================================
