------------------------------- MODULE Wakes --------------------------------
(***************************************************************************)
(* When Slow takes a step (kernel/wake.py, slow/loop.py): wakes that merge *)
(* into the next step, rep lines held for FastC's answer, and the one      *)
(* timer.  Time is urgent: a due timer fires and a woken, idle Slow starts *)
(* before time passes (they are ready tasks).                              *)
(***************************************************************************)
EXTENDS Integers, FiniteSets

CONSTANTS
    HEARTBEAT,  \* HEARTBEAT_S
    Waits,      \* seconds a wait call may ask for
    MAX_STEPS,  \* steps of one session
    Horizon,    \* bound: time
    MaxLines,   \* bound: rep lines
    NoTime       \* no time

VARIABLES
    now,
    ended,     \* the session ended: slow_step_cap
    call,      \* "none", "open", "closed" (Wakes._call)
    fast,      \* FastC: "idle", "asked" (its request is out), "speaks"
    triggered, \* FastC has a trigger pending
    lines,     \* _lines is not empty: rep lines no cp generation has seen
    gens,      \* _gens is not empty: the generation that saw one runs
    held,      \* _held
    timer,     \* _due, with the reason it wakes for
    slow,      \* "idle", "step", "finished"
    asked,     \* the running step's successful wait (_wait)
    steps,     \* SlowLoop.steps
    reasons,   \* SlowLoop._reasons
    said,      \* bound: rep lines so far
    unseen,    \* history: lines in the call that no step has seen
    rested     \* history: since when Slow is idle in the call

session == <<now, ended, steps, said>>
vars == <<session, call, fast, triggered, lines, gens, held, timer, slow,
          asked, reasons, unseen, rested>>

NoTimer == [due |-> NoTime, why |-> "none"]
Later(a, b) == IF a > b THEN a ELSE b

Init ==
    /\ now = 0 /\ ended = FALSE /\ call = "none" /\ fast = "idle"
    /\ triggered = FALSE /\ lines = FALSE /\ gens = FALSE
    /\ held = NoTime /\ timer = NoTimer
    /\ slow = "idle" /\ asked = NoTime /\ steps = 0 /\ reasons = {}
    /\ said = 0 /\ unseen = {} /\ rested = NoTime

Stopped == ended \/ slow = "finished"
Urgent == \/ slow = "idle" /\ reasons # {}
          \/ timer # NoTimer /\ timer.due <= now

(* slow.wake: the reasons of wakes during a step wait for the next. *)
Woken(rs) == reasons' = reasons \cup rs

(* The generation of those lines of ls has ended, or FastC will not answer *)
(* them.                                                                   *)
Answered(ls, those) ==
    {[l EXCEPT !.fast = IF l \in those /\ @ = NoTime THEN now ELSE @] : l \in ls}

TimePasses ==
    /\ now < Horizon /\ ~Urgent /\ ~ended /\ now' = now + 1
    /\ UNCHANGED <<ended, steps, said, call, fast, triggered, lines, gens, held,
                   timer, slow, asked, reasons, unseen, rested>>

-----------------------------------------------------------------------------
(* The call. *)

Opens ==
    /\ call = "none" /\ ~ended /\ call' = "open" /\ Woken({"call_opened"})
    /\ rested' = IF slow = "idle" THEN now ELSE NoTime
    /\ UNCHANGED <<session, fast, triggered, lines, gens, held, timer, slow,
                   asked, unseen>>

(* _hold: the line's backstop, unless a step runs or the timer is earlier. *)
Hold ==
    /\ held' = IF held = NoTime THEN now ELSE held
    /\ timer' = IF /\ slow = "idle"
                   /\ timer = NoTimer \/ timer.due > now + HEARTBEAT
                THEN [due |-> now + HEARTBEAT, why |-> "heartbeat"] ELSE timer

(* utt.final of the rep. *)
RepLine ==
    /\ call = "open" /\ ~Stopped /\ said < MaxLines /\ said' = said + 1
    /\ lines' = TRUE /\ triggered' = TRUE /\ Hold
    /\ unseen' = unseen \cup {[at |-> now, gen |-> FALSE, fast |-> NoTime,
                               free |-> IF slow = "step" THEN NoTime ELSE now]}
    /\ UNCHANGED <<now, ended, steps, call, fast, gens, slow, asked, reasons, rested>>

(* chan.closed: FastC will not answer the held lines now. *)
Closes ==
    /\ call = "open" /\ ~ended /\ call' = "closed"
    /\ Woken((IF lines \/ gens THEN {"rep_turn"} ELSE {}) \cup {"call_closed"})
    /\ lines' = FALSE /\ gens' = FALSE /\ held' = NoTime
    /\ unseen' = Answered(unseen, unseen)
    /\ rested' = NoTime
    /\ UNCHANGED <<session, fast, triggered, timer, slow, asked>>

(* Any wake of another component: a strike in the call, evidence, a relay  *)
(* of the user lane, and those of kernel/fence.py.                         *)
OtherWake ==
    /\ ~Stopped /\ reasons = {}
    /\ Woken({"other"})
    /\ UNCHANGED <<session, call, fast, triggered, lines, gens, held, timer,
                   slow, asked, unseen, rested>>

-----------------------------------------------------------------------------
(* FastC: one generation at a time. *)

(* Slow's guidance, a card or a message triggers it too. *)
OtherTrigger ==
    /\ call = "open" /\ ~Stopped /\ ~triggered /\ triggered' = TRUE
    /\ UNCHANGED <<session, call, fast, lines, gens, held, timer, slow, asked,
                   reasons, unseen, rested>>

(* fast.request: its basis has every line said so far. *)
FastAsks ==
    /\ fast = "idle" /\ triggered /\ ~ended
    /\ triggered' = FALSE
    /\ fast' = IF call = "open" THEN "asked" ELSE "idle"
    /\ gens' = ((call = "open" /\ lines) \/ gens) /\ lines' = FALSE
    /\ unseen' = {[l EXCEPT !.gen = TRUE] : l \in unseen}
    /\ UNCHANGED <<session, call, held, timer, slow, asked, reasons, rested>>

(* fast.turn or fast.cancelled, with the turn's relays; then it may speak, *)
(* which keeps the lane busy.                                              *)
FastTurns ==
    /\ fast = "asked" /\ ~ended
    /\ \E relay \in BOOLEAN :
          Woken({r \in {"rep_turn"} : gens} \cup {r \in {"relay"} : relay})
    /\ gens' = FALSE /\ fast' \in {"idle", "speaks"}
    /\ unseen' = Answered(unseen, {l \in unseen : l.gen})
    /\ UNCHANGED <<session, call, triggered, lines, held, timer, slow, asked, rested>>

FastSpoke ==
    /\ fast = "speaks" /\ fast' = "idle"
    /\ UNCHANGED <<session, call, triggered, lines, gens, held, timer, slow,
                   asked, reasons, unseen, rested>>

-----------------------------------------------------------------------------
(* Slow. *)

(* fire: a timer that is not armed again since wakes Slow. *)
TimerFires ==
    /\ timer # NoTimer /\ timer.due <= now /\ ~ended
    /\ Woken({timer.why}) /\ timer' = NoTimer
    /\ UNCHANGED <<session, call, fast, triggered, lines, gens, held, slow,
                   asked, unseen, rested>>

(* SlowLoop.run: a step starts with every reason so far, and sees every    *)
(* line said so far; it disarms the timer.                                 *)
StepStarts ==
    /\ slow = "idle" /\ reasons # {} /\ ~ended /\ steps < MAX_STEPS
    /\ slow' = "step" /\ steps' = steps + 1 /\ reasons' = {}
    /\ timer' = NoTimer /\ held' = NoTime /\ asked' = NoTime
    /\ unseen' = {} /\ rested' = NoTime
    /\ UNCHANGED <<now, ended, said, call, fast, triggered, lines, gens>>

(* slow_step_cap: a loud end. *)
StepCap ==
    /\ slow = "idle" /\ reasons # {} /\ ~ended /\ steps = MAX_STEPS
    /\ ended' = TRUE
    /\ UNCHANGED <<now, steps, said, call, fast, triggered, lines, gens, held,
                   timer, slow, asked, reasons, unseen, rested>>

(* slow.tool{wait}: the step's last successful one counts. *)
Waited ==
    /\ slow = "step" /\ asked = NoTime /\ asked' \in Waits
    /\ UNCHANGED <<session, call, fast, triggered, lines, gens, held, timer,
                   slow, reasons, unseen, rested>>

(* Mutant: a wait delays the next step past the heartbeat. *)
CompletedUncapped ==
    LET after == IF call = "open" /\ asked = NoTime THEN HEARTBEAT ELSE asked
        due   == IF after = NoTime THEN NoTime ELSE now + after
        line  == Later(now, held + HEARTBEAT)
    IN  IF call = "open" /\ held # NoTime /\ (due = NoTime \/ line < due)
        THEN [due |-> line, why |-> "heartbeat"]
        ELSE IF due = NoTime THEN timer ELSE [due |-> due, why |-> "timer"]

(* Mutant: a line said during the step is not backed up. *)
CompletedForgets ==
    LET capped == call = "open" /\ (asked = NoTime \/ asked > HEARTBEAT)
        after  == IF capped THEN HEARTBEAT ELSE asked
    IN  IF after = NoTime THEN timer
        ELSE [due |-> now + after, why |-> IF capped THEN "heartbeat" ELSE "timer"]

(* _completed: the timer after a step. *)
Completed ==
    LET capped == call = "open" /\ (asked = NoTime \/ asked > HEARTBEAT)
        after  == IF capped THEN HEARTBEAT ELSE asked
        due    == IF after = NoTime THEN NoTime ELSE now + after
        line   == Later(now, held + HEARTBEAT)
    IN  IF call = "open" /\ held # NoTime /\ (due = NoTime \/ line < due)
        THEN [due |-> line, why |-> "heartbeat"]
        ELSE IF due = NoTime THEN timer
        ELSE [due |-> due, why |-> IF capped THEN "heartbeat" ELSE "timer"]

(* slow.step.completed, after a successful finish or none. *)
StepCompletes ==
    /\ slow = "step" /\ ~ended
    /\ \/ slow' = "finished" /\ timer' = timer /\ rested' = NoTime
       \/ /\ slow' = "idle" /\ timer' = Completed
          /\ rested' = IF call = "open" THEN now ELSE NoTime
    /\ unseen' = {[l EXCEPT !.free = IF @ = NoTime THEN now ELSE @] : l \in unseen}
    /\ UNCHANGED <<session, call, fast, triggered, lines, gens, held, asked, reasons>>

Next ==
    \/ TimePasses \/ Opens \/ RepLine \/ Closes \/ OtherWake
    \/ OtherTrigger \/ FastAsks \/ FastTurns \/ FastSpoke
    \/ TimerFires \/ StepStarts \/ StepCap \/ Waited \/ StepCompletes

Spec == Init /\ [][Next]_vars

-----------------------------------------------------------------------------
(* "a step with basis at or after a rep line starts by the later of the    *)
(* end of the Slow step running when it was said and the end of the FastC  *)
(* generation that saw it, and never later than HEARTBEAT_S after the line,*)
(* or that running step's end if later" (kernel/wake.py): a line no step   *)
(* has seen is younger than both.                                          *)
LagBound ==
    slow = "idle" /\ ~ended =>
        \A l \in unseen :
            /\ l.fast # NoTime => now <= Later(l.free, l.fast)
            /\ now <= Later(l.at + HEARTBEAT, l.free)

(* In the call Slow is never idle for longer than HEARTBEAT_S: whatever it *)
(* waited for, and even if no event comes, it looks at the call again      *)
(* (kernel/wake.py, "a wait never delays it past the heartbeat").          *)
NeverIdle == call = "open" /\ slow = "idle" /\ ~ended => now <= rested + HEARTBEAT
=============================================================================
