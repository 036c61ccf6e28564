----------------------------- MODULE ModelCalls -----------------------------
(***************************************************************************)
(* The model calls of a session and its end: attempts and the one retry    *)
(* (llm/http.py), their charges (llm/spend.py), calls that Slow, a Fast    *)
(* lane and the world make in tasks of their own, and what a task's error  *)
(* makes of the session (kernel/session.py).  A priced call costs 1, in    *)
(* micro-USD and in tokens.                                                *)
(***************************************************************************)
EXTENDS Integers, FiniteSets

CONSTANTS
    Endpoint,         \* per task: "rated", "unrated" or "vllm"
    Streaming,        \* tasks whose calls stream text; the others get one body
    CAP,              \* limit_micro_usd
    Projected,        \* projected tokens, and calls, of a session
    MAX_REGENERATIONS,
    MaxCalls,         \* bound: calls of one task
    None

VARIABLES
    call,     \* per task: its attempt in flight, or None
    calls,    \* per task: calls begun
    tries,    \* the world's regenerations of this answer
    live,     \* tasks that have not ended
    more,     \* tasks that may run one more step after the first end
    ending,   \* _ending: the first reason
    dead,     \* _dead: an endpoint died
    leaves,   \* what the TaskGroup collects: the errors of ended tasks
    aborted,  \* the TaskGroup cancels what still runs, for an error or for the
              \* caller's cancellation
    ledger,   \* SpendLedger: micro-USD, tokens, unpriced calls
    attempts, \* history: HTTP attempts begun, and those charged
    late,     \* history: a Fast or Slow call began after a limit was crossed
    reason    \* session.ended's reason

vars == <<call, calls, tries, live, more, ending, dead, leaves, aborted, ledger,
          attempts, late, reason>>

Tasks == {"slow", "fast", "world"}
NEW_WORK == {"slow", "fast"}   \* slow.step.started, fast.request

FACTOR == IF \E t \in Tasks : Endpoint[t] = "unrated" THEN 1 ELSE 3
Crossed(l) ==
    \/ l.usd > CAP
    \/ l.tokens > FACTOR * Projected
    \/ l.unpriced > FACTOR * Projected

Init ==
    /\ call = [t \in Tasks |-> None] /\ calls = [t \in Tasks |-> 0] /\ tries = 0
    /\ live = Tasks /\ more = Tasks /\ ending = None /\ dead = FALSE
    /\ leaves = {} /\ aborted = FALSE
    /\ ledger = [usd |-> 0, tokens |-> 0, unpriced |-> 0]
    /\ attempts = [begun |-> 0, charged |-> 0] /\ late = FALSE /\ reason = None

(* A task ready when the first one ends runs one more step: the TaskGroup  *)
(* aborts in the ended task's done callback.                               *)
MayStep(t) ==
    /\ t \in live /\ ~aborted /\ (leaves = {} \/ t \in more)
    /\ more' = IF leaves = {} THEN more ELSE more \ {t}

(* _task: the first end's reason stands. *)
End(r) == ending' = IF ending = None THEN r ELSE ending
Leaves(t, leaf) == live' = live \ {t} /\ leaves' = leaves \cup {leaf}
TaskEnds(t, leaf, r) == Leaves(t, leaf) /\ End(r)

-----------------------------------------------------------------------------
(* Attempts. *)

Attempt(n) == [n |-> n, text |-> FALSE, usage |-> FALSE, finish |-> FALSE,
               done |-> FALSE]

(* complete, of a stream: a finish reason, then [DONE] or the usage chunk. *)
Complete(t) ==
    LET c == call[t]
    IN  IF t \in Streaming THEN c.finish /\ (c.done \/ c.usage) ELSE c.text

(* _record and _charge: llm.call and spend.charged of an attempt, a failed *)
(* or a cancelled one too.                                                 *)
Charged(t) ==
    LET priced == Endpoint[t] = "rated" /\ call[t].usage
        vllm   == Endpoint[t] = "vllm"
        tokens == ~vllm /\ call[t].usage
    IN  [usd |-> ledger.usd + IF priced THEN 1 ELSE 0,
         tokens |-> ledger.tokens + IF tokens THEN 1 ELSE 0,
         unpriced |-> ledger.unpriced + IF priced \/ vllm THEN 0 ELSE 1]

Record(t) ==
    /\ ledger' = Charged(t)
    /\ attempts' = [attempts EXCEPT !.charged = @ + 1]

(* RunawaySpend: raised by the sink, whatever the attempt's outcome was. *)
Runaway(t) == Crossed(Charged(t))

(* Mutant: a Fast lane starts its generation whatever ends. *)
FastRefused(t) == t = "slow" /\ ending # None

(* fast.request, slow.step.started: none after the end.  World calls go on.*)
Refused(t) == t \in NEW_WORK /\ ending # None

Begins(t) ==
    /\ call[t] = None /\ calls[t] < MaxCalls /\ MayStep(t)
    /\ IF Refused(t)
       THEN /\ TaskEnds(t, "SessionEnd", ending)
            /\ UNCHANGED <<call, calls, attempts, late>>
       ELSE /\ call' = [call EXCEPT ![t] = Attempt(0)]
            /\ calls' = [calls EXCEPT ![t] = @ + 1]
            /\ attempts' = [attempts EXCEPT !.begun = @ + 1]
            /\ late' = (late \/ (t \in NEW_WORK /\ Crossed(ledger)))
            /\ UNCHANGED <<live, leaves, ending>>
    /\ UNCHANGED <<tries, dead, aborted, ledger, reason>>

(* A chunk of the stream, or the one body; it may leave out the usage. *)
Chunk(t) ==
    /\ call[t] # None /\ MayStep(t)
    /\ IF t \in Streaming
       THEN call' \in {[call EXCEPT ![t].text = TRUE], [call EXCEPT ![t].usage = TRUE],
                       [call EXCEPT ![t].finish = TRUE], [call EXCEPT ![t].done = TRUE]}
       ELSE \E u \in BOOLEAN :
              call' = [call EXCEPT ![t].text = TRUE, ![t].usage = u]
    /\ UNCHANGED <<calls, tries, live, ending, dead, leaves, aborted, ledger,
                   attempts, late, reason>>

(* Mutant: a retried attempt leaves no record. *)
SilentRetry(t) ==
    /\ UNCHANGED ledger
    /\ attempts' = [attempts EXCEPT !.begun = @ + 1]

Retry(t) ==
    /\ ledger' = Charged(t)
    /\ attempts' = [begun |-> attempts.begun + 1, charged |-> attempts.charged + 1]

(* One retry, only for a connection failure before the first token. *)
Retries(t) ==
    /\ call[t] # None /\ MayStep(t)
    /\ call[t].n = 0 /\ ~call[t].text /\ ~Runaway(t)
    /\ Retry(t) /\ call' = [call EXCEPT ![t] = Attempt(1)]
    /\ UNCHANGED <<calls, tries, live, ending, dead, leaves, aborted, late, reason>>

(* Any other failure, an unfinished stream too, is LLMUnavailable, and the *)
(* session dies; unless its charge crosses a limit.                        *)
Fails(t) ==
    /\ call[t] # None /\ MayStep(t) /\ Record(t)
    /\ call' = [call EXCEPT ![t] = None]
    /\ IF Runaway(t) THEN TaskEnds(t, "RunawaySpend", "budget") /\ dead' = dead
       ELSE TaskEnds(t, "LLMUnavailable", "llm_unavailable") /\ dead' = TRUE
    /\ UNCHANGED <<calls, tries, aborted, late, reason>>

(* The answer: the task goes on, emits (nothing after an endpoint died) or *)
(* asks again (bounded).                                                   *)
Answers(t) ==
    /\ call[t] # None /\ Complete(t) /\ MayStep(t) /\ Record(t)
    /\ call' = [call EXCEPT ![t] = None]
    /\ \/ /\ Runaway(t) /\ tries' = tries /\ TaskEnds(t, "RunawaySpend", "budget")
       \/ /\ ~Runaway(t) /\ tries' = 0
          /\ IF dead THEN TaskEnds(t, "error", "error")
             ELSE UNCHANGED <<live, leaves, ending>>
       \/ /\ ~Runaway(t) /\ t = "world" /\ tries < MAX_REGENERATIONS
          /\ tries' = tries + 1 /\ UNCHANGED <<live, leaves, ending>>
       \/ /\ ~Runaway(t) /\ t = "world" /\ tries = MAX_REGENERATIONS
          /\ tries' = tries /\ TaskEnds(t, "WorldError", "world_error")
    /\ UNCHANGED <<calls, dead, aborted, late, reason>>

(* CALL_S of a Slow call, timeout_s of the world's attempts together: the  *)
(* attempt in flight is cancelled, and recorded.                           *)
Deadline(t) ==
    /\ call[t] # None /\ t # "fast" /\ MayStep(t) /\ Record(t)
    /\ call' = [call EXCEPT ![t] = None]
    /\ IF Runaway(t) THEN TaskEnds(t, "RunawaySpend", "budget")
       ELSE IF t = "slow" THEN TaskEnds(t, "Abort", "slow_timeout")
       ELSE TaskEnds(t, "WorldError", "world_error")
    /\ UNCHANGED <<calls, tries, dead, aborted, late, reason>>

-----------------------------------------------------------------------------
(* The end. *)

(* A normal end by another task: the watchdog, a hang-up, finish. *)
OtherEnds(r) ==
    /\ leaves = {} /\ ~aborted /\ reason = None /\ leaves' = {"SessionEnd"} /\ End(r)
    /\ UNCHANGED <<call, calls, tries, live, more, dead, aborted, ledger,
                   attempts, late, reason>>

(* The caller cancels the session. *)
Stops ==
    /\ ~aborted /\ reason = None /\ aborted' = TRUE
    /\ UNCHANGED <<call, calls, tries, live, more, ending, dead, leaves, ledger,
                   attempts, late, reason>>

Aborts ==
    /\ leaves # {} /\ ~aborted /\ aborted' = TRUE
    /\ UNCHANGED <<call, calls, tries, live, more, ending, dead, leaves, ledger,
                   attempts, late, reason>>

(* The attempt a cancelled task had in flight is recorded; its charge may  *)
(* cross a limit.                                                          *)
Cancelled(t) ==
    /\ aborted /\ t \in live
    /\ IF call[t] = None
       THEN live' = live \ {t} /\ UNCHANGED <<call, ending, leaves, ledger, attempts>>
       ELSE /\ Record(t) /\ call' = [call EXCEPT ![t] = None]
            /\ IF Runaway(t) THEN TaskEnds(t, "RunawaySpend", "budget")
               ELSE live' = live \ {t} /\ UNCHANGED <<ending, leaves>>
    /\ UNCHANGED <<calls, tries, more, dead, aborted, late, reason>>

(* Mutant: the world's error hides a runaway. *)
WorldFirst(ls) ==
    IF "LLMUnavailable" \in ls THEN "llm_unavailable"
    ELSE IF "WorldError" \in ls THEN "world_error"
    ELSE IF "RunawaySpend" \in ls THEN "budget"
    ELSE IF "Abort" \in ls THEN "slow_timeout"
    ELSE IF "error" \in ls THEN "error"
    ELSE IF ls # {} THEN ending ELSE "stopped"

(* _outcome: the errors' priority; else the first end's reason. *)
Outcome(ls) ==
    IF "LLMUnavailable" \in ls THEN "llm_unavailable"
    ELSE IF "RunawaySpend" \in ls THEN "budget"
    ELSE IF "WorldError" \in ls THEN "world_error"
    ELSE IF "Abort" \in ls THEN "slow_timeout"
    ELSE IF "error" \in ls THEN "error"
    ELSE IF ls # {} THEN ending ELSE "stopped"

(* _close: session.ended, when every task has ended. *)
Closes ==
    /\ aborted /\ live = {} /\ reason = None /\ reason' = Outcome(leaves)
    /\ UNCHANGED <<call, calls, tries, live, more, ending, dead, leaves, aborted,
                   ledger, attempts, late>>

Next ==
    \/ \E t \in Tasks :
         Begins(t) \/ Chunk(t) \/ Retries(t) \/ Fails(t) \/ Answers(t)
            \/ Deadline(t) \/ Cancelled(t)
    \/ \E r \in {"timeout", "abandoned"} : OtherEnds(r)
    \/ Stops \/ Aborts \/ Closes

Spec == Init /\ [][Next]_vars

-----------------------------------------------------------------------------
(* "each failed attempt, each success, and a cancelled or abandoned stream"*)
(* (llm/http.py) is recorded and charged once by session.ended, so its     *)
(* totals are the session's: a retry's first attempt too, and attempts that*)
(* a deadline, a runaway or the end of another task cut.                   *)
EveryAttemptCharged ==
    /\ attempts.charged + Cardinality({t \in Tasks : call[t] # None}) = attempts.begun
    /\ reason # None => attempts.charged = attempts.begun

(* Once a charge crosses a runaway limit no Fast or Slow call begins: those*)
(* in flight may still pass it, each by its one attempt or its retry       *)
(* (kernel/session.py, "before anything else runs").                       *)
RunawayStops == ~late

(* session.ended names the worst that happened before it, whatever ended   *)
(* the session first and however late it happened: an endpoint that died,  *)
(* then a limit crossed (kernel/session.py, _ERRORS).                      *)
EndNamesTheWorst ==
    reason # None =>
        /\ dead <=> reason = "llm_unavailable"
        /\ Crossed(ledger) /\ ~dead => reason = "budget"
=============================================================================
