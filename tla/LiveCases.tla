------------------------------ MODULE LiveCases ------------------------------
(***************************************************************************)
(* The live server's starts and its registry of cases (serve/start.py)     *)
(* over the kernel's Starter, which runs one session at a time             *)
(* (kernel/web.py).  A request starts a case in a task of its own, bounded *)
(* in time, and may be cancelled when its client leaves; the n-th start    *)
(* that the Starter takes is run n.                                        *)
(***************************************************************************)
EXTENDS Integers, Sequences, FiniteSets

CONSTANTS Posts   \* bound: POST /api/cases requests

VARIABLES
    at,        \* per request: where its handler is, or the answer's status
    lockq,     \* the lock: its holder first, then those that wait
    task,      \* per request: its start_case task
    abandoned, \* requests whose task has been cancelled and let go
    run,       \* per request: its run, or 0
    session,   \* the sessions' phases; the last is Starter._run
    stopping,  \* runs that have been cancelled
    started,   \* the registry: the runs that are cases
    late       \* runs reported as returned late, and not registered

vars == <<at, lockq, task, abandoned, run, session, stopping, started, late>>

Runs == DOMAIN session
Finished == {"cancelled", "refused", "busy", "failed", "returned"}
Answers == {"201", "400", "409", "503", "left"}

Init ==
    /\ at = [p \in Posts |-> "new"] /\ lockq = <<>>
    /\ task = [p \in Posts |-> "none"] /\ abandoned = {}
    /\ run = [p \in Posts |-> 0] /\ session = <<>> /\ stopping = {}
    /\ started = {} /\ late = {}

-----------------------------------------------------------------------------
(* The handler. *)

(* The operator's pair and the body are right; the lock is fair. *)
Asks(p) ==
    /\ at[p] = "new" /\ at' = [at EXCEPT ![p] = "locks"]
    /\ lockq' = Append(lockq, p)
    /\ UNCHANGED <<task, abandoned, run, session, stopping, started, late>>

(* Run.ended: session.ended is the last line. *)
HasEnded(r) == session[r] \in {"ended", "done"}

(* In a worker thread: cases whose run has ended are dropped; then the     *)
(* start's task is created.                                                *)
Sweeps(p) ==
    /\ at[p] = "locks" /\ Head(lockq) = p
    /\ started' = {r \in started : ~HasEnded(r)}
    /\ at' = [at EXCEPT ![p] = "begins"] /\ task' = [task EXCEPT ![p] = "created"]
    /\ UNCHANGED <<lockq, abandoned, run, session, stopping, late>>

(* A GET, a POST or a stream looks a case up, and drops it if it ended. *)
Lookup(r) ==
    /\ r \in started /\ HasEnded(r) /\ started' = started \ {r}
    /\ UNCHANGED <<at, lockq, task, abandoned, run, session, stopping, late>>

Answer(p, status) ==
    at' = [at EXCEPT ![p] = status] /\ lockq' = SelectSeq(lockq, LAMBDA q : q # p)

(* The task has finished in time. *)
Begun(p) ==
    /\ at[p] = "begins" /\ task[p] \in Finished
    /\ IF task[p] = "returned" /\ run[p] \notin started
       THEN started' = started \cup {run[p]} /\ Answer(p, "201")
       ELSE /\ UNCHANGED started
            /\ Answer(p, CASE task[p] = "busy" -> "409"
                           [] task[p] = "refused" -> "400"
                           [] OTHER -> "503")
    /\ UNCHANGED <<task, abandoned, run, session, stopping, late>>

(* task.cancel(): a task that has not begun ends at once, one that waits   *)
(* is thrown the cancellation, a finished one is not changed.              *)
Abandon(p) ==
    /\ abandoned' = abandoned \cup {p}
    /\ task' = [task EXCEPT ![p] = CASE @ = "created" -> "cancelled"
                                     [] @ = "waits" -> "cancelling"
                                     [] OTHER -> @]

(* Mutant: no grace; it waits for the cancelled task. *)
GraceWaits(p) ==
    /\ at[p] = "grace" /\ task[p] \in Finished /\ Answer(p, "503")
    /\ UNCHANGED <<task, abandoned, run, session, stopping, started, late>>

TimesOut(p) ==
    /\ at[p] = "begins" /\ task[p] \notin Finished
    /\ Abandon(p) /\ at' = [at EXCEPT ![p] = "grace"]
    /\ UNCHANGED <<lockq, run, session, stopping, started, late>>

GraceOver(p) ==
    /\ at[p] = "grace" /\ Answer(p, "503")
    /\ UNCHANGED <<task, abandoned, run, session, stopping, started, late>>

(* Mutant: the start goes on without its client. *)
ClientLeavesQuietly(p) ==
    /\ at[p] \in {"locks", "begins", "grace"} /\ Answer(p, "left")
    /\ UNCHANGED <<task, abandoned, run, session, stopping, started, late>>

(* The request is cancelled, wherever it waits. *)
ClientLeaves(p) ==
    /\ at[p] \in {"locks", "begins", "grace"} /\ Answer(p, "left")
    /\ IF at[p] = "begins" THEN Abandon(p) ELSE UNCHANGED <<task, abandoned>>
    /\ UNCHANGED <<run, session, stopping, started, late>>

(* _late, of a task that ended after it was let go. *)
Late(p) ==
    /\ p \in abandoned /\ task[p] = "returned" /\ late' = late \cup {run[p]}
    /\ UNCHANGED <<at, lockq, task, abandoned, run, session, stopping, started>>

-----------------------------------------------------------------------------
(* Starter.start_case, and the session it runs. *)

(* Mutant: an ended session, still cleaning up, does not keep it busy. *)
BusyUntilEnded == session # <<>> /\ ~HasEnded(Len(session))

Busy == session # <<>> /\ session[Len(session)] \notin {"done", "broken"}

(* The task's first step: refused, or the session's task is created. *)
Launches(p) ==
    /\ task[p] = "created"
    /\ \/ /\ task' = [task EXCEPT ![p] = IF Busy THEN "busy" ELSE "refused"]
          /\ UNCHANGED <<run, session>>
       \/ /\ ~Busy /\ task' = [task EXCEPT ![p] = "waits"]
          /\ session' = Append(session, "opening")
          /\ run' = [run EXCEPT ![p] = Len(session) + 1]
    /\ UNCHANGED <<at, lockq, abandoned, stopping, started, late>>

(* Its seq 0 was written: the case; else its error. *)
Returns(p) ==
    /\ task[p] = "waits" /\ session[run[p]] # "opening"
    /\ task' = [task EXCEPT ![p] = IF session[run[p]] = "broken" THEN "failed"
                                   ELSE "returned"]
    /\ UNCHANGED <<at, lockq, abandoned, run, session, stopping, started, late>>

(* Cancelled: so is the run, and the task waits for it. *)
Cancelled(p) ==
    /\ task[p] = "cancelling" /\ stopping' = stopping \cup {run[p]}
    /\ task' = [task EXCEPT ![p] = "gathers"]
    /\ UNCHANGED <<at, lockq, abandoned, run, session, started, late>>

Gathered(p) ==
    /\ task[p] = "gathers" /\ session[run[p]] \in {"done", "broken"}
    /\ task' = [task EXCEPT ![p] = "cancelled"]
    /\ UNCHANGED <<at, lockq, abandoned, run, session, stopping, started, late>>

(* session.started is written; the session ends, or fails before it, and   *)
(* then cleans up.                                                         *)
SessionSteps(r) ==
    /\ \E next \in CASE session[r] = "opening" -> {"live", "broken"}
                     [] session[r] = "live" -> {"ended"}
                     [] session[r] = "ended" -> {"done"}
                     [] OTHER -> {} :
         session' = [session EXCEPT ![r] = next]
    /\ UNCHANGED <<at, lockq, task, abandoned, run, stopping, started, late>>

Next ==
    \/ \E p \in Posts : \/ Asks(p) \/ Sweeps(p) \/ Begun(p) \/ TimesOut(p)
                        \/ GraceOver(p) \/ ClientLeaves(p) \/ Late(p)
                        \/ Launches(p) \/ Returns(p) \/ Cancelled(p) \/ Gathered(p)
    \/ \E r \in Runs : Lookup(r) \/ SessionSteps(r)

Spec == Init /\ [][Next]_vars

(* The server's loop, its threads and its timers run; a start, and a       *)
(* session, may hang.                                                      *)
Served(p) == Sweeps(p) \/ Begun(p) \/ TimesOut(p) \/ GraceOver(p)

-----------------------------------------------------------------------------
(* One session at a time, though its start was let go of                   *)
(* (kernel/web.py).                                                        *)
OneSession ==
    Cardinality({r \in Runs : session[r] \notin {"done", "broken"}}) <= 1

(* A live session is a case, or its start is under way, or it is being     *)
(* stopped, or reported as not registered: no race of a start with its     *)
(* timeout and its client leaves one running that nobody knows of.         *)
NoCaseLeftRunning ==
    \A r \in Runs : session[r] = "live" =>
        \/ r \in started \cup stopping \cup late
        \/ \E p \in Posts :
              /\ run[p] = r
              /\ \/ at[p] = "begins" \/ task[p] = "cancelling"
                 \/ p \in abandoned /\ task[p] = "returned"

(* A request that waits for the lock, and one that was answered. *)
Waits(p) == at[p] = "locks"
Answered(p) == at[p] \in Answers
=============================================================================
