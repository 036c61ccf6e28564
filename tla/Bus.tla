-------------------------------- MODULE Bus ---------------------------------
(***************************************************************************)
(* The session's single writer (core/bus.py, core/log.py): an event is     *)
(* folded and appended, then delivered to every subscriber; a subscriber   *)
(* may emit while it is called, may fail, and may be isolated.  An event   *)
(* is the number of its place in the log.                                  *)
(***************************************************************************)
EXTENDS Integers, Sequences, FiniteSets

CONSTANTS
    N,         \* subscribers 1..N, in the order they subscribed
    Isolated,  \* those whose errors are logged
    MaxEvents  \* bound: events

VARIABLES
    log,        \* events appended, and folded into the board (_bb)
    ended,      \* session.ended is appended (_ended)
    queue,      \* _undelivered
    current,    \* the event being delivered, or 0
    turn,       \* the subscriber that has it
    rejected,   \* _rejected: a nested emit failed
    raised,     \* the last emit of a task ended in an exception
    received,   \* history: per subscriber, the events delivered to it
    dropped,    \* history: events appended and never delivered
    nested      \* history: a nested emit failed since this delivery began

vars == <<log, ended, queue, current, turn, rejected, raised, received,
          dropped, nested>>

Subs == 1..N
Delivering == current # 0

Init ==
    /\ log = 0 /\ ended = FALSE /\ queue = <<>> /\ current = 0 /\ turn = 0
    /\ rejected = FALSE /\ raised = FALSE
    /\ received = [s \in Subs |-> <<>>] /\ dropped = {} /\ nested = FALSE

(* What emit appends: nothing after session.ended, and no event the fold   *)
(* or the log rejects.                                                     *)
Append1(end) ==
    /\ ~ended /\ log < MaxEvents /\ log' = log + 1 /\ ended' = end

(* A task's emit: the event, and the first subscriber gets it. *)
Emit ==
    /\ ~Delivering /\ \E end \in BOOLEAN : Append1(end)
    /\ current' = log' /\ turn' = 1 /\ raised' = FALSE /\ nested' = FALSE
    /\ received' = [received EXCEPT ![1] = Append(@, log')]
    /\ UNCHANGED <<queue, rejected, dropped>>

(* A task's emit of an event that is rejected: never written. *)
EmitRejected ==
    /\ ~Delivering /\ raised' = TRUE
    /\ UNCHANGED <<log, ended, queue, current, turn, rejected, received,
                   dropped, nested>>

(* Mutant: a nested event is delivered before the current one. *)
QueueFirst(e) == <<e>> \o queue

Queue(e) == Append(queue, e)

(* A subscriber's emit: folded and appended at once, delivered after the   *)
(* current event.                                                          *)
NestedEmit ==
    /\ Delivering /\ \E end \in BOOLEAN : Append1(end)
    /\ queue' = Queue(log')
    /\ UNCHANGED <<current, turn, rejected, raised, received, dropped, nested>>

(* A subscriber's emit is rejected; it may swallow the error. *)
NestedRejected ==
    /\ Delivering /\ rejected' = TRUE /\ nested' = TRUE
    /\ UNCHANGED <<log, ended, queue, current, turn, raised, received, dropped>>

(* The subscriber returns: the next one gets the event, or the next event. *)
Deliver(s, e) ==
    /\ turn' = s /\ current' = e
    /\ received' = IF e = 0 THEN received ELSE [received EXCEPT ![s] = Append(@, e)]

Proceeds ==
    /\ IF turn < N THEN Deliver(turn + 1, current) /\ queue' = queue
       ELSE IF queue # <<>> THEN Deliver(1, Head(queue)) /\ queue' = Tail(queue)
       ELSE Deliver(0, 0) /\ queue' = queue
    /\ UNCHANGED <<log, ended, rejected, raised, dropped, nested>>

(* Nothing is delivered after a failure: the emitter gets the error. *)
Fails ==
    /\ queue' = <<>> /\ current' = 0 /\ turn' = 0 /\ rejected' = FALSE /\ raised' = TRUE
    /\ dropped' = dropped \cup {queue[i] : i \in DOMAIN queue}
    /\ UNCHANGED <<log, ended, received, nested>>

Returns == Delivering /\ ~rejected /\ Proceeds

(* Mutant: an isolated subscriber's error hides the rejected emit. *)
HidesRejection(error) == rejected /\ ~(error /\ turn \in Isolated)

(* The failure reaches the emitter: a rejected nested emit, LLMUnavailable,*)
(* or the error of a subscriber that is not isolated.                      *)
Rejection(error) == rejected

(* The subscriber raises, LLMUnavailable (I8) or another error. *)
Raises ==
    /\ Delivering
    /\ IF Rejection(TRUE) \/ turn \notin Isolated THEN Fails ELSE Proceeds

Unavailable == Delivering /\ Fails
ReturnsRejected == Delivering /\ rejected /\ Fails

Next ==
    \/ Emit \/ EmitRejected \/ NestedEmit \/ NestedRejected
    \/ Returns \/ Raises \/ Unavailable \/ ReturnsRejected

Spec == Init /\ [][Next]_vars

-----------------------------------------------------------------------------
(* Every subscriber gets the events in the order of the log, each once, and*)
(* all but those dropped by a failure: one that emits while it is called   *)
(* does not show its event to those after it before the event it answers   *)
(* (core/bus.py, "a nested emit after the current event").                 *)
Received(s) == {received[s][i] : i \in DOMAIN received[s]}

LogOrder ==
    \A s \in Subs :
        /\ \A i, j \in DOMAIN received[s] : i < j => received[s][i] < received[s][j]
        /\ s < N => Received(s + 1) \subseteq Received(s)
        /\ ~Delivering /\ ~raised => log = 0 \/ log \in Received(s)

(* A rejected nested emit always reaches the task that emitted, whatever   *)
(* the subscriber did with it: no step goes on as if the event were        *)
(* written (core/bus.py, "rejected nested emits reach the emitter").       *)
RejectionReachesEmitter == nested /\ ~Delivering => raised

=============================================================================
