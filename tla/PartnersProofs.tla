--------------------------- MODULE PartnersProofs ---------------------------
(***************************************************************************)
(* Those a session deals with: its model calls (ModelCalls), the simulated *)
(* user (Principal) and the simulated rep (SimRep), for any limits,        *)
(* numbers and delays.                                                     *)
(***************************************************************************)
EXTENDS Integers, Sequences, FiniteSets, SequenceTheorems, FiniteSetTheorems, TLAPS

CONSTANTS Endpoint, Streaming, CAP, Projected, MAX_REGENERATIONS, MaxCalls, None

VARIABLES call, calls, tries, live, more, ending, dead, leaves, aborted, ledger,
          attempts, late, reason

CONSTANTS STOP_DELAY, REPLY_DELAY, APPROVER_DELAY, CARD_TTL, AfterTurns, Subjects,
          MaxMsgs, Horizon

VARIABLES now, msgs, task, fired, mind, turns, queue, busy, incoming, fences, subjects,
          pending, offered, granted, stopped, cleared

CONSTANTS Ladder, Levers, TTL, SILENCE, HOLD, STRIKES, MaxHeard, MaxBlock, RepHorizon

VARIABLES clock, said, backlog, phase, block, listed, decided, state, rung, offers,
          levers, confirming, identity, timers, silences, holds, holdSince, holdClock,
          free, inbox, asked, accepted

C == INSTANCE ModelCalls
P == INSTANCE Principal WITH K <- AfterTurns
R == INSTANCE SimRep WITH now <- clock, pending <- confirming, Horizon <- RepHorizon

-----------------------------------------------------------------------------
(* The model calls. *)

Reasons == {"budget", "llm_unavailable", "world_error", "error", "slow_timeout",
            "timeout", "abandoned"}

Attempts == [n : Nat, text : BOOLEAN, usage : BOOLEAN, finish : BOOLEAN, done : BOOLEAN]

(* Limits are amounts, and None is neither an attempt nor a reason. *)
CallConstants ==
    /\ CAP \in Nat /\ Projected \in Nat /\ None \notin Reasons \cup {"stopped"}
    /\ None \notin Attempts

InFlight == {t \in C!Tasks : call[t] # None}

LedgerTypes == ledger \in [usd : Nat, tokens : Nat, unpriced : Nat]

(* An attempt in flight belongs to a task that runs, and is the one not    *)
(* yet charged.                                                            *)
ChargeInv ==
    /\ call \in [C!Tasks -> {None} \cup Attempts]
    /\ attempts \in [begun : Int, charged : Int]
    /\ attempts.charged + Cardinality(InFlight) = attempts.begun
    /\ InFlight \subseteq live

(* A limit crossed and an endpoint that died leave their error, which has  *)
(* ended the session, and nothing runs once the reason is written.         *)
EndInv ==
    /\ LedgerTypes /\ dead \in BOOLEAN /\ late \in BOOLEAN /\ aborted \in BOOLEAN
    /\ C!Crossed(ledger) => "RunawaySpend" \in leaves
    /\ leaves # {} => ending # None
    /\ dead <=> "LLMUnavailable" \in leaves
    /\ ending = "llm_unavailable" => dead
    /\ ~late
    /\ reason # None => aborted /\ live = {} /\ reason = C!Outcome(leaves)

CallInv == ChargeInv /\ EndInv

LEMMA InFlightFinite == IsFiniteSet(InFlight) /\ Cardinality(InFlight) \in Nat
<1>1. IsFiniteSet(C!Tasks)
  <2>1. C!Tasks = ({"slow"} \cup {"fast"}) \cup {"world"}
    BY DEF C!Tasks
  <2> QED
    BY <2>1, FS_Singleton, FS_AddElement
<1> QED
  BY <1>1, FS_Subset, FS_CardinalityType DEF InFlight

(* An attempt begins, goes on or is cut, and the books follow. *)
LEMMA Opened ==
    ASSUME ChargeInv, NEW t \in C!Tasks, NEW a \in Attempts, None \notin Attempts,
           call[t] = None, t \in live, live' = live,
           call' = [call EXCEPT ![t] = a],
           attempts' = [attempts EXCEPT !.begun = @ + 1]
    PROVE  ChargeInv'
<1>1. InFlight' = InFlight \cup {t} /\ t \notin InFlight
  BY DEF ChargeInv, InFlight
<1>2. Cardinality(InFlight') = Cardinality(InFlight) + 1
  BY <1>1, InFlightFinite, FS_AddElement
<1>3. /\ attempts' \in [begun : Int, charged : Int]
      /\ attempts'.begun = attempts.begun + 1 /\ attempts'.charged = attempts.charged
  BY DEF ChargeInv
<1> QED
  BY <1>1, <1>2, <1>3, InFlightFinite DEF ChargeInv

LEMMA Continued ==
    ASSUME ChargeInv, NEW t \in C!Tasks, NEW a \in Attempts, None \notin Attempts,
           call[t] # None, live' = live, call' = [call EXCEPT ![t] = a],
           NEW n \in Nat,
           attempts' = [begun |-> attempts.begun + n, charged |-> attempts.charged + n]
    PROVE  ChargeInv'
<1>1. InFlight' = InFlight
  BY DEF ChargeInv, InFlight
<1>2. /\ attempts' \in [begun : Int, charged : Int]
      /\ attempts'.begun = attempts.begun + n /\ attempts'.charged = attempts.charged + n
  BY DEF ChargeInv
<1> QED
  BY <1>1, <1>2, InFlightFinite DEF ChargeInv

LEMMA Ended ==
    ASSUME ChargeInv, NEW t \in C!Tasks, call[t] # None,
           live' \in {live, live \ {t}}, call' = [call EXCEPT ![t] = None], C!Record(t)
    PROVE  ChargeInv'
<1>1. InFlight' = InFlight \ {t} /\ t \in InFlight
  BY DEF ChargeInv, InFlight
<1>2. Cardinality(InFlight') = Cardinality(InFlight) - 1
  BY <1>1, InFlightFinite, FS_RemoveElement
<1>3. /\ attempts' \in [begun : Int, charged : Int]
      /\ attempts'.begun = attempts.begun /\ attempts'.charged = attempts.charged + 1
  BY DEF ChargeInv, C!Record
<1> QED
  BY <1>1, <1>2, <1>3, InFlightFinite DEF ChargeInv

LEMMA ChargesStep ==
    ASSUME CallConstants, ChargeInv, [C!Next]_C!vars
    PROVE  ChargeInv'
<1>1. ASSUME call' = call, attempts' = attempts,
             \/ live' = live
             \/ \E t \in C!Tasks : live' = live \ {t} /\ call[t] = None
      PROVE  ChargeInv'
  BY <1>1 DEF ChargeInv, InFlight
<1> SUFFICES ASSUME C!Next PROVE ChargeInv'
  BY <1>1 DEF C!vars
<1>2. ASSUME NEW t \in C!Tasks, C!Begins(t) PROVE ChargeInv'
  <2>1. C!Attempt(0) \in Attempts
    BY DEF C!Attempt, Attempts
  <2> QED
    BY <1>1, <1>2, <2>1, Opened
       DEF C!Begins, C!MayStep, C!TaskEnds, C!Leaves, CallConstants
<1>3. ASSUME NEW t \in C!Tasks, C!Chunk(t) PROVE ChargeInv'
  <2>1. call[t] \in Attempts
    BY <1>3 DEF C!Chunk, ChargeInv
  <2>2. \E a \in Attempts : call' = [call EXCEPT ![t] = a]
    <3>1. CASE t \in Streaming
      <4>1. PICK field \in {"text", "usage", "finish", "done"} :
              call' = [call EXCEPT ![t][field] = TRUE]
        BY <1>3, <3>1 DEF C!Chunk
      <4>2. [call[t] EXCEPT ![field] = TRUE] \in Attempts
        BY <2>1 DEF Attempts
      <4> QED
        BY <4>1, <4>2
    <3>2. CASE t \notin Streaming
      <4>1. PICK u \in BOOLEAN : call' = [call EXCEPT ![t].text = TRUE, ![t].usage = u]
        BY <1>3, <3>2 DEF C!Chunk
      <4>2. call' = [call EXCEPT ![t] = [call[t] EXCEPT !.text = TRUE, !.usage = u]]
        BY <2>1, <4>1 DEF Attempts, ChargeInv
      <4>3. [call[t] EXCEPT !.text = TRUE, !.usage = u] \in Attempts
        BY <2>1 DEF Attempts
      <4> QED
        BY <4>2, <4>3
    <3> QED
      BY <3>1, <3>2
  <2>3. attempts' = [begun |-> attempts.begun + 0, charged |-> attempts.charged + 0]
    BY <1>3 DEF C!Chunk, ChargeInv
  <2> QED
    BY <1>3, <2>2, <2>3, Continued DEF C!Chunk, CallConstants
<1>4. ASSUME NEW t \in C!Tasks, C!Retries(t) PROVE ChargeInv'
  <2>1. C!Attempt(1) \in Attempts
    BY DEF C!Attempt, Attempts
  <2> QED
    BY <1>4, <2>1, Continued DEF C!Retries, C!Retry, CallConstants
<1>5. ASSUME NEW t \in C!Tasks, C!Fails(t) \/ C!Answers(t) \/ C!Deadline(t)
      PROVE  ChargeInv'
  <2>1. /\ call[t] # None /\ call' = [call EXCEPT ![t] = None] /\ C!Record(t)
        /\ live' \in {live, live \ {t}}
    BY <1>5 DEF C!Fails, C!Answers, C!Deadline, C!TaskEnds, C!Leaves
  <2> QED
    BY <2>1, Ended
<1>6. ASSUME NEW t \in C!Tasks, C!Cancelled(t) PROVE ChargeInv'
  BY <1>1, <1>6, Ended DEF C!Cancelled, C!TaskEnds, C!Leaves
<1>7. ASSUME C!Stops \/ C!Aborts \/ C!Closes \/ \E r \in {"timeout", "abandoned"} : C!OtherEnds(r)
      PROVE  ChargeInv'
  BY <1>1, <1>7 DEF C!Stops, C!Aborts, C!Closes, C!OtherEnds
<1> QED
  BY <1>2, <1>3, <1>4, <1>5, <1>6, <1>7 DEF C!Next

-----------------------------------------------------------------------------
(* What a charge, and the end of a task, do to the end's books. *)
LEMMA ChargedTypes ==
    ASSUME LedgerTypes, NEW t \in C!Tasks
    PROVE  C!Charged(t) \in [usd : Nat, tokens : Nat, unpriced : Nat]
  BY DEF LedgerTypes, C!Charged

(* A task ends with a leaf and a reason that fits it. *)
LEMMA TaskEnding ==
    ASSUME CallConstants, EndInv, reason = None, NEW t, NEW leaf, NEW r,
           C!TaskEnds(t, leaf, r), r # None, ledger' \in [usd : Nat, tokens : Nat, unpriced : Nat],
           C!Crossed(ledger') => "RunawaySpend" \in leaves',
           dead' = IF leaf = "LLMUnavailable" THEN TRUE ELSE dead,
           r = "llm_unavailable" => dead', late' = late, aborted' = aborted,
           reason' = reason
    PROVE  EndInv'
  BY DEF EndInv, LedgerTypes, C!TaskEnds, C!Leaves, C!End
  
LEMMA EndsStep ==
    ASSUME CallConstants, CallInv, [C!Next]_C!vars
    PROVE  EndInv'
<1> USE DEF CallInv
<1>1. ASSUME UNCHANGED <<ledger, leaves, ending, dead, late, live, reason>>,
             aborted' \in {aborted, TRUE}
      PROVE  EndInv'
  BY <1>1 DEF EndInv, LedgerTypes, C!Crossed, C!Outcome
<1> SUFFICES ASSUME C!Next PROVE EndInv'
  BY <1>1 DEF C!vars
<1>a. ASSUME NEW t \in C!Tasks, C!MayStep(t) \/ t \in live PROVE reason = None
  BY <1>a DEF C!MayStep, EndInv
<1>2. ASSUME NEW t \in C!Tasks, C!Begins(t) PROVE EndInv'
  <2>1. CASE C!Refused(t)
    <3>1. C!TaskEnds(t, "SessionEnd", ending) /\ ending # None
      BY <1>2, <2>1 DEF C!Begins, C!Refused
    <3>2. /\ ledger' = ledger /\ ledger \in [usd : Nat, tokens : Nat, unpriced : Nat]
          /\ UNCHANGED <<late, aborted, reason>> /\ reason = None
          /\ dead' = IF "SessionEnd" = "LLMUnavailable" THEN TRUE ELSE dead
          /\ ending = "llm_unavailable" => dead'
      BY <1>2, <1>a, <2>1 DEF C!Begins, EndInv, LedgerTypes
    <3>3. C!Crossed(ledger) => "RunawaySpend" \in leaves'
      BY <3>1 DEF EndInv, C!TaskEnds, C!Leaves
    <3> QED
      BY <3>1, <3>2, <3>3, TaskEnding
  <2>2. CASE ~C!Refused(t)
    <3>1. t \in C!NEW_WORK => ending = None
      BY <2>2 DEF C!Refused
    <3>2. late' = FALSE
      BY <1>2, <2>2, <3>1 DEF C!Begins, EndInv
    <3> QED
      BY <1>2, <2>2, <3>2, <1>1 DEF C!Begins, EndInv
  <2> QED
    BY <2>1, <2>2
<1>3. ASSUME NEW t \in C!Tasks, C!Chunk(t) PROVE EndInv'
  BY <1>1, <1>3 DEF C!Chunk
<1>4. ASSUME NEW t \in C!Tasks, C!Retries(t) PROVE EndInv'
  BY <1>4, <1>a, ChargedTypes DEF C!Retries, C!Retry, C!Runaway, EndInv, LedgerTypes
<1>5. ASSUME NEW t \in C!Tasks, C!Record(t), ~C!Runaway(t), reason = None,
             UNCHANGED <<leaves, ending, dead, late, aborted, reason>>
      PROVE  EndInv'
  BY <1>5, ChargedTypes DEF C!Record, C!Runaway, EndInv, LedgerTypes
<1>6. ASSUME NEW t \in C!Tasks, C!Record(t), C!Runaway(t), reason = None,
             C!TaskEnds(t, "RunawaySpend", "budget"),
             UNCHANGED <<dead, late, aborted, reason>>
      PROVE  EndInv'
  <2>1. /\ ledger' \in [usd : Nat, tokens : Nat, unpriced : Nat]
        /\ "RunawaySpend" \in leaves' /\ "budget" # None
        /\ dead' = IF "RunawaySpend" = "LLMUnavailable" THEN TRUE ELSE dead
    BY <1>6, ChargedTypes
       DEF C!Record, EndInv, C!TaskEnds, C!Leaves, CallConstants, Reasons
  <2> QED
    BY <1>6, <2>1, TaskEnding
<1>7. ASSUME NEW t \in C!Tasks, NEW leaf, NEW r, C!Record(t), ~C!Runaway(t),
             reason = None, C!TaskEnds(t, leaf, r), r # None,
             dead' = IF leaf = "LLMUnavailable" THEN TRUE ELSE dead, r = "llm_unavailable" => dead',
             UNCHANGED <<late, aborted, reason>>
      PROVE  EndInv'
  <2>1. /\ ledger' \in [usd : Nat, tokens : Nat, unpriced : Nat]
        /\ ~C!Crossed(ledger')
    BY <1>7, ChargedTypes DEF C!Record, EndInv, C!Runaway
  <2> QED
    BY <1>7, <2>1, TaskEnding
<1>8. ASSUME NEW t \in C!Tasks, C!Fails(t) PROVE EndInv'
  <2>1. CASE C!Runaway(t)
    BY <1>8, <1>a, <1>6, <2>1 DEF C!Fails
  <2>2. CASE ~C!Runaway(t)
    BY <1>8, <1>a, <1>7, <2>2 DEF C!Fails, CallConstants, Reasons
  <2> QED
    BY <2>1, <2>2
<1>9. ASSUME NEW t \in C!Tasks, C!Answers(t) PROVE EndInv'
  <2>1. CASE C!TaskEnds(t, "RunawaySpend", "budget") /\ C!Runaway(t)
    BY <1>9, <1>a, <1>6, <2>1 DEF C!Answers
  <2>2. CASE C!TaskEnds(t, "error", "error") /\ ~C!Runaway(t)
    BY <1>9, <1>a, <1>7, <2>2 DEF C!Answers, CallConstants, Reasons
  <2>3. CASE C!TaskEnds(t, "WorldError", "world_error") /\ ~C!Runaway(t)
    BY <1>9, <1>a, <1>7, <2>3 DEF C!Answers, CallConstants, Reasons
  <2>4. CASE UNCHANGED <<live, leaves, ending>> /\ ~C!Runaway(t)
    BY <1>9, <1>a, <1>5, <2>4 DEF C!Answers
  <2> QED
    BY <1>9, <2>1, <2>2, <2>3, <2>4 DEF C!Answers
<1>10. ASSUME NEW t \in C!Tasks, C!Deadline(t) PROVE EndInv'
  <2>1. CASE C!Runaway(t)
    BY <1>10, <1>a, <1>6, <2>1 DEF C!Deadline
  <2>2. CASE ~C!Runaway(t) /\ C!TaskEnds(t, "Abort", "slow_timeout")
    BY <1>10, <1>a, <1>7, <2>2 DEF C!Deadline, CallConstants, Reasons
  <2>3. CASE ~C!Runaway(t) /\ C!TaskEnds(t, "WorldError", "world_error")
    BY <1>10, <1>a, <1>7, <2>3 DEF C!Deadline, CallConstants, Reasons
  <2> QED
    BY <1>10, <2>1, <2>2, <2>3 DEF C!Deadline
<1>11. ASSUME NEW t \in C!Tasks, C!Cancelled(t) PROVE EndInv'
  <2>1. CASE call[t] = None
    BY <1>11, <1>a, <2>1 DEF C!Cancelled, EndInv, LedgerTypes
  <2>2. CASE call[t] # None /\ C!Runaway(t)
    BY <1>11, <1>a, <1>6, <2>2 DEF C!Cancelled
  <2>3. CASE call[t] # None /\ ~C!Runaway(t)
    BY <1>11, <1>a, <1>5, <2>3 DEF C!Cancelled
  <2> QED
    BY <2>1, <2>2, <2>3
<1>12. ASSUME NEW r \in {"timeout", "abandoned"}, C!OtherEnds(r) PROVE EndInv'
  <2>1. r # None
    BY DEF CallConstants, Reasons
  <2> QED
    BY <1>12, <2>1 DEF C!OtherEnds, C!End, EndInv, LedgerTypes, C!Crossed
<1>13. CASE C!Stops \/ C!Aborts
  BY <1>1, <1>13 DEF C!Stops, C!Aborts
<1>14. CASE C!Closes
  BY <1>14 DEF C!Closes, EndInv, LedgerTypes, C!Crossed, C!Outcome
<1> QED
  BY <1>2, <1>3, <1>4, <1>8, <1>9, <1>10, <1>11, <1>12, <1>13, <1>14 DEF C!Next

LEMMA CallsInvariant == ASSUME CallConstants PROVE C!Spec => []CallInv
<1>1. C!Init => CallInv
  <2> SUFFICES ASSUME C!Init PROVE CallInv
    OBVIOUS
  <2>1. InFlight = {} /\ Cardinality(InFlight) = 0
    BY FS_EmptySet DEF C!Init, InFlight
  <2>2. ~C!Crossed(ledger)
    BY DEF C!Init, C!Crossed, C!FACTOR, CallConstants
  <2>3. ChargeInv
    BY <2>1 DEF C!Init, ChargeInv
  <2>4. EndInv
    BY <2>2 DEF C!Init, EndInv, LedgerTypes, CallConstants, Reasons
  <2> QED
    BY <2>3, <2>4 DEF CallInv
<1>2. CallInv /\ [C!Next]_C!vars => CallInv'
  BY ChargesStep, EndsStep DEF CallInv
<1> QED
  BY <1>1, <1>2, PTL DEF C!Spec

LEMMA SameCount == ASSUME NEW S PROVE C!Cardinality(S) = Cardinality(S)
  BY DEF C!Cardinality, Cardinality

(* Whatever fails, is retried, cut or cancelled, each attempt is charged   *)
(* once by the end, no Fast or Slow call begins over a limit, and the end  *)
(* names the worst of what befell the session (llm/http.py, llm/spend.py,  *)
(* kernel/session.py).                                                     *)
THEOREM CallsAccounted ==
    ASSUME CallConstants
    PROVE  C!Spec => [](C!EveryAttemptCharged /\ C!RunawayStops /\ C!EndNamesTheWorst)
<1>1. CallInv => C!EveryAttemptCharged
  <2> SUFFICES ASSUME CallInv PROVE C!EveryAttemptCharged
    OBVIOUS
  <2>1. reason # None => InFlight = {}
    BY DEF CallInv, ChargeInv, EndInv
  <2>2. Cardinality({}) = 0
    BY FS_EmptySet
  <2>3. C!Cardinality(InFlight) = Cardinality(InFlight)
    BY SameCount
  <2>4. C!EveryAttemptCharged <=>
          /\ attempts.charged + C!Cardinality(InFlight) = attempts.begun
          /\ reason # None => attempts.charged = attempts.begun
    BY DEF InFlight, C!EveryAttemptCharged
  <2> QED
    BY <2>1, <2>2, <2>3, <2>4 DEF CallInv, ChargeInv
<1>2. CallInv => C!RunawayStops
  BY DEF CallInv, EndInv, C!RunawayStops
<1>3. CallInv => C!EndNamesTheWorst
  BY DEF CallInv, EndInv, C!EndNamesTheWorst, C!Outcome
<1> QED
  BY <1>1, <1>2, <1>3, CallsInvariant, PTL

-----------------------------------------------------------------------------
(* The simulated user. *)

Kinds == {"opening", "reply", "none", "after_card", "after_offer", "after_turn_k"}
Jobs == [kind : Kinds, card : Subjects \cup {0}, at : Int, stop : BOOLEAN]
Fields == {"phase", "card", "grant", "due", "until", "up", "msg"}

UserConstants == CARD_TTL \in Int /\ 0 \notin Subjects

UserTypes ==
    /\ now \in Int /\ queue \in Seq(Jobs) /\ busy \in Jobs
    /\ task \in [trigger : P!Triggers, plain : BOOLEAN, approves : BOOLEAN]
    /\ subjects = [s \in Subjects |-> subjects[s]] /\ DOMAIN stopped = Subjects /\ granted \subseteq Subjects
    /\ \A s \in Subjects : DOMAIN subjects[s] = Fields /\ subjects[s].until \in Int

(* A card has one job, from its asking until the trigger has run. *)
OfCard(j) == j.kind = "after_card" /\ subjects[j.card].phase \in {"trigger", "ui"}

JobsInv ==
    /\ \A i \in 1..Len(queue) :
         queue[i].card # 0 => OfCard(queue[i]) /\ queue[i].card # busy.card
    /\ \A i, j \in 1..Len(queue) :
         queue[i].card = queue[j].card /\ queue[i].card # 0 => i = j
    /\ busy.card # 0 => OfCard(busy) /\ busy.stop

(* The approver's wait for its stop: it knows the stop its card set off    *)
(* before it begins to wait, and gets past the wait only once that is      *)
(* cleared, or too late for the card.                                      *)
WaitOf(x, s) ==
    /\ x.phase \in {"none", "trigger"} => stopped[s] = 0
    /\ IF x.phase = "ui" THEN ~task.approves ELSE stopped[s] = x.msg
    /\ x.phase \notin {"none", "ui"} => task.approves
    /\ x.phase = "seen" => x.msg \in fences \cup cleared /\ x.msg \in x.up \cup cleared
    /\ x.phase \in {"post", "decided"} /\ x.msg # 0 => x.msg \in cleared \/ now >= x.until
    /\ s \in granted => x.phase = "decided" /\ (stopped[s] # 0 => stopped[s] \in cleared)

UserInv == UserTypes /\ JobsInv /\ \A s \in Subjects : WaitOf(subjects[s], s)

LEMMA QueueTail ==
    ASSUME NEW S, NEW q \in Seq(S), q # <<>>
    PROVE  /\ Len(q) \in Nat \ {0} /\ Head(q) = q[1] /\ Head(q) \in S
           /\ Tail(q) \in Seq(S) /\ Len(Tail(q)) = Len(q) - 1
           /\ \A i \in 1..Len(Tail(q)) : Tail(q)[i] = q[i + 1] /\ i + 1 \in 1..Len(q)
<1>1. Len(q) \in Nat \ {0} /\ Head(q) = q[1] /\ Head(q) \in S /\ Tail(q) \in Seq(S)
      /\ Len(Tail(q)) = Len(q) - 1
  BY HeadTailProperties, LenProperties, EmptySeq
<1>2. \A i \in 1..Len(Tail(q)) : Tail(q)[i] = q[i + 1]
  BY <1>1, HeadTailProperties
<1>3. \A i \in 1..Len(Tail(q)) : i + 1 \in 1..Len(q)
  BY <1>1
<1> QED
  BY <1>1, <1>2, <1>3

LEMMA QueueAppend ==
    ASSUME NEW S, NEW q \in Seq(S), NEW j \in S
    PROVE  /\ Append(q, j) \in Seq(S) /\ Len(q) \in Nat
           /\ Len(Append(q, j)) = Len(q) + 1 /\ Append(q, j)[Len(q) + 1] = j
           /\ \A i \in 1..Len(q) : Append(q, j)[i] = q[i]
  OBVIOUS

(* A job joins the queue: of no card, or of one just asked for. *)
LEMMA JobJoins ==
    ASSUME UserTypes, JobsInv, NEW j \in Jobs, queue' = Append(queue, j), busy' = busy,
           \A s \in Subjects : subjects'[s].phase = subjects[s].phase \/ subjects[s].phase = "none",
           j.card # 0 => /\ OfCard(j)' /\ subjects[j.card].phase = "none"
    PROVE  JobsInv' /\ queue' \in Seq(Jobs)
<1>1. PICK n \in Nat : n = Len(queue)
  BY LenProperties DEF UserTypes
<1>2. /\ queue' \in Seq(Jobs) /\ Len(queue') = n + 1 /\ queue'[n + 1] = j
      /\ \A i \in 1..n : queue'[i] = queue[i] /\ queue[i] \in Jobs
  BY <1>1, QueueAppend, ElementOfSeq DEF UserTypes
<1>3. \A i \in 1..n : queue[i].card # 0 =>
        /\ OfCard(queue[i]) /\ queue[i].card \in Subjects /\ queue[i].card # busy.card
        /\ subjects'[queue[i].card].phase = subjects[queue[i].card].phase
  BY <1>1, <1>2 DEF JobsInv, OfCard, Jobs
<1>4. busy.card # 0 =>
        OfCard(busy) /\ busy.stop /\ subjects'[busy.card].phase = subjects[busy.card].phase
  BY DEF JobsInv, OfCard, Jobs, UserTypes
<1>5. j.card # 0 =>
        j.kind = "after_card" /\ subjects'[j.card].phase \in {"trigger", "ui"}
  BY DEF OfCard
<1>6. j.card # 0 => j.card # busy.card /\ \A i \in 1..n : queue[i].card # j.card
  BY <1>3, <1>4 DEF OfCard
<1>7. \A i, k \in 1..n : queue[i].card = queue[k].card /\ queue[i].card # 0 => i = k
  BY <1>1 DEF JobsInv
<1>8. \A i \in 1..(n + 1) : i \in 1..n \/ i = n + 1
  OBVIOUS
<1>9. \A i \in 1..(n + 1) : queue'[i].card # 0 =>
        /\ queue'[i].kind = "after_card" /\ subjects'[queue'[i].card].phase \in {"trigger", "ui"}
        /\ queue'[i].card # busy.card
  BY <1>2, <1>3, <1>5, <1>6, <1>8 DEF OfCard
<1>10. \A i, k \in 1..(n + 1) :
         queue'[i].card = queue'[k].card /\ queue'[i].card # 0 => i = k
  BY <1>2, <1>6, <1>7, <1>8
<1> QED
  BY <1>2, <1>4, <1>9, <1>10 DEF JobsInv, OfCard

(* The first job leaves; it composes, or its trigger has run at once. *)
LEMMA JobLeaves ==
    ASSUME UserTypes, JobsInv, queue # <<>>, queue' = Tail(queue), busy.card = 0,
           \/ busy' = busy
           \/ /\ busy' \in Jobs /\ busy'.card = Head(queue).card
              /\ busy'.kind = Head(queue).kind
              /\ busy'.card # 0 => busy'.stop
              /\ subjects'[busy'.card].phase = subjects[busy'.card].phase,
           \A s \in Subjects : s # Head(queue).card => subjects'[s] = subjects[s]
    PROVE  JobsInv' /\ queue' \in Seq(Jobs) /\ busy' \in Jobs
<1>1. PICK n \in Nat : n = Len(queue)
  BY LenProperties DEF UserTypes
<1>2. /\ n > 0 /\ Head(queue) = queue[1] /\ Head(queue) \in Jobs
      /\ queue' \in Seq(Jobs) /\ Len(queue') = n - 1
      /\ \A i \in 1..(n - 1) : queue'[i] = queue[i + 1] /\ i + 1 \in 1..n
      /\ \A i \in 1..n : queue[i] \in Jobs
  BY <1>1, QueueTail, ElementOfSeq DEF UserTypes
<1>3. \A i, k \in 1..n : queue[i].card = queue[k].card /\ queue[i].card # 0 => i = k
  BY <1>1 DEF JobsInv
<1>4. \A i \in 1..n : queue[i].card # 0 =>
        queue[i].kind = "after_card" /\ subjects[queue[i].card].phase \in {"trigger", "ui"}
  BY <1>1 DEF JobsInv, OfCard
<1>5. 1 \in 1..n /\ \A i \in 1..(n - 1) : i + 1 # 1
  BY <1>2
<1>6. \A i \in 1..(n - 1) : queue'[i].card # 0 =>
        queue'[i].card # Head(queue).card /\ queue'[i].card \in Subjects
  BY <1>2, <1>3, <1>5 DEF Jobs
<1>7. \A i \in 1..(n - 1) : queue'[i].card # 0 =>
        queue'[i].kind = "after_card" /\ subjects'[queue'[i].card].phase \in {"trigger", "ui"}
  BY <1>2, <1>4, <1>6
<1>8. \A i, k \in 1..(n - 1) :
        queue'[i].card = queue'[k].card /\ queue'[i].card # 0 => i = k
  BY <1>2, <1>3
<1>9. /\ busy' \in Jobs
      /\ busy'.card # 0 =>
           /\ busy'.kind = "after_card" /\ subjects'[busy'.card].phase \in {"trigger", "ui"}
           /\ busy'.stop /\ busy'.card = Head(queue).card
  BY <1>2, <1>4, <1>5 DEF UserTypes
<1>10. \A i \in 1..(n - 1) : queue'[i].card # 0 => queue'[i].card # busy'.card
  BY <1>6, <1>9
<1> QED
  BY <1>2, <1>7, <1>8, <1>9, <1>10 DEF JobsInv, OfCard

(* What no job waits for may move on, and so may what only time changes.   *)
LEMMA JobsStay ==
    ASSUME UserTypes, JobsInv, UNCHANGED queue, busy' \in {busy, P!NoJob},
           \A s \in Subjects : \/ subjects'[s].phase = subjects[s].phase
                               \/ subjects[s].phase \notin {"trigger", "ui"}
                               \/ s = busy.card /\ busy' = P!NoJob
    PROVE  JobsInv' /\ busy' \in Jobs
<1>1. \A i \in 1..Len(queue) : queue[i] \in Jobs
  BY ElementOfSeq DEF UserTypes
<1>2. P!NoJob \in Jobs /\ P!NoJob.card = 0
  BY DEF P!NoJob, Jobs, Kinds
<1>3. \A i \in 1..Len(queue) : queue[i].card # 0 =>
        /\ subjects'[queue[i].card].phase = subjects[queue[i].card].phase
        /\ queue[i].kind = "after_card" /\ subjects[queue[i].card].phase \in {"trigger", "ui"}
        /\ queue[i].card # busy'.card
  BY <1>1, <1>2 DEF JobsInv, OfCard, Jobs
<1>4. busy'.card # 0 =>
        /\ busy' = busy /\ busy.stop /\ busy.kind = "after_card"
        /\ subjects'[busy.card].phase = subjects[busy.card].phase
        /\ subjects[busy.card].phase \in {"trigger", "ui"}
  BY <1>2 DEF JobsInv, OfCard, Jobs, UserTypes
<1> QED
  BY <1>2, <1>3, <1>4 DEF JobsInv, OfCard, UserTypes

LEMMA UserStep ==
    ASSUME UserConstants, UserInv, [P!Next]_P!vars
    PROVE  UserInv'
<1> USE DEF UserInv
(* Steps of the chat, the clock and the board that leave subjects alone. *)
<1>1. ASSUME UserTypes', JobsInv', UNCHANGED <<task, subjects, stopped, granted>>,
             now <= now', cleared \subseteq cleared',
             fences \cup cleared \subseteq fences' \cup cleared'
      PROVE  UserInv'
  BY <1>1 DEF UserTypes, WaitOf
(* A subject moves on alone. *)
<1>2. ASSUME NEW s \in Subjects, NEW x, DOMAIN x = Fields, x.until \in Int, WaitOf(x, s)',
             subjects' = [subjects EXCEPT ![s] = x],
             UNCHANGED <<task, now, fences, cleared>>, JobsInv',
             queue' \in Seq(Jobs), busy' \in Jobs, DOMAIN stopped' = Subjects,
             granted' \subseteq Subjects,
             \A r \in Subjects \ {s} :
                stopped'[r] = stopped[r] /\ (r \in granted' => r \in granted)
      PROVE  UserInv'
  <2>1. UserTypes'
    BY <1>2 DEF UserTypes
  <2>2. \A r \in Subjects \ {s} : WaitOf(subjects[r], r)' 
    BY <1>2 DEF UserTypes, WaitOf
  <2>3. subjects'[s] = x
    BY <1>2 DEF UserTypes
  <2> QED
    BY <1>2, <2>1, <2>2, <2>3 DEF WaitOf
<1> SUFFICES ASSUME P!Next PROVE UserInv'
  BY <1>1 DEF P!vars, P!user, P!chat, UserTypes, JobsInv, OfCard
<1>3. CASE P!TimePasses
  BY <1>1, <1>3, JobsStay DEF P!TimePasses, P!chat, P!user, UserTypes
<1>4. ASSUME NEW j \in Jobs, j.card = 0, queue' = Append(queue, j),
             UNCHANGED <<now, task, busy, fences, cleared, subjects, stopped, granted>>
      PROVE  UserInv'
  BY <1>1, <1>4, JobJoins DEF UserTypes
<1>5. CASE P!AgentLine
  <2>1. P!Job("reply", 0) \in Jobs /\ P!Job("reply", 0).card = 0
    BY DEF P!Job, Jobs, Kinds, UserTypes
  <2> QED
    BY <1>4, <1>5, <2>1 DEF P!AgentLine, P!user
<1>6. CASE P!RepOffers
  BY <1>1, <1>6, JobsStay DEF P!RepOffers, P!IsOffered, P!user, UserTypes
<1>7. CASE P!Delivered \/ P!Lapses
  <2>1. /\ UNCHANGED <<now, task, queue, busy, subjects, stopped, granted>>
        /\ fences \subseteq fences' /\ cleared' = cleared
    BY <1>7 DEF P!Delivered, P!Lapses, P!user, P!chat
  <2> QED
    BY <1>1, <2>1, JobsStay DEF UserTypes
<1>8. CASE P!FenceClears
  <2>1. /\ UNCHANGED <<now, task, queue, busy, subjects, stopped, granted>>
        /\ fences \cup cleared = fences' \cup cleared' /\ cleared \subseteq cleared'
    BY <1>8 DEF P!FenceClears, P!user, P!chat
  <2> QED
    BY <1>1, <2>1, JobsStay DEF UserTypes
<1>9. CASE P!Composes
  <2> DEFINE j == Head(queue)
  <2>1. /\ queue # <<>> /\ queue' = Tail(queue) /\ j \in Jobs /\ busy.card = 0
        /\ UNCHANGED <<now, task, fences, cleared, stopped, granted>>
    BY <1>9, QueueTail DEF P!Composes, P!NoJob, UserTypes
  <2>2. CASE j.kind \in P!Triggers /\ ~P!StopDue(j)
    <3>1. busy' = busy /\ (j.card = 0 \/ ~task.approves => UNCHANGED subjects)
          /\ (j.card # 0 /\ task.approves =>
                subjects' = [subjects EXCEPT ![j.card].phase = "delay"])
      BY <1>9, <2>2 DEF P!Composes
    <3>2. CASE UNCHANGED subjects
      BY <1>1, <2>1, <3>1, <3>2, JobLeaves DEF UserTypes
    <3>3. CASE j.card # 0 /\ task.approves
      <4>1. PICK s \in Subjects : s = j.card
        BY <2>1, <3>3 DEF Jobs
      <4>2. PICK x : x = [subjects[s] EXCEPT !.phase = "delay"]
        OBVIOUS
      <4>3. subjects' = [subjects EXCEPT ![s] = x]
        BY <3>1, <3>3, <4>1, <4>2 DEF UserTypes
      <4>4. subjects[s].phase = "trigger"
        BY <2>1, <3>3, <4>1, QueueTail DEF JobsInv, OfCard, WaitOf, UserTypes
      <4>5. DOMAIN x = Fields /\ x.until \in Int /\ WaitOf(x, s)'
        BY <2>1, <3>3, <4>2, <4>4 DEF WaitOf, UserTypes, Fields
      <4>6. JobsInv' /\ queue' \in Seq(Jobs) /\ busy' \in Jobs
        BY <2>1, <3>1, <4>1, <4>3, JobLeaves DEF UserTypes
      <4> QED
        BY <1>2, <2>1, <4>3, <4>5, <4>6 DEF UserTypes
    <3> QED
      BY <3>1, <3>2, <3>3
  <2>3. CASE ~(j.kind \in P!Triggers /\ ~P!StopDue(j))
    <3>1. busy' = [j EXCEPT !.stop = P!StopDue(j)] /\ UNCHANGED subjects
      BY <1>9, <2>3 DEF P!Composes
    <3>2. P!StopDue(j) \in BOOLEAN
      BY DEF P!StopDue
    <3>3. j.card # 0 => j.kind = "after_card"
      BY <2>1, QueueTail DEF JobsInv, OfCard, UserTypes
    <3>4. busy' \in Jobs /\ busy'.card = j.card /\ busy'.kind = j.kind
          /\ (busy'.card # 0 => busy'.stop)
      BY <2>1, <2>3, <3>1, <3>2, <3>3 DEF Jobs, P!Triggers
    <3>5. JobsInv' /\ queue' \in Seq(Jobs)
      BY <2>1, <3>1, <3>4, JobLeaves
    <3> QED
      BY <1>1, <2>1, <3>1, <3>4, <3>5 DEF UserTypes
  <2> QED
    BY <2>2, <2>3
<1>10. CASE P!Replies
  <2>1. /\ busy' = P!NoJob
        /\ UNCHANGED <<queue, now, task, fences, cleared, granted>>
    BY <1>10 DEF P!Replies, P!user
  <2>2. CASE busy.card = 0
    <3>1. UNCHANGED <<subjects, stopped>>
      BY <1>10, <2>2 DEF P!Replies
    <3> QED
      BY <1>1, <2>1, <3>1, JobsStay DEF UserTypes
  <2>3. CASE busy.card # 0
    <3>1. PICK s \in Subjects : s = busy.card
      BY <2>3 DEF UserTypes, Jobs
    <3>2. busy.stop /\ subjects[s].phase \in {"trigger", "ui"}
      BY <2>3, <3>1 DEF JobsInv, OfCard
    <3>3. PICK n : /\ stopped' = [stopped EXCEPT ![s] = n]
                   /\ subjects' = IF task.approves
                          THEN [subjects EXCEPT ![s].phase = "delay", ![s].msg = n]
                          ELSE subjects
      BY <1>10, <2>3, <3>1, <3>2 DEF P!Replies
    <3>4. PICK x : x = IF task.approves
                       THEN [[subjects[s] EXCEPT !.phase = "delay"] EXCEPT !.msg = n]
                       ELSE subjects[s]
      OBVIOUS
    <3>5. subjects' = [subjects EXCEPT ![s] = x]
      <4>1. CASE task.approves
        <5>1. PICK y : y = [subjects[s] EXCEPT !.phase = "delay"]
          OBVIOUS
        <5>2. PICK half : half = [subjects EXCEPT ![s] = y]
          OBVIOUS
        <5>3. half[s] = y
          BY <5>2 DEF UserTypes
        <5>4. subjects' = [half EXCEPT ![s].msg = n]
          BY <3>3, <4>1, <5>1, <5>2
        <5>5. subjects' = [half EXCEPT ![s] = [y EXCEPT !.msg = n]]
          BY <5>3, <5>4
        <5>6. x = [y EXCEPT !.msg = n]
          BY <3>4, <4>1, <5>1
        <5> QED
          BY <5>2, <5>5, <5>6 DEF UserTypes
      <4>2. CASE ~task.approves
        BY <3>3, <3>4, <4>2 DEF UserTypes
      <4> QED
        BY <4>1, <4>2
    <3>6. DOMAIN x = Fields /\ x.until \in Int
          /\ IF task.approves THEN x.phase = "delay" /\ x.msg = n ELSE x = subjects[s]
      BY <3>4 DEF UserTypes, Fields
    <3>7. WaitOf(x, s)'
      BY <2>1, <3>2, <3>3, <3>6 DEF WaitOf, UserTypes
    <3>8. JobsInv' /\ busy' \in Jobs
      BY <2>1, <3>1, <3>5, JobsStay DEF UserTypes
    <3> QED
      BY <1>2, <2>1, <3>3, <3>5, <3>6, <3>7, <3>8 DEF UserTypes
  <2> QED
    BY <2>2, <2>3
<1>11. ASSUME NEW s \in Subjects, NEW card \in BOOLEAN, P!Asks(s, card) PROVE UserInv'
  <2>1. PICK within \in BOOLEAN :
          subjects' = [subjects EXCEPT ![s] =
            [P!NoSubject EXCEPT
               !.phase = IF ~task.approves THEN "ui"
                         ELSE IF card THEN "trigger" ELSE "delay",
               !.card = card, !.grant = (within /\ mind # "stopped"),
               !.due = now + APPROVER_DELAY, !.until = now + CARD_TTL]]
    BY <1>11 DEF P!Asks
  <2>2. PICK x :
          /\ x = [P!NoSubject EXCEPT
               !.phase = IF ~task.approves THEN "ui"
                         ELSE IF card THEN "trigger" ELSE "delay",
               !.card = card, !.grant = (within /\ mind # "stopped"),
               !.due = now + APPROVER_DELAY, !.until = now + CARD_TTL]
          /\ subjects' = [subjects EXCEPT ![s] = x]
    BY <2>1
  <2>3. /\ DOMAIN x = Fields /\ x.until = now + CARD_TTL /\ x.msg = 0
        /\ x.phase = IF ~task.approves THEN "ui" ELSE IF card THEN "trigger" ELSE "delay"
    BY <2>2 DEF P!NoSubject, Fields
  <2>4. /\ subjects[s].phase = "none" /\ stopped[s] = 0 /\ s \notin granted
        /\ UNCHANGED <<now, task, busy, fences, granted, stopped, cleared>>
    BY <1>11 DEF P!Asks, WaitOf, P!user
  <2>5. WaitOf(x, s)' /\ x.until \in Int
    BY <2>3, <2>4 DEF WaitOf, UserTypes, UserConstants
  <2>6. JobsInv' /\ queue' \in Seq(Jobs)
    <3>1. CASE card
      <4>1. P!Job("after_card", s) \in Jobs /\ P!Job("after_card", s).card = s
            /\ P!Job("after_card", s).kind = "after_card"
        BY DEF P!Job, Jobs, Kinds, UserTypes
      <4>2. queue' = Append(queue, P!Job("after_card", s))
        BY <1>11, <3>1 DEF P!Asks
      <4>3. PICK j \in Jobs : j = P!Job("after_card", s)
        BY <4>1
      <4>4. OfCard(j)' /\ j.card = s
        BY <2>2, <2>3, <3>1, <4>1, <4>3 DEF OfCard, UserTypes
      <4> QED
        BY <2>2, <2>4, <4>2, <4>3, <4>4, JobJoins DEF UserTypes
    <3>2. CASE ~card
      <4>1. queue' = queue
        BY <1>11, <3>2 DEF P!Asks
      <4> QED
        BY <2>2, <2>4, <4>1, JobsStay DEF UserTypes
    <3> QED
      BY <3>1, <3>2
  <2> QED
    BY <1>2, <2>2, <2>3, <2>4, <2>5, <2>6 DEF UserTypes
<1>12. ASSUME NEW s \in Subjects, P!DelayOver(s) PROVE UserInv'
  <2>1. PICK x : x = [subjects[s] EXCEPT !.phase =
                        IF subjects[s].msg = 0 THEN "post" ELSE "stop"]
    OBVIOUS
  <2>2. /\ DOMAIN x = Fields /\ x.until = subjects[s].until /\ x.msg = subjects[s].msg
        /\ x.phase = IF subjects[s].msg = 0 THEN "post" ELSE "stop"
    BY <2>1 DEF UserTypes, Fields
  <2>3. /\ subjects[s].phase = "delay" /\ subjects' = [subjects EXCEPT ![s] = x]
        /\ UNCHANGED <<now, task, queue, busy, fences, granted, stopped, cleared>>
    BY <1>12, <2>1 DEF P!DelayOver, P!chat, P!user, UserTypes
  <2>4. JobsInv'
    BY <2>3, JobsStay DEF UserTypes
  <2> QED
    BY <1>2, <2>2, <2>3, <2>4 DEF UserTypes, WaitOf
<1>13. ASSUME NEW s \in Subjects, P!StopHeard(s) PROVE UserInv'
  <2>1. PICK x : x = [subjects[s] EXCEPT !.phase = "seen", !.up = fences]
    OBVIOUS
  <2>2. /\ DOMAIN x = Fields /\ x.until = subjects[s].until /\ x.msg = subjects[s].msg
        /\ x.phase = "seen" /\ x.up = fences
    BY <2>1 DEF UserTypes, Fields
  <2>3. /\ subjects[s].phase = "stop" /\ subjects[s].msg \in fences \cup cleared
        /\ UNCHANGED <<now, task, queue, busy, fences, granted, stopped, cleared>>
    BY <1>13 DEF P!StopHeard, P!IsDelivered, P!chat, P!user
  <2>4. subjects' = [subjects EXCEPT ![s] = x]
    BY <1>13, <2>1 DEF P!StopHeard, P!Up, UserTypes, Fields
  <2>5. JobsInv'
    BY <2>3, <2>4, JobsStay DEF UserTypes
  <2> QED
    BY <1>2, <2>2, <2>3, <2>4, <2>5 DEF UserTypes, WaitOf
<1>14. ASSUME NEW s \in Subjects, P!Seen(s) PROVE UserInv'
  <2>1. PICK x : x = [subjects[s] EXCEPT !.phase = "post"]
    OBVIOUS
  <2>2. /\ DOMAIN x = Fields /\ x.until = subjects[s].until /\ x.msg = subjects[s].msg
        /\ x.phase = "post"
    BY <2>1 DEF UserTypes, Fields
  <2>3. /\ subjects[s].phase = "seen" /\ subjects' = [subjects EXCEPT ![s] = x]
        /\ subjects[s].up \cap fences = {} \/ now >= subjects[s].until
        /\ UNCHANGED <<now, task, queue, busy, fences, granted, stopped, cleared>>
    BY <1>14, <2>1 DEF P!Seen, P!chat, P!user, UserTypes
  <2>4. JobsInv'
    BY <2>3, JobsStay DEF UserTypes
  <2> QED
    BY <1>2, <2>2, <2>3, <2>4 DEF UserTypes, WaitOf
<1>15. ASSUME NEW s \in Subjects, P!Decides(s) PROVE UserInv'
  <2>1. PICK x : x = [subjects[s] EXCEPT !.phase = "decided"]
    OBVIOUS
  <2>2. /\ DOMAIN x = Fields /\ x.until = subjects[s].until /\ x.msg = subjects[s].msg
        /\ x.phase = "decided"
    BY <2>1 DEF UserTypes, Fields
  <2>3. /\ subjects[s].phase = "post" /\ subjects' = [subjects EXCEPT ![s] = x]
        /\ UNCHANGED <<now, task, queue, busy, fences, stopped, cleared>>
        /\ granted' \subseteq granted \cup {s}
        /\ s \notin granted => (s \in granted' => now < subjects[s].until)
    BY <1>15, <2>1 DEF P!Decides, P!chat, P!user, UserTypes
  <2>4. JobsInv'
    BY <2>3, JobsStay DEF UserTypes
  <2>5. WaitOf(x, s)'
    BY <2>2, <2>3 DEF UserTypes, WaitOf
  <2> QED
    BY <1>2, <2>2, <2>3, <2>4, <2>5 DEF UserTypes
<1> QED
  BY <1>3, <1>5, <1>6, <1>7, <1>8, <1>9, <1>10, <1>11, <1>12, <1>13, <1>14, <1>15
     DEF P!Next

(* Whatever waits in the chat, however late the stop is composed, a card   *)
(* that set it off is granted only after every step it could change has    *)
(* seen it (env/user, kernel/fence.py).                                    *)
THEOREM GrantsHeedStops ==
    ASSUME UserConstants
    PROVE  P!Spec => []P!GrantHeedsStop
<1>1. P!Init => UserInv
  <2> SUFFICES ASSUME P!Init PROVE UserInv
    OBVIOUS
  <2>1. P!Job("opening", 0) \in Jobs /\ P!Job("opening", 0).card = 0 /\ P!NoJob \in Jobs
        /\ P!NoJob.card = 0
    BY DEF P!Init, P!Job, P!NoJob, Jobs, Kinds
  <2>2. /\ DOMAIN P!NoSubject = Fields /\ P!NoSubject.until = 0 /\ P!NoSubject.msg = 0
        /\ P!NoSubject.phase = "none"
    BY DEF P!NoSubject, Fields
  <2>3. UserTypes
    BY <2>1, <2>2 DEF P!Init, UserTypes
  <2>4. JobsInv
    BY <2>1 DEF P!Init, JobsInv
  <2>5. \A s \in Subjects : WaitOf(subjects[s], s)
    BY <2>2 DEF P!Init, WaitOf
  <2> QED
    BY <2>3, <2>4, <2>5 DEF UserInv
<1>2. UserInv => P!GrantHeedsStop
  <2> SUFFICES ASSUME UserInv, NEW s \in granted, stopped[s] # 0 PROVE stopped[s] \in cleared
    BY DEF P!GrantHeedsStop
  <2> QED
    BY DEF UserInv, WaitOf, UserTypes
<1> QED
  BY <1>1, <1>2, UserStep, PTL DEF P!Spec

-----------------------------------------------------------------------------
(* The simulated rep. *)

RepConstants ==
    /\ Ladder \in Nat /\ STRIKES \in Nat \ {0} /\ None \notin Int
    /\ TTL \in [1..Ladder -> Nat \cup {None}]

Offers == 1..Ladder
OfferStates == [status : {"none", "open", "expired", "accepted"}, until : Int \cup {None}]
RepKinds == {"offer_expired", "clarify", "ok_hold", "how_can_help", "ask_identity", "greet",
          "hang_up", "no_better", "offer", "offer_unavailable", "confirm_accept",
          "confirmed", "readback", "ack_decline", "transfer", "ack", "check_in"}
Decisions == [kind : RepKinds, ref : Int \cup {None}, commit : BOOLEAN, strike : BOOLEAN]

RepTypes ==
    /\ clock \in Nat /\ backlog \in Seq(Nat) /\ block \in Seq(Nat)
    /\ phase \in {"idle", "ear", "policy", "mouth"}
    /\ rung \in 0..Ladder /\ listed \subseteq 1..rung
    /\ decided \in Seq(Decisions) /\ offers \in [Offers -> OfferStates]
    /\ identity \in Nat /\ timers \in Nat /\ silences \in Nat /\ holds \in Nat
    /\ DOMAIN inbox = {"strikes", "end"} /\ inbox.strikes \in Int

(* Only offers made are open, and the rep waits for a confirmation of what *)
(* it asked about last.                                                    *)
AskInv ==
    /\ \A o \in Offers : offers[o].status = "open" => o \in 1..rung
    /\ state = "CONFIRM" => confirming \in Offers /\ asked = confirming
    /\ R!CommitMeant

StruckOf(d) == {i \in DOMAIN d : d[i].strike}

(* Strikes decided in the turn are not reported yet, and how the call ended *)
(* is its last decision until then.                                        *)
StrikeInv ==
    /\ state = "ENDED" <=> identity >= STRIKES \/ silences + holds >= STRIKES
    /\ inbox.strikes + Cardinality(StruckOf(decided)) = identity + timers
    /\ phase \in {"idle", "ear"} => decided = <<>>
    /\ phase = "ear" => ~R!Done
    /\ phase \in {"policy", "mouth"} /\ R!Done =>
         decided # <<>> /\ (decided[Len(decided)].kind = "hang_up" <=> state = "ENDED")
    /\ phase = "idle" /\ R!Done =>
         inbox.end = IF state = "ENDED" THEN "hangup" ELSE "closed"

RepInv == RepTypes /\ AskInv /\ StrikeInv

-----------------------------------------------------------------------------
(* What a reaction of the policy may do to c, which is not over, and which  *)
(* had s asked. *)
Shape(c) ==
    c = [state |-> c.state, rung |-> c.rung, levers |-> c.levers, pending |-> c.pending,
         identity |-> c.identity, offers |-> c.offers, clock |-> c.clock,
         since |-> c.since, intent |-> c.intent]

RepFields(c) ==
    /\ c.rung \in 0..Ladder /\ c.offers \in [Offers -> OfferStates]
    /\ c.identity \in Nat
    /\ \A o \in Offers : c.offers[o].status = "open" => o \in 1..c.rung

Core(c) == Shape(c) /\ RepFields(c)

Ready(c) ==
    /\ Core(c) /\ c.state \notin R!TERMINAL /\ c.identity < STRIKES
    /\ c.state = "CONFIRM" => c.pending \in Offers
    /\ c.intent = R!Intent("clarify", None)

AskedAfter(c, before) ==
    IF c.intent.kind = "confirm_accept" THEN c.intent.ref
    ELSE IF c.intent.kind \in {"offer", "ack_decline"} THEN None ELSE before

Reacted(c, a, r) ==
    /\ RepFields(r) /\ r.intent \in Decisions
    /\ c.rung <= r.rung
    /\ r.identity \in {c.identity, c.identity + 1}
    /\ r.state = "ENDED" <=> r.identity >= STRIKES
    /\ r.intent.kind = "hang_up" <=> r.state = "ENDED"
    /\ r.state = "CONFIRM" =>
         /\ r.pending \in Offers
         /\ \/ r.intent.kind = "confirm_accept" /\ r.intent.ref = r.pending
            \/ /\ r.intent.kind \notin {"confirm_accept", "offer", "ack_decline"}
               /\ c.state = "CONFIRM" /\ r.pending = c.pending
    /\ r.intent.commit =>
         /\ r.intent.ref \in Offers /\ c.offers[r.intent.ref].status = "open"
         /\ \/ r.intent.ref \in a.named
            \/ c.state = "CONFIRM" /\ r.intent.ref = c.pending

LEMMA RepCardinality == ASSUME NEW S PROVE R!Cardinality(S) = Cardinality(S)
  BY DEF R!Cardinality, Cardinality

(* A reply that leaves the offers, the confirmation and the strikes alone. *)
LEMMA StaysReacted ==
    ASSUME NEW c, NEW a, NEW r, RepConstants, Ready(c), RepFields(r), r.intent \in Decisions,
           r.rung = c.rung, r.pending = c.pending, r.identity = c.identity,
           r.state = c.state \/ r.state \in {"DISCOVER", "IDENTIFY", "TRANSFER"},
           ~r.intent.commit,
           r.intent.kind \notin {"confirm_accept", "offer", "ack_decline", "hang_up"}
    PROVE  Reacted(c, a, r)
<1>1. c.identity \in Nat /\ c.rung \in Int /\ STRIKES \in Nat /\ c.identity < STRIKES
  BY DEF Ready, Core, RepFields, RepConstants
<1>2. r.state # "ENDED"
  BY DEF Ready, R!TERMINAL
<1>3. r.state = "CONFIRM" => c.state = "CONFIRM" /\ c.pending \in Offers
  BY DEF Ready
<1>4. c.rung <= r.rung /\ ~(r.identity >= STRIKES)
  BY <1>1
<1> QED
  BY <1>2, <1>3, <1>4 DEF Reacted

LEMMA IntentReplies ==
    ASSUME NEW kind \in RepKinds, NEW ref \in Int \cup {None}
    PROVE  /\ R!Intent(kind, ref) \in Decisions /\ R!Intent(kind, ref).kind = kind
           /\ R!Intent(kind, ref).ref = ref /\ ~R!Intent(kind, ref).commit
  BY DEF R!Intent, Decisions

(* What Says sets. *)
LEMMA SaysSets ==
    ASSUME NEW c, NEW kind, NEW ref, Core(c)
    PROVE  LET r == R!Says(c, kind, ref)
           IN  /\ Core(r) /\ r.intent = R!Intent(kind, ref)
               /\ r.state = c.state /\ r.rung = c.rung /\ r.pending = c.pending
               /\ r.identity = c.identity /\ r.offers = c.offers
<1> DEFINE r == R!Says(c, kind, ref)
<1>1. /\ r = [state |-> c.state, rung |-> c.rung, levers |-> c.levers, pending |-> c.pending,
            identity |-> c.identity, offers |-> c.offers, clock |-> c.clock,
            since |-> c.since, intent |-> R!Intent(kind, ref)]
  BY DEF Core, Shape, R!Says
<1> HIDE DEF r
<1>2. Core(r)
  BY <1>1 DEF Core, Shape, RepFields
<1> QED
  BY <1>1, <1>2 DEF r

LEMMA SaysReacts ==
    ASSUME NEW c, NEW d, NEW a, NEW kind \in RepKinds, NEW ref \in Int \cup {None},
           RepConstants, Ready(c), Core(d),
           d.rung = c.rung, d.pending = c.pending, d.identity = c.identity,
           d.state = c.state \/ d.state \in {"DISCOVER", "IDENTIFY", "TRANSFER"},
           kind \notin {"confirm_accept", "offer", "ack_decline", "hang_up"}
    PROVE  Reacted(c, a, R!Says(d, kind, ref))
<1> DEFINE r == R!Says(d, kind, ref)
<1>1. /\ Core(r) /\ r.intent = R!Intent(kind, ref)
      /\ r.state = d.state /\ r.rung = c.rung /\ r.pending = c.pending
      /\ r.identity = c.identity
  BY SaysSets
<1> HIDE DEF r
<1>2. r.intent \in Decisions /\ r.intent.kind = kind /\ ~r.intent.commit
  BY <1>1, IntentReplies
<1>3. Reacted(c, a, r)
  BY <1>1, <1>2, StaysReacted DEF Core
<1> QED
  BY <1>3 DEF r

LEMMA HoldReacts ==
    ASSUME NEW c, NEW a, NEW t, RepConstants, Ready(c)
    PROVE  Reacted(c, a, R!Hold(c, t))
<1> DEFINE k == IF c.clock = None THEN t ELSE c.clock
           d == [c EXCEPT !.clock = k, !.since = k]
           e == [c EXCEPT !.clock = k]
<1> HIDE DEF k
<1>0. d = [e EXCEPT !.since = k]
  BY DEF Ready, Core, Shape
<1>1. /\ Core(d) /\ d.rung = c.rung /\ d.pending = c.pending /\ d.identity = c.identity
      /\ d.state = c.state
  <2>1. /\ Core(e) /\ e.rung = c.rung /\ e.pending = c.pending /\ e.identity = c.identity
        /\ e.state = c.state
    BY DEF Ready, Core, Shape, RepFields
  <2> HIDE DEF d, e
  <2> QED
    BY <1>0, <2>1 DEF Core, Shape, RepFields
<1>2. R!Hold(c, t) = R!Says(d, "ok_hold", None)
  BY DEF R!Hold, k
<1> HIDE DEF d
<1>3. PICK kind : kind = "ok_hold"
  OBVIOUS
<1>4. kind \in RepKinds /\ kind \notin {"confirm_accept", "offer", "ack_decline", "hang_up"}
  BY <1>3 DEF RepKinds
<1>5. Reacted(c, a, R!Says(d, kind, None))
  BY <1>1, <1>4, SaysReacts
<1> QED
  BY <1>2, <1>3, <1>5

(* An act in GREET or IDENTIFY; the strike that is one too many ends it. *)
LEMMA IdentifyReacts ==
    ASSUME NEW c, NEW a, RepConstants, Ready(c), c.state \in {"GREET", "IDENTIFY"}
    PROVE  Reacted(c, a, R!Identify(c, a.act))
<1> DEFINE struck == [c EXCEPT !.identity = @ + 1]
           r == R!Identify(c, a.act)
<1>0. /\ c.identity \in Nat /\ c.rung \in Int /\ STRIKES \in Nat /\ c.identity < STRIKES
      /\ Core(c) /\ None \in Int \cup {None}
  BY DEF Ready, Core, RepFields, RepConstants
<1>1. CASE a.act = "last_fact"
  <2> DEFINE d == [c EXCEPT !.state = "DISCOVER", !.clock = None]
  <2>1. /\ Core(d) /\ d.rung = c.rung /\ d.pending = c.pending
        /\ d.identity = c.identity /\ d.state = "DISCOVER"
    <3> DEFINE e == [c EXCEPT !.state = "DISCOVER"]
    <3>1. d = [e EXCEPT !.clock = None]
      BY <1>0 DEF Core, Shape
    <3>2. /\ Core(e) /\ e.rung = c.rung /\ e.pending = c.pending
          /\ e.identity = c.identity /\ e.state = "DISCOVER"
      BY <1>0 DEF Core, Shape, RepFields
    <3> HIDE DEF d, e
    <3> QED
      BY <3>1, <3>2 DEF Core, Shape, RepFields
  <2>2. r = R!Says(d, "how_can_help", None)
    BY <1>1 DEF R!Identify
  <2> HIDE DEF d, r
  <2>3. PICK k : k = "how_can_help"
    OBVIOUS
  <2>4. k \in RepKinds /\ k \notin {"confirm_accept", "offer", "ack_decline", "hang_up"}
    BY <2>3 DEF RepKinds
  <2>5. Reacted(c, a, R!Says(d, k, None))
    BY <1>0, <2>1, <2>4, SaysReacts
  <2> QED
    BY <2>2, <2>3, <2>5 DEF r
<1>2. CASE a.act = "new_fact"
  <2> DEFINE d == [c EXCEPT !.state = "IDENTIFY", !.clock = None]
  <2>1. /\ Core(d) /\ d.rung = c.rung /\ d.pending = c.pending
        /\ d.identity = c.identity /\ d.state = "IDENTIFY"
    <3> DEFINE e == [c EXCEPT !.state = "IDENTIFY"]
    <3>1. d = [e EXCEPT !.clock = None]
      BY <1>0 DEF Core, Shape
    <3>2. /\ Core(e) /\ e.rung = c.rung /\ e.pending = c.pending
          /\ e.identity = c.identity /\ e.state = "IDENTIFY"
      BY <1>0 DEF Core, Shape, RepFields
    <3> HIDE DEF d, e
    <3> QED
      BY <3>1, <3>2 DEF Core, Shape, RepFields
  <2>2. r = R!Says(d, "ask_identity", None)
    BY <1>2 DEF R!Identify
  <2> HIDE DEF d, r
  <2>3. PICK k : k = "ask_identity"
    OBVIOUS
  <2>4. k \in RepKinds /\ k \notin {"confirm_accept", "offer", "ack_decline", "hang_up"}
    BY <2>3 DEF RepKinds
  <2>5. Reacted(c, a, R!Says(d, k, None))
    BY <1>0, <2>1, <2>4, SaysReacts
  <2> QED
    BY <2>2, <2>3, <2>5 DEF r
<1>3. CASE a.act = "wrong_fact"
  <2> DEFINE d == [c EXCEPT !.state = "IDENTIFY"]
  <2>1. /\ Core(d) /\ d.rung = c.rung /\ d.pending = c.pending
        /\ d.identity = c.identity /\ d.state = "IDENTIFY"
    BY <1>0 DEF Core, Shape, RepFields
  <2>2. r = R!Says(d, "ask_identity", None)
    BY <1>3 DEF R!Identify
  <2> HIDE DEF d, r
  <2>3. PICK k : k = "ask_identity"
    OBVIOUS
  <2>4. k \in RepKinds /\ k \notin {"confirm_accept", "offer", "ack_decline", "hang_up"}
    BY <2>3 DEF RepKinds
  <2>5. Reacted(c, a, R!Says(d, k, None))
    BY <1>0, <2>1, <2>4, SaysReacts
  <2> QED
    BY <2>2, <2>3, <2>5 DEF r
<1>4. CASE a.act \notin {"last_fact", "new_fact", "wrong_fact"} /\ c.state = "GREET"
  <2> DEFINE d == [c EXCEPT !.state = "IDENTIFY"]
  <2>1. /\ Core(d) /\ d.rung = c.rung /\ d.pending = c.pending
        /\ d.identity = c.identity /\ d.state = "IDENTIFY"
    BY <1>0 DEF Core, Shape, RepFields
  <2>2. r = R!Says(d, "greet", None)
    BY <1>4 DEF R!Identify
  <2> HIDE DEF d, r
  <2>3. PICK k : k = "greet"
    OBVIOUS
  <2>4. k \in RepKinds /\ k \notin {"confirm_accept", "offer", "ack_decline", "hang_up"}
    BY <2>3 DEF RepKinds
  <2>5. Reacted(c, a, R!Says(d, k, None))
    BY <1>0, <2>1, <2>4, SaysReacts
  <2> QED
    BY <2>2, <2>3, <2>5 DEF r
<1>5. CASE a.act \notin {"last_fact", "new_fact", "wrong_fact"} /\ c.state # "GREET"
  <2>1. /\ Core(struck) /\ struck.rung = c.rung /\ struck.pending = c.pending
        /\ struck.identity = c.identity + 1 /\ struck.state = "IDENTIFY"
    BY <1>0, <1>5 DEF Core, Shape, RepFields
  <2>2. r = IF struck.identity >= STRIKES
            THEN R!Says([struck EXCEPT !.state = "ENDED"], "hang_up", None)
            ELSE R!Says(struck, "ask_identity", None)
    BY <1>5 DEF R!Identify
  <2> HIDE DEF struck, r
  <2> DEFINE d == [struck EXCEPT !.state = "ENDED"]
  <2>3. Core(d) /\ d.rung = c.rung /\ d.identity = c.identity + 1 /\ d.state = "ENDED"
    BY <2>1 DEF Core, Shape, RepFields
  <2> HIDE DEF d
  <2>4. CASE struck.identity >= STRIKES
    <3>1. r = R!Says(d, "hang_up", None)
      BY <2>2, <2>4 DEF d
    <3>2. /\ Core(r) /\ r.intent = R!Intent("hang_up", None)
          /\ r.state = "ENDED" /\ r.rung = c.rung /\ r.identity = c.identity + 1
      BY <2>3, <3>1, SaysSets
    <3>3. r.intent \in Decisions /\ r.intent.kind = "hang_up" /\ ~r.intent.commit
      BY <1>0, <3>2 DEF R!Intent, Decisions, RepKinds
    <3>4. Reacted(c, a, r)
      BY <1>0, <2>1, <2>4, <3>2, <3>3 DEF Reacted, Core
    <3> QED
      BY <3>4 DEF r
  <2>5. CASE ~(struck.identity >= STRIKES)
    <3>1. r = R!Says(struck, "ask_identity", None)
      BY <2>2, <2>5
    <3>2. /\ Core(r) /\ r.intent = R!Intent("ask_identity", None)
          /\ r.state = "IDENTIFY" /\ r.rung = c.rung /\ r.identity = c.identity + 1
      BY <2>1, <3>1, SaysSets
    <3>3. r.intent \in Decisions /\ r.intent.kind = "ask_identity" /\ ~r.intent.commit
      BY <1>0, <3>2 DEF R!Intent, Decisions, RepKinds
    <3>4. Reacted(c, a, r)
      BY <1>0, <2>1, <2>5, <3>2, <3>3 DEF Reacted, Core
    <3> QED
      BY <3>4 DEF r
  <2> QED
    BY <2>4, <2>5
<1> QED
  BY <1>1, <1>2, <1>3, <1>4, <1>5

(* A lever unlocks the next rung, whose offer is then open. *)
LEMMA LeverReacts ==
    ASSUME NEW c, NEW a, NEW l, NEW t \in Nat, RepConstants, Ready(c)
    PROVE  Reacted(c, a, R!Lever(c, l, t))
<1> DEFINE n == c.rung + 1
           until == IF TTL[n] = None THEN None ELSE t + TTL[n]
           x == [status |-> "open", until |-> until]
           s == R!OfferState(n)
           d == [c EXCEPT !.rung = n, !.levers = @ \cup {l}, !.pending = None,
                          !.offers[n] = x, !.state = s]
           r == R!Lever(c, l, t)
<1>0. /\ c.identity \in Nat /\ c.rung \in 0..Ladder /\ STRIKES \in Nat /\ c.identity < STRIKES
      /\ Core(c) /\ None \in Int \cup {None} /\ Ladder \in Nat
      /\ c.offers \in [Offers -> OfferStates]
      /\ \A o \in Offers : c.offers[o].status = "open" => o \in 1..c.rung
  BY DEF Ready, Core, RepFields, RepConstants
<1>1. CASE l \in c.levers \/ c.rung = Ladder
  <2>1. PICK k : k = "no_better"
    OBVIOUS
  <2>2. k \in RepKinds /\ k \notin {"confirm_accept", "offer", "ack_decline", "hang_up"}
    BY <2>1 DEF RepKinds
  <2>3. Reacted(c, a, R!Says(c, k, None))
    BY <1>0, <2>2, SaysReacts
  <2> QED
    BY <1>1, <2>1, <2>3 DEF R!Lever
<1>2. CASE l \notin c.levers /\ c.rung # Ladder
  <2> HIDE DEF s, x
  <2>1. r = R!Says(d, "offer", n)
    BY <1>2 DEF R!Lever, s, x
  <2>2. n \in Offers /\ n \in Int /\ n \in 0..Ladder
    BY <1>0, <1>2 DEF Offers
  <2>3. x \in OfferStates /\ x.status = "open"
    <3>1. TTL[n] \in Nat \cup {None}
      BY <2>2 DEF RepConstants, Offers
    <3> QED
      BY <3>1 DEF x, OfferStates
  <2>4. s \in {"DISCOVER", "FINAL", "OFFER"}
    BY DEF s, R!OfferState
  <2> DEFINE d1 == [c EXCEPT !.rung = n]
             d2 == [d1 EXCEPT !.levers = @ \cup {l}]
             d3 == [d2 EXCEPT !.pending = None]
             d4 == [d3 EXCEPT !.offers[n] = x]
             after == [c.offers EXCEPT ![n] = x]
  <2> HIDE DEF n
  <2>5. d = [d4 EXCEPT !.state = s]
    BY <1>0 DEF Core, Shape
  <2>6. Shape(d1) /\ d1.offers = c.offers /\ d1.identity = c.identity /\ d1.rung = n
    BY <1>0 DEF Core, Shape
  <2> HIDE DEF d1, d
  <2>7. Shape(d2) /\ d2.offers = c.offers /\ d2.identity = c.identity /\ d2.rung = n
    BY <2>6 DEF Shape
  <2> HIDE DEF d2
  <2>8. Shape(d3) /\ d3.offers = c.offers /\ d3.identity = c.identity /\ d3.rung = n
    BY <2>7 DEF Shape
  <2> HIDE DEF d3
  <2>9. /\ d4 = [d3 EXCEPT !.offers = after]
    <3>1. d4 = [d3 EXCEPT !.offers = [@ EXCEPT ![n] = x]]
      OBVIOUS
    <3> QED
      BY <2>8, <3>1 DEF Shape
  <2> HIDE DEF d4
  <2>10. Shape(d4) /\ d4.offers = after /\ d4.identity = c.identity /\ d4.rung = n
    BY <2>8, <2>9 DEF Shape
  <2>11. /\ Shape(d) /\ d.offers = after /\ d.identity = c.identity /\ d.rung = n
         /\ d.state = s
    BY <2>5, <2>10 DEF Shape
  <2>12. /\ after \in [Offers -> OfferStates]
         /\ \A o \in Offers : after[o].status = "open" => o \in 1..n
    <3>1. \A o \in 1..c.rung : o \in 1..n
      BY <1>0, <2>2 DEF n
    <3>2. n \in 1..n
      BY <2>2 DEF Offers
    <3>3. \A o \in Offers : after[o] = IF o = n THEN x ELSE c.offers[o]
      BY <1>0, <2>2
    <3>4. after \in [Offers -> OfferStates]
      BY <1>0, <2>2, <2>3
    <3> HIDE DEF after
    <3> QED
      BY <1>0, <3>1, <3>2, <3>3, <3>4
  <2>13. Core(d)
    BY <1>0, <2>2, <2>11, <2>12 DEF Core, RepFields
  <2>14. /\ Core(r) /\ r.intent = R!Intent("offer", n) /\ r.state = s /\ r.rung = n
         /\ r.identity = c.identity
    BY <2>1, <2>11, <2>13, SaysSets
  <2>15. r.intent \in Decisions /\ r.intent.kind = "offer" /\ ~r.intent.commit
    BY <2>2, <2>14 DEF R!Intent, Decisions, RepKinds
  <2> HIDE DEF r
  <2>16. c.rung <= n
    BY <1>0 DEF n
  <2>17. Reacted(c, a, r)
    BY <1>0, <2>4, <2>14, <2>15, <2>16 DEF Reacted, Core
  <2> QED
    BY <2>17 DEF r
<1> QED
  BY <1>1, <1>2

(* Which offer an accept is for. *)
LEMMA MeantOffer ==
    ASSUME NEW c, NEW a, RepConstants, Ready(c), listed \subseteq 1..c.rung,
           a.ref \in listed \cup {None}
    PROVE  /\ R!Meant(c, a)[1] \in Offers \cup {None}
           /\ R!Meant(c, a)[2] => \/ R!Meant(c, a)[1] \in a.named
                                  \/ c.state = "CONFIRM" /\ R!Meant(c, a)[1] = c.pending
<1>0. /\ c.rung \in 0..Ladder /\ Ladder \in Nat /\ None \notin Int
      /\ c.state = "CONFIRM" => c.pending \in Offers
  BY DEF Ready, Core, RepFields, RepConstants
<1>1. 1..c.rung \subseteq Offers /\ (c.rung # 0 => c.rung \in Offers)
  BY <1>0 DEF Offers
<1>2. CASE a.ref = None
  <2> DEFINE cands == {o \in listed \cap 1..c.rung : c.offers[o].status = "open"}
                         \cap a.named
             others == cands \ {c.pending}
             latest == IF c.rung = 0 THEN None ELSE c.rung
             u == R!Unreferenced(c, a)
  <2>1. R!Meant(c, a) = u
    BY <1>2 DEF R!Meant
  <2>2. u = IF c.state = "CONFIRM"
            THEN IF others = {} THEN <<c.pending, TRUE>>
                 ELSE IF R!Cardinality(others) = 1
                 THEN <<CHOOSE o \in others : TRUE, FALSE>> ELSE <<c.pending, FALSE>>
            ELSE IF R!Cardinality(cands) = 1
                 THEN <<CHOOSE o \in cands : TRUE, TRUE>> ELSE <<latest, FALSE>>
    BY DEF R!Unreferenced
  <2>3. others \subseteq cands /\ cands \subseteq Offers \cap a.named /\ latest \in Offers \cup {None}
    BY <1>1
  <2>4. others # {} => (CHOOSE o \in others : TRUE) \in others
    OBVIOUS
  <2>5. R!Cardinality(cands) = 1 => (CHOOSE o \in cands : TRUE) \in cands
    <3>1. R!Cardinality(cands) = Cardinality(cands)
      BY RepCardinality
    <3>2. Cardinality(cands) = 1 => cands # {}
      BY FS_EmptySet
    <3> QED
      BY <3>1, <3>2
  <2> HIDE DEF u, cands, others, latest
  <2> QED
    BY <1>0, <2>1, <2>2, <2>3, <2>4, <2>5
<1>3. CASE a.ref # None
  <2>1. a.ref \in Offers
    BY <1>1, <1>3
  <2> QED
    BY <1>0, <1>3, <2>1 DEF R!Meant
<1> QED
  BY <1>2, <1>3

LEMMA AcceptReacts ==
    ASSUME NEW c, NEW a, RepConstants, Ready(c), listed \subseteq 1..c.rung,
           a.ref \in listed \cup {None}
    PROVE  Reacted(c, a, R!Accept(c, a))
<1> DEFINE m == R!Meant(c, a)
           r == R!Accept(c, a)
<1>0. /\ c.identity \in Nat /\ c.rung \in 0..Ladder /\ STRIKES \in Nat /\ c.identity < STRIKES
      /\ Core(c) /\ None \in Int \cup {None} /\ None \notin Int /\ Ladder \in Nat
      /\ c.state # "ENDED" /\ Shape(c)
      /\ c.offers \in [Offers -> OfferStates]
      /\ \A o \in Offers : c.offers[o].status = "open" => o \in 1..c.rung
  BY DEF Ready, Core, RepFields, RepConstants, R!TERMINAL
<1>1. PICK o \in Offers \cup {None} :
         /\ m[1] = o
         /\ m[2] => o \in a.named \/ (c.state = "CONFIRM" /\ o = c.pending)
  <2>1. /\ m[1] \in Offers \cup {None}
        /\ m[2] => m[1] \in a.named \/ (c.state = "CONFIRM" /\ m[1] = c.pending)
    BY MeantOffer
  <2> HIDE DEF m
  <2> QED
    BY <2>1
<1>2. Offers \subseteq Int
  BY DEF Offers
<1> DEFINE confirm == [[c EXCEPT !.state = "CONFIRM"] EXCEPT !.pending = o]
           commit == [R!Intent("confirmed", o) EXCEPT !.commit = TRUE]
           sold == [[[[c EXCEPT !.state = "CONFIRMED"] EXCEPT !.pending = None]
                        EXCEPT !.offers[o].status = "accepted"] EXCEPT !.intent = commit]
<1>3. r = IF o = None THEN R!Says(c, "clarify", None)
          ELSE IF c.offers[o].status # "open" THEN R!Says(c, "offer_unavailable", o)
          ELSE IF ~m[2] \/ ~a.right THEN R!Says(confirm, "confirm_accept", o)
          ELSE sold
  <2>1. confirm = [c EXCEPT !.state = "CONFIRM", !.pending = o]
    BY <1>0 DEF Shape
  <2>2. sold = [c EXCEPT !.state = "CONFIRMED", !.pending = None,
                         !.offers[o].status = "accepted", !.intent = commit]
    OBVIOUS
  <2> HIDE DEF sold, confirm
  <2> QED
    BY <1>1, <2>1, <2>2 DEF R!Accept
<1> HIDE DEF r, m
<1>4. CASE o = None
  <2>1. PICK k : k = "clarify"
    OBVIOUS
  <2>2. k \in RepKinds /\ k \notin {"confirm_accept", "offer", "ack_decline", "hang_up"}
    BY <2>1 DEF RepKinds
  <2>3. Reacted(c, a, R!Says(c, k, None))
    BY <1>0, <2>2, SaysReacts
  <2> QED
    BY <1>3, <1>4, <2>1, <2>3 DEF r
<1>5. CASE o # None /\ c.offers[o].status # "open"
  <2>1. PICK k : k = "offer_unavailable"
    OBVIOUS
  <2>2. k \in RepKinds /\ k \notin {"confirm_accept", "offer", "ack_decline", "hang_up"}
    BY <2>1 DEF RepKinds
  <2>3. Reacted(c, a, R!Says(c, k, o))
    BY <1>0, <1>1, <1>2, <2>2, SaysReacts
  <2> QED
    BY <1>3, <1>5, <2>1, <2>3 DEF r
<1>6. CASE o # None /\ c.offers[o].status = "open" /\ (~m[2] \/ ~a.right)
  <2>1. r = R!Says(confirm, "confirm_accept", o) /\ o \in Offers
    BY <1>1, <1>3, <1>6
  <2> DEFINE d1 == [c EXCEPT !.state = "CONFIRM"]
  <2>2. /\ Shape(d1) /\ d1.offers = c.offers /\ d1.identity = c.identity /\ d1.rung = c.rung
        /\ d1.state = "CONFIRM"
    BY <1>0 DEF Shape
  <2> HIDE DEF d1
  <2>3. /\ Core(confirm) /\ confirm.identity = c.identity /\ confirm.rung = c.rung
        /\ confirm.state = "CONFIRM" /\ confirm.pending = o
    <3>1. confirm = [d1 EXCEPT !.pending = o]
      BY DEF d1
    <3> HIDE DEF confirm
    <3> QED
      BY <1>0, <2>2, <3>1 DEF Shape, Core, RepFields
  <2> HIDE DEF confirm
  <2>4. /\ RepFields(r) /\ r.intent = R!Intent("confirm_accept", o) /\ r.state = "CONFIRM"
        /\ r.pending = o /\ r.rung = c.rung /\ r.identity = c.identity
    BY <2>1, <2>3, SaysSets DEF Core
  <2>5. /\ r.intent \in Decisions /\ r.intent.kind = "confirm_accept" /\ ~r.intent.commit
        /\ r.intent.ref = o
    <3>1. PICK k : k = "confirm_accept"
      OBVIOUS
    <3>2. k \in RepKinds /\ o \in Int \cup {None}
      BY <1>2, <2>1, <3>1 DEF RepKinds
    <3>3. /\ R!Intent(k, o) \in Decisions /\ R!Intent(k, o).kind = k
          /\ R!Intent(k, o).ref = o /\ ~R!Intent(k, o).commit
      BY <3>2, IntentReplies
    <3> QED
      BY <2>4, <3>1, <3>3
  <2>6. Reacted(c, a, r)
    BY <1>0, <2>1, <2>4, <2>5 DEF Reacted
  <2> QED
    BY <2>6 DEF r
<1>7. CASE o # None /\ c.offers[o].status = "open" /\ m[2] /\ a.right
  <2>1. r = sold /\ o \in Offers
    BY <1>1, <1>3, <1>7
  <2> DEFINE d1 == [c EXCEPT !.state = "CONFIRMED"]
             d2 == [d1 EXCEPT !.pending = None]
             d3 == [d2 EXCEPT !.offers[o].status = "accepted"]
             after == [c.offers EXCEPT ![o] = [@ EXCEPT !.status = "accepted"]]
  <2>2. /\ Shape(d1) /\ d1.offers = c.offers /\ d1.identity = c.identity /\ d1.rung = c.rung
        /\ d1.state = "CONFIRMED"
    BY <1>0 DEF Shape
  <2>3. r = [d3 EXCEPT !.intent = commit]
    BY <2>1
  <2> HIDE DEF d1, sold
  <2>4. /\ Shape(d2) /\ d2.offers = c.offers /\ d2.identity = c.identity /\ d2.rung = c.rung
        /\ d2.state = "CONFIRMED"
    BY <2>2 DEF Shape
  <2> HIDE DEF d2
  <2>5. d3.offers = [d2.offers EXCEPT ![o] = [@ EXCEPT !.status = "accepted"]]
    BY <2>4, Zenon DEF Shape
  <2>6. d3.identity = d2.identity /\ d3.rung = d2.rung /\ d3.state = d2.state
    BY <2>4, Zenon DEF Shape
  <2>7. DOMAIN d3 = DOMAIN d2
    BY Zenon
  <2> HIDE DEF d3, commit
  <2>8. /\ r.offers = after /\ r.identity = c.identity /\ r.rung = c.rung
        /\ r.state = "CONFIRMED" /\ r.intent = commit
    <3>1. "intent" \in DOMAIN d3
      BY <2>4, <2>7 DEF Shape
    <3>2. r.intent = commit /\ r.offers = d3.offers /\ r.identity = d3.identity
          /\ r.rung = d3.rung /\ r.state = d3.state
      BY <2>3, <3>1
    <3> QED
      BY <2>4, <2>5, <2>6, <3>2
  <2>9. /\ after \in [Offers -> OfferStates]
        /\ \A p \in Offers : after[p].status = "open" => p \in 1..c.rung
    <3> DEFINE x == [c.offers[o] EXCEPT !.status = "accepted"]
    <3>1. x \in OfferStates /\ x.status = "accepted"
      BY <1>0, <2>1 DEF OfferStates
    <3>2. after = [c.offers EXCEPT ![o] = x]
      BY Zenon
    <3> HIDE DEF x, after
    <3>3. after \in [Offers -> OfferStates]
      BY <1>0, <3>1, <3>2
    <3>4. \A p \in Offers : after[p] = IF p = o THEN x ELSE c.offers[p]
      BY <1>0, <3>2
    <3> QED
      BY <1>0, <3>1, <3>3, <3>4
  <2>10. /\ commit \in Decisions /\ commit.kind = "confirmed" /\ commit.ref = o
    BY <1>2, <2>1 DEF commit, R!Intent, Decisions, RepKinds
  <2> HIDE DEF after
  <2>11. Reacted(c, a, r)
    BY <1>0, <1>1, <1>7, <2>1, <2>8, <2>9, <2>10 DEF Reacted, RepFields
  <2> QED
    BY <2>11 DEF r
<1> QED
  BY <1>1, <1>4, <1>5, <1>6, <1>7

LEMMA ReadbackReacts ==
    ASSUME NEW c, NEW a, RepConstants, Ready(c), listed \subseteq 1..c.rung,
           a.ref \in listed \cup {None}
    PROVE  Reacted(c, a, R!Readback(c, a))
<1>0. c.rung \in 0..Ladder /\ Ladder \in Nat /\ Core(c)
  BY DEF Ready, Core, RepFields, RepConstants
<1>1. PICK k, l : k = "offer_unavailable" /\ l = "readback"
  OBVIOUS
<1>2. /\ k \in RepKinds /\ k \notin {"confirm_accept", "offer", "ack_decline", "hang_up"}
      /\ l \in RepKinds /\ l \notin {"confirm_accept", "offer", "ack_decline", "hang_up"}
  BY <1>1 DEF RepKinds
<1>3. a.ref \in Int \cup {None} /\ c.rung \in Int /\ None \in Int \cup {None}
  <2>1. \A o \in 1..c.rung : o \in Int
    OBVIOUS
  <2>2. c.rung \in Int
    BY <1>0
  <2>3. a.ref \in Int \cup {None}
    BY <2>1
  <2> QED
    BY <2>2, <2>3
<1>4. /\ Reacted(c, a, R!Says(c, k, None)) /\ Reacted(c, a, R!Says(c, k, a.ref))
      /\ Reacted(c, a, R!Says(c, l, a.ref)) /\ Reacted(c, a, R!Says(c, l, c.rung))
  BY <1>0, <1>2, <1>3, SaysReacts
<1> QED
  BY <1>1, <1>4 DEF R!Readback

LEMMA DeclineReacts ==
    ASSUME NEW c, NEW a, RepConstants, Ready(c)
    PROVE  Reacted(c, a, R!Decline(c))
<1> DEFINE r == R!Decline(c)
           d == [c EXCEPT !.state = R!OfferState(c.rung), !.pending = None]
           e == IF c.state = "CONFIRM" THEN d ELSE c
<1>0. /\ c.identity \in Nat /\ c.rung \in 0..Ladder /\ STRIKES \in Nat /\ c.identity < STRIKES
      /\ Core(c) /\ None \in Int \cup {None} /\ Ladder \in Nat /\ c.state # "ENDED"
  BY DEF Ready, Core, RepFields, RepConstants, R!TERMINAL
<1>1. r = R!Says(e, "ack_decline", None)
  BY DEF R!Decline
<1>2. /\ Core(e) /\ e.identity = c.identity /\ e.rung = c.rung
      /\ e.state \notin {"ENDED", "CONFIRM"}
  <2> DEFINE s == R!OfferState(c.rung)
             d1 == [c EXCEPT !.state = s]
  <2>1. s \notin {"ENDED", "CONFIRM"}
    BY DEF R!OfferState
  <2> HIDE DEF s
  <2>2. d = [d1 EXCEPT !.pending = None]
    BY <1>0 DEF Core, Shape, s
  <2>3. Core(d1) /\ d1.identity = c.identity /\ d1.rung = c.rung /\ d1.state = s
    BY <1>0 DEF Core, Shape, RepFields
  <2> HIDE DEF d, d1
  <2>4. Core(d) /\ d.identity = c.identity /\ d.rung = c.rung /\ d.state = s
    BY <2>2, <2>3 DEF Core, Shape, RepFields
  <2> QED
    BY <1>0, <2>1, <2>4
<1> HIDE DEF e, r
<1>3. /\ Core(r) /\ r.intent = R!Intent("ack_decline", None) /\ r.state = e.state
      /\ r.rung = c.rung /\ r.identity = c.identity
  BY <1>1, <1>2, SaysSets
<1>4. r.intent \in Decisions /\ r.intent.kind = "ack_decline" /\ ~r.intent.commit
  BY <1>0, <1>3 DEF R!Intent, Decisions, RepKinds
<1>5. Reacted(c, a, r)
  BY <1>0, <1>2, <1>3, <1>4 DEF Reacted, Core
<1> QED
  BY <1>5 DEF r

LEMMA ReactReacts ==
    ASSUME NEW c, NEW a, NEW t \in Nat, RepConstants, Ready(c), listed \subseteq 1..c.rung,
           a.ref \in listed \cup {None}
    PROVE  Reacted(c, a, R!React(c, a, t))
<1> DEFINE r == R!React(c, a, t)
<1>1. CASE a.act = "ask_supervisor"
  <2> DEFINE d == [c EXCEPT !.state = "TRANSFER"]
  <2>1. /\ Core(d) /\ d.rung = c.rung /\ d.pending = c.pending
        /\ d.identity = c.identity /\ d.state = "TRANSFER"
    BY DEF Ready, Core, Shape, RepFields
  <2>2. r = R!Says(d, "transfer", None)
    BY <1>1 DEF R!React
  <2> HIDE DEF d, r
  <2>3. PICK k : k = "transfer"
    OBVIOUS
  <2>4. k \in RepKinds /\ k \notin {"confirm_accept", "offer", "ack_decline", "hang_up"}
    BY <2>3 DEF RepKinds
  <2>5. Reacted(c, a, R!Says(d, k, None))
    BY <2>1, <2>4, SaysReacts
  <2> QED
    BY <2>2, <2>3, <2>5 DEF r
<1>2. CASE a.act = "hold_request"
  <2>1. r = R!Hold(c, t)
    BY <1>2 DEF R!React
  <2> QED
    BY <2>1, HoldReacts
<1>3. CASE /\ c.state \in {"GREET", "IDENTIFY"}
           /\ a.act \notin {"ask_supervisor", "hold_request"}
  <2>1. r = R!Identify(c, a.act)
    BY <1>3 DEF R!React
  <2> QED
    BY <1>3, <2>1, IdentifyReacts
<1>4. CASE /\ c.state \notin {"GREET", "IDENTIFY"}
           /\ a.act \notin {"ask_supervisor", "hold_request"}
  <2>1. PICK k, l : k = "ack" /\ l = "clarify"
    OBVIOUS
  <2>2. r = IF a.act \in Levers THEN R!Lever(c, a.act, t)
            ELSE IF a.act = "accept" THEN R!Accept(c, a)
            ELSE IF a.act = "ask_readback" THEN R!Readback(c, a)
            ELSE IF a.act = "decline" THEN R!Decline(c)
            ELSE R!Says(c, IF c.rung > 0 /\ a.act = "other" THEN k ELSE l, None)
    BY <1>4, <2>1 DEF R!React
  <2>3. /\ k \in RepKinds /\ k \notin {"confirm_accept", "offer", "ack_decline", "hang_up"}
        /\ l \in RepKinds /\ l \notin {"confirm_accept", "offer", "ack_decline", "hang_up"}
    BY <2>1 DEF RepKinds
  <2>4. Core(c)
    BY DEF Ready
  <2>5. /\ Reacted(c, a, R!Says(c, k, None)) /\ Reacted(c, a, R!Says(c, l, None))
        /\ Reacted(c, a, R!Lever(c, a.act, t)) /\ Reacted(c, a, R!Accept(c, a))
        /\ Reacted(c, a, R!Readback(c, a)) /\ Reacted(c, a, R!Decline(c))
    BY <2>3, <2>4, SaysReacts, LeverReacts, AcceptReacts, ReadbackReacts, DeclineReacts
  <2> HIDE DEF r
  <2>6. Reacted(c, a, r)
    BY <2>2, <2>5
  <2> QED
    BY <2>6 DEF r
<1> QED
  BY <1>1, <1>2, <1>3, <1>4

-----------------------------------------------------------------------------
(* The decisions of a turn. *)

LEMMA StruckNext ==
    ASSUME NEW d \in Seq(Decisions), NEW f \in Seq(Decisions), NEW s \in Decisions,
           \A i \in DOMAIN f : ~f[i].strike
    PROVE  LET e == d \o f \o <<s>>
           IN  /\ e \in Seq(Decisions) /\ e # <<>> /\ e[Len(e)] = s
               /\ Cardinality(StruckOf(d)) \in Nat
               /\ Cardinality(StruckOf(e)) =
                    Cardinality(StruckOf(d)) + IF s.strike THEN 1 ELSE 0
<1> DEFINE e == d \o f \o <<s>>
           n == Len(d) + Len(f)
<1>1. /\ e \in Seq(Decisions) /\ Len(e) = n + 1 /\ n \in Nat /\ Len(d) \in Nat
      /\ e[n + 1] = s /\ e # <<>> /\ Len(d) <= n
      /\ DOMAIN e = 1..(n + 1) /\ DOMAIN d = 1..Len(d) /\ DOMAIN f = 1..Len(f)
      /\ \A i \in 1..Len(d) : e[i] = d[i]
      /\ \A i \in (Len(d) + 1)..n : i - Len(d) \in 1..Len(f) /\ e[i] = f[i - Len(d)]
  OBVIOUS
<1> HIDE DEF e, n
<1>2. StruckOf(e) = StruckOf(d) \cup IF s.strike THEN {n + 1} ELSE {}
  <2>1. \A i \in (Len(d) + 1)..n : ~e[i].strike
    BY <1>1
  <2>2. \A i \in 1..(n + 1) : i \in 1..Len(d) \/ i \in (Len(d) + 1)..n \/ i = n + 1
    BY <1>1
  <2>3. 1..Len(d) \subseteq 1..(n + 1) /\ n + 1 \in 1..(n + 1) /\ n + 1 \notin 1..Len(d)
    BY <1>1
  <2> QED
    BY <1>1, <2>1, <2>2, <2>3 DEF StruckOf
<1>3. IsFiniteSet(StruckOf(d)) /\ n + 1 \notin StruckOf(d)
  <2>1. IsFiniteSet(1..Len(d)) /\ n + 1 \notin 1..Len(d)
    BY <1>1, FS_Interval
  <2>2. StruckOf(d) \subseteq 1..Len(d)
    BY <1>1 DEF StruckOf
  <2> QED
    BY <2>1, <2>2, FS_Subset
<1>4. Cardinality(StruckOf(d)) \in Nat
  BY <1>3, FS_CardinalityType
<1>5. Cardinality(StruckOf(e)) = Cardinality(StruckOf(d)) + IF s.strike THEN 1 ELSE 0
  <2>1. CASE s.strike
    BY <1>2, <1>3, <2>1, FS_AddElement
  <2>2. CASE ~s.strike
    BY <1>2, <1>4, <2>2
  <2> QED
    BY <2>1, <2>2
<1> QED
  BY <1>1, <1>4, <1>5 DEF e

LEMMA NoneStruck ==
    ASSUME NEW d, \A i \in DOMAIN d : ~d[i].strike
    PROVE  Cardinality(StruckOf(d)) = 0
<1>1. StruckOf(d) = {}
  BY DEF StruckOf
<1> QED
  BY <1>1, FS_EmptySet

(* Expiry only closes offers, those whose time has come. *)
LEMMA ExpiredOffers ==
    ASSUME RepConstants, RepTypes, \A o \in Offers : offers[o].status = "open" => o \in 1..rung,
           NEW t \in Nat
    PROVE  /\ R!Expired(t) \in [Offers -> OfferStates]
           /\ \A o \in Offers :
                R!Expired(t)[o].status = "open" =>
                    /\ o \in 1..rung
                    /\ offers[o].until # None => t < offers[o].until
           /\ R!ExpiredFirst(t) \in Seq(Decisions)
           /\ \A i \in DOMAIN R!ExpiredFirst(t) : ~R!ExpiredFirst(t)[i].strike
<1>1. /\ offers \in [Offers -> OfferStates] /\ rung \in 0..Ladder /\ Ladder \in Nat
      /\ None \notin Int
  BY DEF RepTypes, RepConstants
<1>2. \A o \in Offers : R!Expired(t)[o] = IF o \in R!Lapsed(t)
                                         THEN [offers[o] EXCEPT !.status = "expired"]
                                         ELSE offers[o]
  BY <1>1 DEF R!Expired
<1>3. R!Expired(t) \in [Offers -> OfferStates]
  <2>1. \A o \in Offers : [offers[o] EXCEPT !.status = "expired"] \in OfferStates
    BY <1>1 DEF OfferStates
  <2> QED
    BY <1>1, <2>1 DEF R!Expired
<1>4. ASSUME NEW o \in Offers, R!Expired(t)[o].status = "open"
      PROVE  /\ o \in 1..rung
             /\ offers[o].until # None => t < offers[o].until
  <2>1. offers[o] \in OfferStates
    BY <1>1
  <2>2. o \notin R!Lapsed(t)
    BY <1>2, <1>4, <2>1 DEF OfferStates
  <2>3. offers[o].status = "open" /\ o \in 1..rung
    BY <1>2, <1>4, <2>2
  <2>4. offers[o].until # None => ~(t >= offers[o].until)
    BY <2>2, <2>3 DEF R!Lapsed, R!Open, R!Made
  <2>5. offers[o].until \in Int \cup {None}
    BY <2>1 DEF OfferStates
  <2> QED
    BY <2>3, <2>4, <2>5
<1>5. R!Cardinality(R!Lapsed(t)) \in Nat
  <2>1. R!Lapsed(t) \subseteq 1..rung /\ IsFiniteSet(1..rung)
    BY <1>1, FS_Interval DEF R!Lapsed, R!Open, R!Made
  <2>2. Cardinality(R!Lapsed(t)) \in Nat
    BY <2>1, FS_Subset, FS_CardinalityType
  <2> QED
    BY <2>2, RepCardinality
<1>6. PICK n \in Nat : R!Cardinality(R!Lapsed(t)) = n
  BY <1>5
<1>7. PICK k : k = "offer_expired"
  OBVIOUS
<1>8. R!Intent(k, None) \in Decisions /\ ~R!Intent(k, None).strike
  <2>1. k \in RepKinds
    BY <1>7 DEF RepKinds
  <2> QED
    BY <2>1 DEF R!Intent, Decisions
<1>9. R!ExpiredFirst(t) = [i \in 1..n |-> R!Intent(k, None)]
  BY <1>6, <1>7 DEF R!ExpiredFirst
<1>10. PICK s : s = R!Intent(k, None)
  OBVIOUS
<1>11. [i \in 1..n |-> s] \in Seq(Decisions) /\ \A i \in DOMAIN [j \in 1..n |-> s] : ~s.strike
  BY <1>8, <1>10
<1>12. /\ R!ExpiredFirst(t) \in Seq(Decisions)
       /\ \A i \in DOMAIN R!ExpiredFirst(t) : ~R!ExpiredFirst(t)[i].strike
  BY <1>8, <1>9, <1>10, <1>11
<1> QED
  BY <1>3, <1>4, <1>12

(* A step of the policy. *)
LEMMA StepKeeps ==
    ASSUME RepConstants, RepInv, NEW a \in R!LabelledActs, R!Step(a)
    PROVE  RepInv'
<1> DEFINE t == Head(block)
           first == R!ExpiredFirst(t)
           c == [R!Core EXCEPT !.offers = R!Expired(t)]
           r == R!React(c, a, t)
           s == [r.intent EXCEPT !.strike = r.identity > identity]
<1>1. /\ phase = "policy" /\ block # <<>> /\ ~R!Done /\ block' = Tail(block)
      /\ state' = r.state /\ rung' = r.rung /\ confirming' = r.pending
      /\ identity' = r.identity /\ offers' = r.offers
      /\ silences' = 0 /\ decided' = decided \o first \o <<s>>
      /\ asked' = AskedAfter(r, asked)
      /\ accepted' = IF r.intent.commit
                     THEN [offer |-> r.intent.ref, heard |-> t, named |-> a.named,
                           until |-> offers[r.intent.ref].until, asked |-> asked]
                     ELSE accepted
      /\ UNCHANGED <<clock, backlog, phase, listed, timers, holds, inbox>>
  BY DEF R!Step, AskedAfter
<1>2. /\ RepTypes /\ AskInv /\ StrikeInv
  BY DEF RepInv
<1>3. t \in Nat /\ Tail(block) \in Seq(Nat)
  BY <1>1, <1>2 DEF RepTypes
<1>4. /\ R!Expired(t) \in [Offers -> OfferStates]
      /\ \A o \in Offers :
            R!Expired(t)[o].status = "open" =>
                /\ o \in 1..rung
                /\ offers[o].until # None => t < offers[o].until
      /\ first \in Seq(Decisions) /\ \A i \in DOMAIN first : ~first[i].strike
  BY <1>2, <1>3, ExpiredOffers DEF AskInv
<1>5. /\ a.ref \in listed \cup {None}
  BY DEF R!LabelledActs, R!EarActs
<1>6. /\ c.state = state /\ c.rung = rung /\ c.pending = confirming /\ c.identity = identity
      /\ c.offers = R!Expired(t) /\ c.intent = R!Intent("clarify", None) /\ Shape(c)
  BY DEF R!Core, Shape
<1> HIDE DEF c, t, first
<1>7. identity < STRIKES /\ holds < STRIKES /\ state \notin R!TERMINAL /\ STRIKES \in Nat
  <2>1. state \notin R!TERMINAL
    BY <1>1 DEF R!Done
  <2>2. ~(identity >= STRIKES) /\ ~(silences + holds >= STRIKES)
    BY <1>2, <2>1 DEF StrikeInv, R!TERMINAL
  <2> QED
    BY <1>2, <2>1, <2>2 DEF RepTypes, RepConstants
<1>8. Ready(c) /\ listed \subseteq 1..c.rung
  <2>1. /\ rung \in 0..Ladder /\ identity \in Nat /\ listed \subseteq 1..rung
        /\ state = "CONFIRM" => confirming \in Offers
    BY <1>2 DEF RepTypes, AskInv
  <2> QED
    BY <1>4, <1>6, <1>7, <2>1 DEF Ready, Core, RepFields
<1>9. Reacted(c, a, r)
  BY <1>3, <1>5, <1>8, ReactReacts
<1> HIDE DEF r
<1>10. /\ s \in Decisions /\ s.kind = r.intent.kind
       /\ s.strike <=> r.identity > identity
  <2>1. PICK b \in BOOLEAN : b = (r.identity > identity)
    <3>1. (r.identity > identity) \in BOOLEAN
      OBVIOUS
    <3> QED
      BY <3>1, Zenon
  <2>2. r.intent \in Decisions
    BY <1>9 DEF Reacted
  <2>3. s = [r.intent EXCEPT !.strike = b]
    BY <2>1, Zenon
  <2> HIDE DEF s
  <2>4. s \in Decisions /\ s.kind = r.intent.kind /\ s.strike = b
    BY <2>2, <2>3 DEF Decisions
  <2> QED
    BY <2>1, <2>4, Zenon
<1> HIDE DEF s
<1>11. /\ decided' \in Seq(Decisions) /\ decided' # <<>> /\ decided'[Len(decided')] = s
       /\ Cardinality(StruckOf(decided)) \in Nat
       /\ Cardinality(StruckOf(decided')) =
            Cardinality(StruckOf(decided)) + IF s.strike THEN 1 ELSE 0
  <2>1. decided \in Seq(Decisions)
    BY <1>2 DEF RepTypes
  <2>2. decided' = decided \o first \o <<s>> /\ first \in Seq(Decisions)
    BY <1>1, <1>4
  <2>3. \A i \in DOMAIN first : ~first[i].strike
    BY <1>4
  <2> DEFINE e == decided \o first \o <<s>>
  <2>4. /\ e \in Seq(Decisions) /\ e # <<>> /\ e[Len(e)] = s
        /\ Cardinality(StruckOf(decided)) \in Nat
        /\ Cardinality(StruckOf(e)) =
              Cardinality(StruckOf(decided)) + IF s.strike THEN 1 ELSE 0
    BY <1>10, <2>1, <2>2, <2>3, StruckNext
  <2> QED
    BY <2>2, <2>4
<1>12. /\ identity \in Nat /\ r.identity \in {identity, identity + 1} /\ r.rung \in 0..Ladder
       /\ rung <= r.rung /\ rung \in Nat /\ Ladder \in Nat
  <2>1. rung \in Nat /\ identity \in Nat
    BY <1>2 DEF RepTypes, RepConstants
  <2> QED
    BY <1>6, <1>9, <2>1 DEF Reacted, RepFields, RepConstants
<1>13. RepTypes'
  <2>1. listed' \subseteq 1..rung'
    <3>1. 1..rung \subseteq 1..r.rung
      BY <1>12
    <3> QED
      BY <1>1, <1>2, <3>1 DEF RepTypes
  <2>2. offers' \in [Offers -> OfferStates]
    BY <1>1, <1>9 DEF Reacted, RepFields
  <2>3. identity' \in Nat /\ silences' \in Nat /\ rung' \in 0..Ladder
    BY <1>1, <1>12
  <2>4. block' \in Seq(Nat)
    BY <1>1, <1>3
  <2> QED
    BY <1>1, <1>2, <1>11, <2>1, <2>2, <2>3, <2>4 DEF RepTypes
<1>14. AskInv'
  <2>1. \A o \in Offers : offers'[o].status = "open" => o \in 1..rung'
    BY <1>1, <1>9 DEF Reacted, RepFields
  <2>2. state' = "CONFIRM" => confirming' \in Offers /\ asked' = confirming'
    BY <1>1, <1>2, <1>6, <1>9 DEF Reacted, AskedAfter, AskInv
  <2>3. R!CommitMeant'
    <3>1. CASE r.intent.commit
      <4>1. /\ r.intent.ref \in Offers /\ R!Expired(t)[r.intent.ref].status = "open"
            /\ r.intent.ref \in a.named \/ (state = "CONFIRM" /\ r.intent.ref = confirming)
        BY <1>6, <1>9, <3>1 DEF Reacted
      <4>2. offers[r.intent.ref].until # None => t < offers[r.intent.ref].until
        BY <1>4, <4>1
      <4>3. r.intent.ref \in a.named \cup {asked}
        BY <1>2, <4>1 DEF AskInv
      <4>4. /\ accepted'.offer = r.intent.ref /\ accepted'.heard = t
            /\ accepted'.until = offers[r.intent.ref].until
            /\ accepted'.named = a.named /\ accepted'.asked = asked
        BY <1>1, <3>1
      <4> QED
        BY <4>2, <4>3, <4>4 DEF R!CommitMeant
    <3>2. CASE ~r.intent.commit
      BY <1>1, <1>2, <3>2 DEF AskInv, R!CommitMeant
    <3> QED
      BY <3>1, <3>2
  <2> QED
    BY <2>1, <2>2, <2>3 DEF AskInv
<1>15. StrikeInv'
  <2>1. state' = "ENDED" <=> identity' >= STRIKES \/ silences' + holds' >= STRIKES
    <3>1. r.state = "ENDED" <=> r.identity >= STRIKES
      BY <1>9 DEF Reacted
    <3>2. ~(silences' + holds' >= STRIKES)
      BY <1>1, <1>2, <1>7 DEF RepTypes
    <3> QED
      BY <1>1, <3>1, <3>2
  <2>2. inbox'.strikes + Cardinality(StruckOf(decided')) = identity' + timers'
    <3>1. inbox.strikes + Cardinality(StruckOf(decided)) = identity + timers
      BY <1>2 DEF StrikeInv
    <3>2. timers \in Nat /\ inbox.strikes \in Int
      BY <1>2 DEF RepTypes
    <3> DEFINE n == IF s.strike THEN 1 ELSE 0
    <3>3. r.identity = identity + n /\ n \in Nat
      <4>1. CASE r.identity = identity + 1
        <5>1. r.identity > identity
          BY <1>12, <4>1
        <5>2. s.strike
          BY <1>10, <5>1
        <5> QED
          BY <4>1, <5>2
      <4>2. CASE r.identity = identity
        <5>1. ~(r.identity > identity)
          BY <1>12, <4>2
        <5>2. ~s.strike
          BY <1>10, <5>1
        <5> QED
          BY <1>12, <4>2, <5>2
      <4> QED
        BY <1>12, <4>1, <4>2
    <3> HIDE DEF n
    <3>4. Cardinality(StruckOf(decided')) = Cardinality(StruckOf(decided)) + n
      BY <1>11 DEF n
    <3>5. /\ inbox' = inbox /\ identity' = identity + n /\ timers' = timers
      BY <1>1, <3>3
    <3>6. Cardinality(StruckOf(decided)) \in Nat
      BY <1>11
    <3> QED
      BY <1>12, <3>1, <3>2, <3>3, <3>4, <3>5, <3>6
  <2>3. decided'[Len(decided')].kind = "hang_up" <=> state' = "ENDED"
    BY <1>1, <1>9, <1>10, <1>11 DEF Reacted
  <2> QED
    BY <1>1, <1>11, <2>1, <2>2, <2>3 DEF StrikeInv
<1> QED
  BY <1>13, <1>14, <1>15 DEF RepInv

-----------------------------------------------------------------------------
(* The other steps. *)

(* A step that leaves the policy, the turn and the inbox alone. *)
LEMMA IdleKeeps ==
    ASSUME RepConstants, RepInv,
           clock' \in Nat, backlog' \in Seq(Nat), block' \in Seq(Nat),
           UNCHANGED <<phase, listed, decided, R!policy, inbox, asked, accepted>>
    PROVE  RepInv'
<1>1. RepTypes'
  BY DEF RepInv, RepTypes, R!policy
<1>2. AskInv'
  BY DEF RepInv, AskInv, R!policy, R!CommitMeant
<1>3. StrikeInv'
  BY DEF RepInv, StrikeInv, R!policy, R!Done, StruckOf
<1> QED
  BY <1>1, <1>2, <1>3 DEF RepInv

LEMMA TakeBlockKeeps ==
    ASSUME RepConstants, RepInv, R!TakeBlock
    PROVE  RepInv'
<1>1. CASE R!Done
  <2>1. UNCHANGED <<phase, listed, decided, block, R!policy, inbox, asked, accepted, clock>>
    BY <1>1 DEF R!TakeBlock, R!turn
  <2>2. backlog' \in Seq(Nat) /\ block' \in Seq(Nat) /\ clock' \in Nat
    BY <2>1 DEF R!TakeBlock, RepInv, RepTypes
  <2> QED
    BY <2>1, <2>2, IdleKeeps
<1>2. CASE ~R!Done
  <2>1. /\ phase = "idle" /\ phase' = "ear" /\ block' = backlog /\ listed' = 1..rung
        /\ decided' = <<>> /\ backlog' = <<>> /\ decided = <<>>
        /\ UNCHANGED <<clock, R!policy, inbox, asked, accepted>>
    BY <1>2 DEF R!TakeBlock, R!Made, RepInv, StrikeInv
  <2>2. RepTypes'
    BY <2>1 DEF RepInv, RepTypes, R!policy
  <2>3. AskInv'
    BY <2>1 DEF RepInv, AskInv, R!policy, R!CommitMeant
  <2>4. StrikeInv'
    BY <1>2, <2>1 DEF RepInv, StrikeInv, R!policy, R!Done, StruckOf
  <2> QED
    BY <2>2, <2>3, <2>4 DEF RepInv
<1> QED
  BY <1>1, <1>2

LEMMA LabelsKeeps ==
    ASSUME RepConstants, RepInv, R!Labels
    PROVE  RepInv'
<1>1. /\ phase = "ear" /\ phase' = "policy"
      /\ UNCHANGED <<clock, backlog, block, listed, decided, R!policy, inbox, asked, accepted>>
  BY DEF R!Labels
<1>2. RepTypes'
  BY <1>1 DEF RepInv, RepTypes, R!policy
<1>3. AskInv'
  BY <1>1 DEF RepInv, AskInv, R!policy, R!CommitMeant
<1>4. StrikeInv'
  BY <1>1 DEF RepInv, StrikeInv, R!policy, R!Done, StruckOf
<1> QED
  BY <1>2, <1>3, <1>4 DEF RepInv

LEMMA VoicesKeeps ==
    ASSUME RepConstants, RepInv, R!Voices
    PROVE  RepInv'
<1>1. /\ phase = "policy" /\ phase' = "mouth" /\ block' = <<>>
      /\ UNCHANGED <<clock, backlog, listed, decided, R!policy, inbox, asked, accepted>>
  BY DEF R!Voices
<1>2. RepTypes'
  BY <1>1 DEF RepInv, RepTypes, R!policy
<1>3. AskInv'
  BY <1>1 DEF RepInv, AskInv, R!policy, R!CommitMeant
<1>4. StrikeInv'
  BY <1>1 DEF RepInv, StrikeInv, R!policy, R!Done, StruckOf
<1> QED
  BY <1>2, <1>3, <1>4 DEF RepInv

LEMMA StruckNat ==
    ASSUME NEW d \in Seq(Decisions)
    PROVE  Cardinality(StruckOf(d)) \in Nat
<1>1. StruckOf(d) \subseteq 1..Len(d) /\ Len(d) \in Nat
  BY DEF StruckOf
<1>2. IsFiniteSet(1..Len(d))
  BY <1>1, FS_Interval
<1>3. IsFiniteSet(StruckOf(d))
  BY <1>1, <1>2, FS_Subset
<1> QED
  BY <1>3, FS_CardinalityType

LEMMA TurnEndsKeeps ==
    ASSUME RepConstants, RepInv, R!TurnEnds
    PROVE  RepInv'
<1> DEFINE n == Cardinality(StruckOf(decided))
           end == IF ~R!Done \/ decided = <<>> THEN inbox.end
                  ELSE IF decided[Len(decided)].kind = "hang_up" THEN "hangup" ELSE "closed"
<1>1. n \in Nat
  BY StruckNat DEF RepInv, RepTypes
<1>2. R!Cardinality(R!Struck) = n
  BY RepCardinality DEF R!Struck, StruckOf
<1>3. /\ phase = "mouth" /\ phase' = "idle" /\ decided' = <<>> /\ listed' = {}
      /\ inbox' = [strikes |-> inbox.strikes + n, end |-> end]
      /\ UNCHANGED <<clock, backlog, block, R!policy, asked, accepted>>
  BY <1>2 DEF R!TurnEnds
<1>4. Cardinality(StruckOf(<<>>)) = 0
  BY NoneStruck
<1> HIDE DEF n
<1>5. RepTypes'
  BY <1>1, <1>3 DEF RepInv, RepTypes, R!policy
<1>6. AskInv'
  BY <1>3 DEF RepInv, AskInv, R!policy, R!CommitMeant
<1>7. StrikeInv'
  <2>1. inbox.strikes + n = identity + timers
    BY DEF n, RepInv, StrikeInv
  <2>2. identity \in Nat /\ timers \in Nat /\ inbox.strikes \in Int
    BY DEF RepInv, RepTypes
  <2>3. inbox'.strikes + Cardinality(StruckOf(decided')) = identity' + timers'
    BY <1>1, <1>3, <1>4, <2>1, <2>2 DEF R!policy
  <2>4. R!Done' = R!Done
    BY <1>3 DEF R!Done, R!policy
  <2>5. R!Done => inbox'.end = IF state = "ENDED" THEN "hangup" ELSE "closed"
    BY <1>3 DEF RepInv, StrikeInv
  <2> QED
    BY <1>3, <2>3, <2>4, <2>5 DEF RepInv, StrikeInv, R!policy
<1> QED
  BY <1>5, <1>6, <1>7 DEF RepInv

(* A tick between turns: the offers lapse, and patience may run out. *)
LEMMA TickKeeps ==
    ASSUME RepConstants, RepInv, R!Tick
    PROVE  RepInv'
<1> DEFINE held == holdSince # None
           since == IF held THEN holdSince ELSE free
           due == since # None /\ clock - since >= (IF held THEN HOLD ELSE SILENCE)
           first == R!ExpiredFirst(clock)
           s == [R!Intent(IF state' = "ENDED" THEN "hang_up" ELSE "check_in", None)
                    EXCEPT !.strike = TRUE]
<1>1. /\ phase = "idle" /\ ~R!Done /\ phase' = "mouth" /\ offers' = R!Expired(clock)
      /\ UNCHANGED <<clock, backlog, block, listed, rung, confirming, identity, inbox,
                     asked, accepted>>
  BY DEF R!Tick
<1>2. /\ RepTypes /\ AskInv /\ StrikeInv /\ decided = <<>>
  BY <1>1 DEF RepInv, StrikeInv
<1>3. clock \in Nat
  BY <1>2 DEF RepTypes
<1>4. /\ R!Expired(clock) \in [Offers -> OfferStates]
      /\ \A o \in Offers : R!Expired(clock)[o].status = "open" => o \in 1..rung
      /\ first \in Seq(Decisions) /\ \A i \in DOMAIN first : ~first[i].strike
  BY <1>2, <1>3, ExpiredOffers DEF AskInv
<1> HIDE DEF first
<1>5. /\ identity \in Nat /\ timers \in Nat /\ silences \in Nat /\ holds \in Nat
      /\ inbox.strikes \in Int /\ STRIKES \in Nat
      /\ inbox.strikes + Cardinality(StruckOf(decided)) = identity + timers
      /\ Cardinality(StruckOf(decided)) = 0
  <2>1. Cardinality(StruckOf(<<>>)) = 0
    BY NoneStruck
  <2> QED
    BY <1>2, <2>1 DEF RepTypes, StrikeInv, RepConstants
<1>6. ~(identity >= STRIKES) /\ ~(silences + holds >= STRIKES) /\ state # "ENDED"
  BY <1>1, <1>2 DEF StrikeInv, R!Done, R!TERMINAL
<1>7. CASE ~due
  <2>1. decided' = first /\ UNCHANGED <<state, timers, silences, holds>>
    BY <1>7 DEF R!Tick, first
  <2>2. Cardinality(StruckOf(decided')) = 0
    BY <1>4, <2>1, NoneStruck
  <2>3. RepTypes'
    BY <1>1, <1>2, <1>4, <2>1 DEF RepTypes
  <2>4. AskInv'
    BY <1>1, <1>2, <1>4, <2>1 DEF AskInv, R!CommitMeant
  <2>5. ~R!Done'
    BY <1>1, <2>1 DEF R!Done
  <2>6. StrikeInv'
    BY <1>1, <1>2, <1>5, <2>1, <2>2, <2>5 DEF StrikeInv
  <2> QED
    BY <2>3, <2>4, <2>6 DEF RepInv
<1>8. CASE due
  <2>1. /\ timers' = timers + 1
        /\ silences' = IF held THEN silences ELSE silences + 1
        /\ holds' = IF held THEN holds + 1 ELSE holds
        /\ state' = IF silences' + holds' >= STRIKES THEN "ENDED" ELSE state
        /\ decided' = first \o <<s>>
    BY <1>8 DEF R!Tick, first
  <2>2. s \in Decisions /\ s.strike /\ (s.kind = "hang_up" <=> state' = "ENDED")
    BY DEF R!Intent, Decisions, RepKinds
  <2> HIDE DEF s, held
  <2>3. decided' = decided \o first \o <<s>> /\ decided \in Seq(Decisions)
    BY <1>2, <1>4, <2>1, <2>2
  <2>4. /\ decided' \in Seq(Decisions) /\ decided' # <<>> /\ decided'[Len(decided')] = s
        /\ Cardinality(StruckOf(decided')) = 1
    <3> DEFINE e == decided \o first \o <<s>>
    <3>1. /\ e \in Seq(Decisions) /\ e # <<>> /\ e[Len(e)] = s
          /\ Cardinality(StruckOf(e)) =
                Cardinality(StruckOf(decided)) + IF s.strike THEN 1 ELSE 0
      BY <1>4, <2>2, <2>3, StruckNext
    <3> QED
      BY <1>5, <2>2, <2>3, <3>1
  <2>5. silences' \in Nat /\ holds' \in Nat /\ timers' \in Nat
    BY <1>5, <2>1
  <2>6. RepTypes'
    BY <1>1, <1>2, <1>4, <2>4, <2>5 DEF RepTypes
  <2>7. AskInv'
    BY <1>1, <1>2, <1>4, <2>1 DEF AskInv, R!CommitMeant
  <2>8. StrikeInv'
    <3>1. state' = "ENDED" <=> identity' >= STRIKES \/ silences' + holds' >= STRIKES
      BY <1>1, <1>6, <2>1
    <3>2. inbox'.strikes + Cardinality(StruckOf(decided')) = identity' + timers'
      BY <1>1, <1>5, <2>1, <2>4
    <3>3. decided' # <<>> /\ (decided'[Len(decided')].kind = "hang_up" <=> state' = "ENDED")
      BY <2>2, <2>4
    <3> QED
      BY <1>1, <3>1, <3>2, <3>3 DEF StrikeInv
  <2> QED
    BY <2>6, <2>7, <2>8 DEF RepInv
<1> QED
  BY <1>7, <1>8

LEMMA RepInit ==
    ASSUME RepConstants, R!Init
    PROVE  RepInv
<1>1. Cardinality(StruckOf(<<>>)) = 0
  BY NoneStruck
<1>2. RepTypes
  <2>1. offers \in [Offers -> OfferStates]
    BY DEF R!Init, Offers, OfferStates
  <2>2. rung = 0 /\ Ladder \in Nat /\ listed = {} /\ inbox = [strikes |-> 0, end |-> ""]
    BY DEF RepConstants, R!Init
  <2>3. DOMAIN inbox = {"strikes", "end"} /\ inbox.strikes = 0
    BY <2>2
  <2>4. /\ clock = 0 /\ backlog = <<>> /\ block = <<>> /\ decided = <<>> /\ phase = "idle"
        /\ identity = 0 /\ timers = 0 /\ silences = 0 /\ holds = 0
    BY DEF R!Init
  <2>5. rung \in 0..Ladder /\ listed \subseteq 1..rung
    <3>1. rung = 0 /\ listed = {}
      BY <2>2
    <3>2. Ladder \in Nat
      BY DEF RepConstants
    <3>3. rung \in 0..Ladder
      BY <3>1, <3>2
    <3> QED
      BY <3>1, <3>3
  <2>6. backlog \in Seq(Nat) /\ block \in Seq(Nat) /\ decided \in Seq(Decisions)
    BY <2>4
  <2> QED
    BY <2>1, <2>3, <2>4, <2>5, <2>6 DEF RepTypes
<1>3. AskInv
  BY DEF RepConstants, R!Init, AskInv, Offers, R!CommitMeant
<1>4. StrikeInv
  <2>1. /\ decided = <<>> /\ phase = "idle" /\ inbox = [strikes |-> 0, end |-> ""]
        /\ identity = 0 /\ timers = 0 /\ silences = 0 /\ holds = 0 /\ state = "GREET"
        /\ STRIKES \in Nat /\ STRIKES # 0
    BY DEF R!Init, RepConstants
  <2>2. ~R!Done /\ inbox.strikes = 0
    BY <2>1 DEF R!Done, R!TERMINAL
  <2>3. ~(identity >= STRIKES) /\ ~(silences + holds >= STRIKES)
    <3>1. identity = 0 /\ silences = 0 /\ holds = 0
      BY DEF R!Init
    <3>2. STRIKES \in Nat /\ STRIKES # 0
      BY DEF RepConstants
    <3>3. ~(0 >= STRIKES) /\ 0 + 0 = 0
      BY <3>2
    <3> QED
      BY <3>1, <3>3
  <2>4. state # "ENDED"
    BY <2>1
  <2> QED
    BY <1>1, <2>1, <2>2, <2>3, <2>4 DEF StrikeInv
<1> QED
  BY <1>2, <1>3, <1>4 DEF RepInv

LEMMA RepNext ==
    ASSUME RepConstants, RepInv, [R!Next]_R!vars
    PROVE  RepInv'
<1>1. CASE R!TimePasses
  <2>1. /\ clock' \in Nat /\ backlog' \in Seq(Nat) /\ block' \in Seq(Nat)
        /\ UNCHANGED <<phase, listed, decided, R!policy, inbox, asked, accepted>>
    BY <1>1 DEF R!TimePasses, R!turn, RepInv, RepTypes
  <2> QED
    BY <2>1, IdleKeeps
<1>2. CASE R!Hear
  <2>1. /\ clock' \in Nat /\ backlog' \in Seq(Nat) /\ block' \in Seq(Nat)
        /\ UNCHANGED <<phase, listed, decided, R!policy, inbox, asked, accepted>>
    BY <1>2 DEF R!Hear, R!turn, RepInv, RepTypes
  <2> QED
    BY <2>1, IdleKeeps
<1>3. CASE UNCHANGED R!vars
  <2>1. /\ clock' \in Nat /\ backlog' \in Seq(Nat) /\ block' \in Seq(Nat)
        /\ UNCHANGED <<phase, listed, decided, R!policy, inbox, asked, accepted>>
    BY <1>3 DEF R!vars, R!turn, RepInv, RepTypes
  <2> QED
    BY <2>1, IdleKeeps
<1> QED
  BY <1>1, <1>2, <1>3, TakeBlockKeeps, LabelsKeeps, VoicesKeeps, TurnEndsKeeps,
     TickKeeps, StepKeeps DEF R!Next

(* The rep's system binds only an offer that was open when the caller spoke *)
(* and which they named or were asked to confirm (policy.py, _accept); every*)
(* strike is reported once, and how the call ended is what ended it.        *)
THEOREM RepMeans == ASSUME RepConstants
                    PROVE  R!Spec => [](R!CommitMeant /\ R!StrikesReported)
<1>1. R!Init => RepInv
  BY RepInit
<1>2. RepInv /\ [R!Next]_R!vars => RepInv'
  BY RepNext
<1>3. RepInv => R!CommitMeant /\ R!StrikesReported
  <2>1. Cardinality(StruckOf(<<>>)) = 0
    BY NoneStruck
  <2>2. ASSUME RepInv, phase = "idle"
        PROVE  /\ inbox.strikes = R!Strikes
               /\ R!Done => inbox.end = IF state = "ENDED" THEN "hangup" ELSE "closed"
               /\ state = "ENDED" <=> identity >= STRIKES \/ silences + holds >= STRIKES
    BY <2>1, <2>2 DEF RepInv, StrikeInv, RepTypes, R!Strikes
  <2> QED
    BY <2>2 DEF RepInv, AskInv, R!StrikesReported
<1> QED
  BY <1>1, <1>2, <1>3, PTL DEF R!Spec
=============================================================================
