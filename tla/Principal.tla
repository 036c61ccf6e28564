------------------------------ MODULE Principal -----------------------------
(***************************************************************************)
(* The simulated user (env/user): one chat voice that replies, one         *)
(* approval button, and the stop that a task scripts.  The kernel decides  *)
(* when each is asked (kernel/fence.py, _sim, _later, _seen, _trigger) and *)
(* the channel serialises the replies (kernel/channels.py).  A subject is  *)
(* a card, or a mandate, that Slow asks the user to decide.                *)
(***************************************************************************)
EXTENDS Integers, Sequences, FiniteSets

CONSTANTS
    STOP_DELAY, REPLY_DELAY, APPROVER_DELAY,  \* seconds
    CARD_TTL,                                  \* seconds until a card expires
    K,                                         \* the stop's k, of after_turn_k
    Subjects,                                  \* bound: those asked, 1..n
    MaxMsgs, Horizon                           \* bounds: agent messages, time

VARIABLES
    now, msgs,   \* bounds: time, agent messages sent
    task,        \* its stop's trigger and kind, and whether the sim approves
    fired,       \* SimUser._fired
    mind,        \* Approver: "first", "stopped", "changed"
    turns,       \* SimUser._turns
    queue,       \* jobs that wait for the channel's lock
    busy,        \* the job that composes, or NoJob
    incoming,    \* messages queued for the kernel, first first
    fences,      \* user fences up: the messages they are for
    subjects,    \* per subject: its _later task
    pending,     \* the card pending on the board, or 0
    offered,     \* the rep has made an offer
    granted,     \* cards whose grant the kernel decided
    stopped,     \* history: per subject, the stop message it triggered, or 0
    cleared      \* history: messages whose fence cleared

user == <<fired, mind, turns>>
chat == <<queue, busy, incoming>>
vars == <<now, msgs, task, user, chat, fences, subjects, pending, offered,
          granted, stopped, cleared>>

Triggers == {"after_card", "after_offer", "after_turn_k"}
Job(kind, s) == [kind |-> kind, card |-> s, at |-> now, stop |-> FALSE]
NoJob == [kind |-> "none", card |-> 0, at |-> 0, stop |-> FALSE]
NoSubject == [phase |-> "none", card |-> FALSE, grant |-> FALSE, due |-> 0,
              until |-> 0, up |-> {}, msg |-> 0]

(* The opening request, then one reply for each agent message. *)
Init ==
    /\ now = 0 /\ msgs = 0
    /\ task \in [trigger : Triggers, plain : BOOLEAN, approves : BOOLEAN]
    /\ fired = FALSE /\ mind = "first" /\ turns = 0
    /\ queue = <<Job("opening", 0)>> /\ busy = NoJob /\ incoming = <<>>
    /\ fences = {} /\ subjects = [s \in Subjects |-> NoSubject] /\ pending = 0
    /\ offered = FALSE /\ granted = {} /\ cleared = {}
    /\ stopped = [s \in Subjects |-> 0]

TimePasses ==
    /\ now < Horizon /\ now' = now + 1
    /\ UNCHANGED <<offered, msgs, task, user, chat, fences, subjects, pending,
                   granted, stopped, cleared>>

-----------------------------------------------------------------------------
(* The chat. *)

(* An agent line is heard: send, which waits for the lock. *)
AgentLine ==
    /\ msgs < MaxMsgs /\ msgs' = msgs + 1
    /\ queue' = Append(queue, Job("reply", 0))
    /\ UNCHANGED <<offered, now, task, user, busy, incoming, fences, subjects,
                   pending, granted, stopped, cleared>>

(* The stop is due: with the k-th reply, or its trigger came; once. *)
StopDue(j) ==
    /\ ~fired
    /\ \/ /\ j.kind \in {"opening", "reply"}
          /\ task.trigger = "after_turn_k" /\ turns' >= K
       \/ j.kind = task.trigger

(* The lock's next job composes; a trigger that is not the stop's ends at  *)
(* once.  The approver changes its mind as the stop is asked for.          *)
Composes ==
    /\ busy = NoJob /\ queue # <<>> /\ queue' = Tail(queue)
    /\ LET j == Head(queue)
       IN  /\ turns' = IF j.kind = "reply" THEN turns + 1 ELSE turns
           /\ fired' = (fired \/ StopDue(j))
           /\ mind' = IF ~StopDue(j) THEN mind
                      ELSE IF task.plain THEN "stopped" ELSE "changed"
           /\ IF j.kind \in Triggers /\ ~StopDue(j)
              THEN /\ busy' = busy
                   /\ subjects' = IF j.card = 0 \/ ~task.approves THEN subjects
                                  ELSE [subjects EXCEPT ![j.card].phase = "delay"]
              ELSE busy' = [j EXCEPT !.stop = StopDue(j)] /\ UNCHANGED subjects
    /\ UNCHANGED <<offered, now, msgs, task, incoming, fences, pending, granted,
                   stopped, cleared>>

(* It has composed; silent only when no stop is due.  A triggered stop is  *)
(* due after its trigger, a reply after its message.                       *)
Replies ==
    LET s == busy.card
        n == Cardinality(cleared \cup fences) + Len(incoming) + 1
        at == IF busy.kind = "opening" THEN 0
              ELSE busy.at + IF busy.kind = "reply" THEN REPLY_DELAY ELSE STOP_DELAY
        waits == s # 0 /\ task.approves
    IN  /\ busy # NoJob /\ busy' = NoJob
        /\ \/ /\ ~busy.stop /\ UNCHANGED <<incoming, stopped, subjects>>
           \/ /\ incoming' = Append(incoming, [id |-> n, due |-> at])
              /\ stopped' = IF s = 0 THEN stopped ELSE [stopped EXCEPT ![s] = n]
              /\ subjects' = IF waits
                             THEN [subjects EXCEPT ![s].phase = "delay",
                                                   ![s].msg = n]
                             ELSE subjects
        /\ UNCHANGED <<offered, now, msgs, task, user, queue, fences, pending,
                       granted, cleared>>

(* _ingress: in the order of the queue, at its due time; the user.msg      *)
(* raises its fence (kernel/fence.py), and says that it is delivered.      *)
Delivered ==
    /\ incoming # <<>> /\ Head(incoming).due <= now
    /\ incoming' = Tail(incoming) /\ fences' = fences \cup {Head(incoming).id}
    /\ UNCHANGED <<offered, now, msgs, task, user, queue, busy, subjects,
                   pending, granted, stopped, cleared>>

IsDelivered(m) == m \in fences \cup cleared

(* Slow has completed a step that saw FastU's turn on it; a relayed REVOKE *)
(* has staled the card by then, if there was one.                          *)
FenceClears ==
    /\ \E m \in fences : fences' = fences \ {m} /\ cleared' = cleared \cup {m}
    /\ UNCHANGED <<offered, now, msgs, task, user, chat, subjects, pending,
                   granted, stopped>>

-----------------------------------------------------------------------------
(* Cards and mandates. *)

(* Approver.decide: whether the terms are within the limits, as changed,   *)
(* is any value; it is asked first, and then the trigger runs.             *)
Asks(s, card) ==
    /\ subjects[s].phase = "none"
    /\ \A r \in Subjects : r < s => subjects[r].phase # "none"
    /\ pending' = IF card THEN s ELSE pending
    /\ \E within \in BOOLEAN :
         subjects' = [subjects EXCEPT ![s] =
            [NoSubject EXCEPT
               !.phase = IF ~task.approves THEN "ui"
                         ELSE IF card THEN "trigger" ELSE "delay",
               !.card = card, !.grant = (within /\ mind # "stopped"),
               !.due = now + APPROVER_DELAY, !.until = now + CARD_TTL]]
    /\ queue' = IF card THEN Append(queue, Job("after_card", s)) ELSE queue
    /\ UNCHANGED <<offered, now, msgs, task, user, busy, incoming, fences,
                   granted, stopped, cleared>>

(* _trigger: p["intent"] is a mapping (PublicIntent), never one of         *)
(* _OFFERED.                                                               *)
IsOffered == FALSE

(* rep.policy of an offer. *)
RepOffers ==
    /\ offered' = TRUE
    /\ queue' = IF IsOffered THEN Append(queue, Job("after_offer", 0)) ELSE queue
    /\ UNCHANGED <<now, msgs, task, user, busy, incoming, fences, subjects,
                   pending, granted, stopped, cleared>>

(* The card is stale (a REVOKE, a new epoch), or expires. *)
Lapses ==
    /\ pending # 0 /\ pending' = 0
    /\ UNCHANGED <<offered, now, msgs, task, user, chat, fences, subjects,
                   granted, stopped, cleared>>

(* _later, after the approver's delay. *)
DelayOver(s) ==
    /\ subjects[s].phase = "delay" /\ now >= subjects[s].due
    /\ subjects' = [subjects EXCEPT ![s].phase =
                        IF subjects[s].msg = 0 THEN "post" ELSE "stop"]
    /\ UNCHANGED <<offered, now, msgs, task, user, chat, fences, pending,
                   granted, stopped, cleared>>

(* Mutant: the post waits for the stop alone. *)
SeenAtOnce(s) == {}

(* _seen: the user fences up when the stop is delivered. *)
Up(s) == fences

StopHeard(s) ==
    /\ subjects[s].phase = "stop" /\ IsDelivered(subjects[s].msg)
    /\ subjects' = [subjects EXCEPT ![s].phase = "seen", ![s].up = Up(s)]
    /\ UNCHANGED <<offered, now, msgs, task, user, chat, fences, pending,
                   granted, stopped, cleared>>

Seen(s) ==
    /\ subjects[s].phase = "seen"
    /\ subjects[s].up \cap fences = {} \/ now >= subjects[s].until
    /\ subjects' = [subjects EXCEPT ![s].phase = "post"]
    /\ UNCHANGED <<offered, now, msgs, task, user, chat, fences, pending,
                   granted, stopped, cleared>>

(* The queue's decision: a card that is no longer pending, or expired, is  *)
(* refused (guard.decide).                                                 *)
Decides(s) ==
    LET x == subjects[s]
    IN  /\ x.phase = "post" /\ subjects' = [subjects EXCEPT ![s].phase = "decided"]
        /\ IF x.card /\ pending = s
           THEN /\ pending' = IF now < x.until THEN 0 ELSE pending
                /\ granted' = IF x.grant /\ now < x.until THEN granted \cup {s}
                              ELSE granted
           ELSE UNCHANGED <<pending, granted>>
        /\ UNCHANGED <<offered, now, msgs, task, user, chat, fences, stopped,
                       cleared>>

Next ==
    \/ TimePasses \/ AgentLine \/ Composes \/ Replies \/ Delivered \/ FenceClears
    \/ \E s \in Subjects :
         \/ \E card \in BOOLEAN : Asks(s, card)
         \/ DelayOver(s) \/ StopHeard(s) \/ Seen(s) \/ Decides(s)
    \/ RepOffers \/ Lapses

Spec == Init /\ [][Next]_vars

-----------------------------------------------------------------------------
(* A card that made the user stop is granted only once the stop was        *)
(* delivered and every step it could change has seen it: whatever waits    *)
(* in the chat before it, however late it is composed, and though the      *)
(* grant was decided first (kernel/fence.py, N6 and S1-SYS-84).            *)
GrantHeedsStop ==
    \A s \in granted : stopped[s] # 0 => stopped[s] \in cleared

(* "the rep made an offer (after_offer)" fires the task's stop             *)
(* (env/user/simuser.py): once it has, the user has stopped, or is about   *)
(* to.                                                                     *)
OfferStops ==
    offered /\ task.trigger = "after_offer" =>
        fired \/ \E i \in DOMAIN queue : queue[i].kind = "after_offer"
=============================================================================
