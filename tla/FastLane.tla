------------------------------ MODULE FastLane ------------------------------
(***************************************************************************)
(* A Fast lane (kernel/lanes.py): triggers routed to it (kernel/session.py,*)
(* _on_event) and coalesced, one generation at a time, stale generations   *)
(* run again, and the GUIDEs, Slow messages and APPROVAL_NOTICEs a turn    *)
(* voices.  Rep lines and user messages are unbounded; the partner's and a *)
(* verbatim line's newness are compared with the request's basis only.     *)
(***************************************************************************)
EXTENDS Integers, Sequences, FiniteSets

CONSTANTS
    MaxGuides, MaxMsgs, MaxNotices,  \* bounds: Slow's messages by type
    MaxLines,                        \* bound: verbatim lines delivered
    MaxEpochs                        \* bound: epoch moves

VARIABLES
    lane,      \* "user", "cp"
    closed,    \* k.closed: the cp call is over
    pending,   \* _pending
    phase,     \* of the one generation: "idle", "asked", "floor", "speaking";
               \* "loop": it ended, and the next is taken with no await between
    ask,       \* the trigger it serves
    voices,    \* the GUIDEs it voices (guides)
    moved,     \* the epoch moved since its request
    since,     \* heard since its request: a verbatim line, a rep line
    hold,      \* cp_hold: a FastC hold stands
    holds,     \* the turn's own hold
    newest,    \* _guide: GUIDEs are numbered
    unvoiced,  \* s2f_pending: messages not voiced yet
    said,      \* _said
    retried,   \* _retried
    card,      \* an approval is pending
    sent       \* bounds: Slow messages, notices, verbatim lines, epoch moves

vars == <<lane, closed, pending, phase, ask, voices, moved, since, hold, holds,
          newest, unvoiced, said, retried, card, sent>>
generation == <<phase, ask, voices, moved, since, holds>>
memory == <<newest, said, retried>>

URGENT == {"user_msg", "rep_spoke"}
Kinds == URGENT \cup {"slow_msg", "approval_card", "guidance"}
Ask(kind) == [kind |-> kind, msg |-> {}, acks |-> {}, guides |-> {}, again |-> FALSE]
NoAsk == Ask("none")
Quiet == [line |-> FALSE, rep |-> FALSE]
Guide(n) == <<"guide", n>>

Init ==
    /\ lane \in {"user", "cp"} /\ closed = FALSE /\ pending = <<>>
    /\ phase = "idle" /\ ask = NoAsk /\ voices = {} /\ moved = FALSE
    /\ since = Quiet /\ hold = FALSE /\ holds = FALSE
    /\ newest = 0 /\ unvoiced = {} /\ said = {} /\ retried = {} /\ card = FALSE
    /\ sent = [msgs |-> 0, notices |-> 0, lines |-> 0, epochs |-> 0]

Asks(q) == {q[i] : i \in DOMAIN q}

Without(q, i) == SubSeq(q, 1, i - 1) \o SubSeq(q, i + 1, Len(q))

(* Mutant: a Slow message displaces the one that waits. *)
AddAbsorbs(q, a, first) ==
    LET same == {i \in DOMAIN q : q[i].kind = a.kind}
        rest == IF same = {} THEN q ELSE Without(q, CHOOSE i \in same : TRUE)
    IN  IF first THEN <<a>> \o rest ELSE Append(rest, a)

(* _add: one of each kind at most waits, and the newest absorbs its acks   *)
(* and guides; each Slow message once.                                     *)
Add(q, a, first) ==
    LET same == {i \in DOMAIN q : q[i].kind = a.kind /\ a.kind # "slow_msg"}
        new  == [a EXCEPT !.acks = @ \cup UNION {q[i].acks : i \in same},
                          !.guides = @ \cup UNION {q[i].guides : i \in same}]
        rest == IF same = {} THEN q ELSE Without(q, CHOOSE i \in same : TRUE)
    IN  IF first THEN <<new>> \o rest ELSE Append(rest, new)

(* _again: a stale generation's trigger, first; an APPROVAL_NOTICE once. *)
Again(q) ==
    IF ask.again /\ ask.kind = "approval_card" THEN q
    ELSE Add(q, [ask EXCEPT !.again = TRUE], TRUE)

-----------------------------------------------------------------------------
(* What triggers the lane. *)

RepLine ==
    /\ lane = "cp" /\ ~closed
    /\ pending' = Add(pending, Ask("rep_spoke"), FALSE)
    /\ since' = IF phase = "idle" THEN since ELSE [since EXCEPT !.rep = TRUE]
    /\ UNCHANGED <<lane, closed, phase, ask, voices, moved, hold, holds, memory,
                   unvoiced, card, sent>>

UserMsg ==
    /\ lane = "user" /\ pending' = Add(pending, Ask("user_msg"), FALSE)
    /\ UNCHANGED <<lane, closed, generation, hold, memory, unvoiced, card, sent>>

(* s2f.msg{GUIDE}. *)
Guidance ==
    /\ lane = "cp" /\ newest < MaxGuides /\ newest' = newest + 1
    /\ unvoiced' = unvoiced \cup {Guide(newest')}
    /\ pending' = IF closed THEN pending ELSE Add(pending, Ask("guidance"), FALSE)
    /\ UNCHANGED <<lane, closed, generation, hold, said, retried, card, sent>>

(* s2f.msg{ASK_USER, TELL_USER}. *)
SlowMessage ==
    /\ lane = "user" /\ sent.msgs < MaxMsgs
    /\ sent' = [sent EXCEPT !.msgs = @ + 1]
    /\ LET m == <<"msg", sent'.msgs>>
       IN  /\ unvoiced' = unvoiced \cup {m}
           /\ pending' = Add(pending, [Ask("slow_msg") EXCEPT !.msg = {m}], FALSE)
    /\ UNCHANGED <<lane, closed, generation, hold, memory, card>>

(* s2f.msg{APPROVAL_NOTICE}, with its card. *)
Notice ==
    /\ lane = "user" /\ sent.notices < MaxNotices /\ card' = TRUE
    /\ sent' = [sent EXCEPT !.notices = @ + 1]
    /\ LET m == <<"notice", sent'.notices>>
       IN  /\ unvoiced' = unvoiced \cup {m}
           /\ pending' = Add(pending, [Ask("approval_card") EXCEPT !.acks = {m}], FALSE)
    /\ UNCHANGED <<lane, closed, generation, hold, memory>>

CardDecided ==
    /\ card /\ card' = FALSE
    /\ UNCHANGED <<lane, closed, pending, generation, hold, memory, unvoiced, sent>>

(* A user.msg's fence, a mandate or a revocation bumps the epoch. *)
EpochMoves ==
    /\ sent.epochs < MaxEpochs /\ sent' = [sent EXCEPT !.epochs = @ + 1]
    /\ moved' = (phase # "idle")
    /\ UNCHANGED <<lane, closed, pending, phase, ask, voices, since, hold, holds,
                   memory, unvoiced, card>>

(* utt.delivered of a verbatim line: it had the floor. *)
VerbatimHeard ==
    /\ lane = "cp" /\ phase # "speaking" /\ sent.lines < MaxLines
    /\ sent' = [sent EXCEPT !.lines = @ + 1]
    /\ since' = IF phase = "idle" THEN since ELSE [since EXCEPT !.line = TRUE]
    /\ UNCHANGED <<lane, closed, pending, phase, ask, voices, moved, hold, holds,
                   memory, unvoiced, card>>

Closes ==
    /\ lane = "cp" /\ ~closed /\ closed' = TRUE
    /\ UNCHANGED <<lane, pending, generation, hold, memory, unvoiced, card, sent>>

-----------------------------------------------------------------------------
(* run and generate. *)

First(q) ==
    LET urgent == {i \in DOMAIN q : q[i].kind \in URGENT}
    IN  IF urgent = {} THEN 1 ELSE CHOOSE i \in urgent : \A j \in urgent : i <= j

(* The trigger is moot: the call is over, the card is decided, or a turn   *)
(* the rep heard voiced the newest GUIDE first.                            *)
Moot(a) ==
    \/ closed
    \/ a.kind = "approval_card" /\ ~card
    \/ a.kind = "guidance" /\ newest \in said

(* Mutant: a turn voices the newest GUIDE whoever voiced it. *)
VoicesNewest(a) == {g \in {newest} : g # 0}

(* The GUIDEs the turn voices: the newest, if pending or voiced by the     *)
(* stale generation it replaces.                                           *)
Voices(a) == {g \in {newest} : Guide(g) \in unvoiced \/ g \in a.guides}

Serves ==
    /\ phase \in {"idle", "loop"} /\ pending # <<>>
    /\ LET i == First(pending)
           a == pending[i]
       IN  /\ pending' = Without(pending, i)
           /\ IF Moot(a)
              THEN /\ phase' = IF pending' = <<>> THEN "idle" ELSE "loop"
                   /\ UNCHANGED <<ask, voices, moved, since, holds>>
              ELSE /\ phase' = "asked" /\ ask' = a /\ voices' = Voices(a)
                   /\ moved' = FALSE /\ since' = Quiet /\ holds' = FALSE
    /\ UNCHANGED <<lane, closed, hold, memory, unvoiced, card, sent>>

(* The generation is over. *)
Ends ==
    /\ phase' = IF pending' = <<>> THEN "idle" ELSE "loop"
    /\ ask' = NoAsk /\ voices' = {} /\ moved' = FALSE
    /\ since' = Quiet /\ holds' = FALSE

(* fast.cancelled{epoch}: no turn. *)
StaleEpoch ==
    /\ phase = "asked" /\ moved /\ pending' = Again(pending) /\ Ends
    /\ UNCHANGED <<lane, closed, hold, memory, unvoiced, card, sent>>

(* _hold: chan.hold, if it changed. *)
Hold(h) == hold' = IF lane = "cp" THEN h ELSE hold

(* fast.turn and what it voices; an empty turn voices no GUIDE, which is   *)
(* triggered once more.  A turn without lines ends here.                   *)
Turned(acts, speaks, h) ==
    LET empty == voices # {} /\ ~acts
        again == IF empty THEN (voices \ ask.guides) \ retried ELSE {}
        now   == IF empty THEN {} ELSE voices
    IN  /\ phase = "asked" /\ ~moved
        /\ speaks \/ h => acts
        /\ h => lane = "cp"
        /\ retried' = retried \cup again
        /\ pending' = IF again = {} THEN pending
                      ELSE Add(pending, Ask("guidance"), FALSE)
        /\ unvoiced' = unvoiced \ ({Guide(g) : g \in now} \cup ask.msg \cup ask.acks)
        /\ IF speaks
           THEN /\ phase' = "floor" /\ voices' = now /\ holds' = h /\ hold' = hold
                /\ UNCHANGED <<ask, since, moved>>
           ELSE Ends /\ Hold(h)
        /\ UNCHANGED <<lane, closed, newest, said, card, sent>>

Turns == \E acts, speaks, h \in BOOLEAN : Turned(acts, speaks, h)

(* Mutant: a re-run is dropped for the rep's newer line again. *)
AnyReply == ask.kind = "rep_spoke"

Reply == ask.kind = "rep_spoke" /\ ~ask.again
Fresh == ~since.line /\ ~(Reply /\ since.rep)

(* Stale on the floor: the turn is not said, and its trigger runs again    *)
(* with the GUIDEs it voiced.                                              *)
StaleFloor ==
    /\ phase = "floor" /\ ~Fresh
    /\ pending' = Add(pending, [ask EXCEPT !.guides = voices, !.again = TRUE], TRUE)
    /\ Ends
    /\ UNCHANGED <<lane, closed, hold, memory, unvoiced, card, sent>>

TakesFloor ==
    /\ phase = "floor" /\ Fresh /\ phase' = "speaking" /\ Hold(holds)
    /\ UNCHANGED <<lane, closed, pending, ask, voices, moved, since, holds, memory,
                   unvoiced, card, sent>>

(* Heard whole, or cut by the rep. *)
Spoken ==
    /\ phase = "speaking" /\ pending' = pending /\ Ends
    /\ said' = said \cup voices
    /\ UNCHANGED <<lane, closed, hold, newest, retried, unvoiced, card, sent>>

Cut ==
    /\ phase = "speaking" /\ lane = "cp" /\ pending' = pending /\ Ends
    /\ UNCHANGED <<lane, closed, hold, memory, unvoiced, card, sent>>

Triggers ==
    /\ phase # "loop"
    /\ \/ RepLine \/ UserMsg \/ Guidance \/ SlowMessage \/ Notice \/ CardDecided
       \/ EpochMoves \/ VerbatimHeard \/ Closes

Run == Serves \/ StaleEpoch \/ Turns \/ StaleFloor \/ TakesFloor \/ Spoken \/ Cut

Next == Triggers \/ Run

Spec == Init /\ [][Next]_vars

-----------------------------------------------------------------------------
(* A GUIDE the rep heard whole is not voiced by a turn that takes the      *)
(* floor after it, however triggers merge and stale turns run again        *)
(* (kernel/lanes.py, "_said": the read-back was asked for again after      *)
(* COMMITTED).                                                             *)
GuideHeardOnce == phase \in {"floor", "speaking"} => voices \cap said = {}

(* What a lane may owe: an answer to the newest GUIDE, settled when it is   *)
(* voiced, superseded, or left after an empty turn's re-trigger; and a Slow *)
(* message, which waits for a moment that nothing more urgent takes.       *)
Owes(g) == newest = g /\ Guide(g) \in unvoiced
Settled(g) == newest # g \/ Guide(g) \notin unvoiced \/ closed \/ g \in retried

Waits(n) == <<"msg", n>> \in unvoiced

(* What the lane owes is kept until it is settled: triggers merge, urgent   *)
(* ones go first, stale turns run again, and still a trigger or the        *)
(* generation at work is there for the newest GUIDE and for each message.  *)
(* One dropped, and the user is never asked what Slow waits to hear        *)
(* (kernel/lanes.py:146, _add).                                            *)
Carried(m) ==
    \/ phase = "asked" /\ m \in ask.msg
    \/ \E i \in DOMAIN pending : m \in pending[i].msg
DebtsKept ==
    /\ newest > 0 /\ Owes(newest) /\ ~Settled(newest) =>
          pending # <<>> \/ (phase = "asked" /\ newest \in voices)
    /\ \A n \in 1..sent.msgs : Waits(n) => Carried(<<"msg", n>>)
LetsSlowIn == phase = "loop" /\ \A a \in Asks(pending) : a.kind \notin URGENT
Free == phase = "idle" \/ LetsSlowIn
=============================================================================
