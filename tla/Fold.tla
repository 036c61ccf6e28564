-------------------------------- MODULE Fold --------------------------------
(***************************************************************************)
(* The Guard and the fold: the Guard checks a blackboard and returns       *)
(* effects (guard/*.py); each is emitted in turn, on the clock of its own  *)
(* emission, and the fold's reducer takes it or rejects it (core/fold.py,  *)
(* core/bus.py).  A rejected event is never written: the emitter gets the  *)
(* error and the session dies.  One offer; todo holds the effects of one   *)
(* check, which no other task interleaves, but which the clock may.        *)
(***************************************************************************)
EXTENDS Integers, Sequences, FiniteSets, CaseStatus

CONSTANTS
    Lives,     \* lifetimes an offer may state; one may state none
    CARD_TTL,  \* lifetime of a card
    CAP_TTL,   \* lifetime of a capability
    Speech,    \* time the accept line takes to say
    MaxRev,    \* bound: revisions of the offer
    MaxEpoch,  \* bound: authority epochs
    MaxAsked,  \* bound: approvals on the board when a card is asked for
    Horizon,   \* bound: the clock's last instant
    None       \* no value

VARIABLES
    bb,        \* the blackboard, as far as a reducer or the Guard reads it
    now,       \* the bus clock
    todo,      \* effects checked and not yet emitted
    checked,   \* the instant they were checked at, until the last is emitted
    rejected   \* the effect the fold rejected, or None

vars == <<bb, now, todo, checked, rejected>>

Never == Horizon + Speech + CARD_TTL + 1
Min2(a, b) == IF a <= b THEN a ELSE b

Init ==
    /\ bb = [status |-> "IN_CALL", epoch |-> 0, rev |-> 0, open |-> FALSE,
             bound |-> FALSE, expires |-> Never, mandate |-> None, card |-> None,
             approvals |-> {}, caps |-> {}, fence |-> FALSE, ok |-> FALSE]
    /\ now = 0 /\ todo = <<>> /\ checked = 0 /\ rejected = None

-----------------------------------------------------------------------------
(* What the Guard and the fold both read (guard/capability.py). *)

Used == {c \in bb.caps : c.used}
Waiting == {c \in bb.caps : ~c.used}          \* accept_in_flight
Current(c) == bb.bound /\ c.rev = bb.rev      \* revision and terms_hash

-----------------------------------------------------------------------------
(* The reducers: whether the fold takes effect e now, and the board after. *)

TakesCard(e) ==
    CASE e.type = "approval.requested" -> Current(e.card) /\ e.card.epoch = bb.epoch
      [] e.type = "approval.post" ->
            bb.card # None /\ bb.card = e.card /\ e.card.epoch = bb.epoch
      [] e.type = "approval.decided" ->
            /\ bb.card # None /\ bb.card = e.card /\ Current(e.card)
            /\ e.card.epoch = bb.epoch /\ e.ends > now

TakesMandate(e) ==
    IF e.type = "mandate.proposed" THEN e.epoch = bb.epoch
    ELSE /\ bb.mandate # None /\ bb.mandate.state = "proposed"
         /\ bb.mandate.epoch = bb.epoch

TakesCapability(e) ==
    CASE e.type = "action.authorized" ->
            /\ e.cap.epoch = bb.epoch /\ e.cap \notin bb.caps /\ e.ends > now
            /\ \A c \in Used : c.rev # e.cap.rev
            /\ Waiting = {} /\ Current(e.cap)
      [] e.type = "speak.released" ->
            /\ e.cap \in Waiting /\ e.cap.epoch = bb.epoch /\ ~bb.fence
            /\ bb.open /\ Current(e.cap) /\ e.ends > now
            /\ \A c \in Used : c.rev # e.cap.rev
      [] OTHER -> e.cap \in Waiting

TakesStatus(e) ==
    /\ e.previous = bb.status
    /\ \/ \E row \in TRANSITIONS : row[1] = e.previous /\ row[3] = e.status
       \/ e.status = "ABANDONED" /\ bb.status \notin TERMINAL
    /\ e.status = "VERIFIED_COMPLETE" => bb.ok /\ Cardinality(Used) = 1
    /\ e.status = "VERIFIED_NO_DEAL" => bb.ok /\ Used = {}

Takes(e) ==
    CASE e.type = "offer.recorded" -> e.rev > bb.rev
      [] e.type = "readback.updated" -> e.rev = bb.rev
      [] e.type = "decline line" -> bb.rev > 0
      [] e.type = "authority.epoch" -> e.new > bb.epoch
      [] e.type \in {"approval.requested", "approval.post", "approval.decided"} ->
            TakesCard(e)
      [] e.type \in {"mandate.proposed", "mandate.post", "mandate.decided"} ->
            TakesMandate(e)
      [] e.type \in {"action.authorized", "accept line", "speak.released",
                     "speak.revoked"} -> TakesCapability(e)
      [] e.type = "status.changed" -> TakesStatus(e)
      [] OTHER -> TRUE

Applied(e) ==
    CASE e.type = "offer.recorded" ->
            [bb EXCEPT !.rev = e.rev, !.open = TRUE, !.bound = FALSE,
                       !.expires = e.expires]
      [] e.type = "readback.updated" -> [bb EXCEPT !.bound = TRUE]
      [] e.type = "approval.requested" -> [bb EXCEPT !.card = e.card]
      [] e.type = "approval.decided" ->
            [bb EXCEPT !.card = None,
                       !.approvals = @ \cup {[card |-> e.card, granted |-> e.granted]}]
      [] e.type = "mandate.proposed" ->
            [bb EXCEPT !.mandate = [epoch |-> e.epoch, state |-> "proposed"]]
      [] e.type = "mandate.decided" -> [bb EXCEPT !.mandate.state = e.state]
      [] e.type = "authority.epoch" ->
            [bb EXCEPT !.epoch = e.new,
                !.mandate = IF e.decided /\ @ # None /\ @.state # "proposed"
                               /\ @.epoch = bb.epoch
                            THEN [@ EXCEPT !.epoch = e.new] ELSE @]
      [] e.type = "action.authorized" -> [bb EXCEPT !.caps = @ \cup {e.cap}]
      [] e.type = "decline line" -> [bb EXCEPT !.open = FALSE]
      [] e.type = "speak.released" ->
            [bb EXCEPT !.caps = (@ \ {e.cap}) \cup {[e.cap EXCEPT !.used = TRUE]}]
      [] e.type = "speak.revoked" -> [bb EXCEPT !.caps = @ \ {e.cap}]
      [] e.type = "completion.decided" -> [bb EXCEPT !.ok = e.ok]
      [] e.type = "status.changed" -> [bb EXCEPT !.status = e.status]
      [] e.type = "authority.fence" -> [bb EXCEPT !.fence = e.up]
      [] OTHER -> bb

(* Authority.on_event of an epoch, nested: the pending card of an older    *)
(* epoch replans a case that awaits it.                                    *)
Stale(e) ==
    /\ e.type = "authority.epoch" /\ bb.card # None
    /\ MayMove(bb.status, "approval_stale")

Replanned(b) == [b EXCEPT !.status = "NEEDS_REPLAN"]

Emit ==
    /\ todo # <<>> /\ rejected = None
    /\ LET e == Head(todo) IN
        IF Takes(e)
        THEN /\ bb' = IF Stale(e) THEN Replanned(Applied(e)) ELSE Applied(e)
             /\ todo' = Tail(todo) /\ rejected' = rejected
             /\ checked' = IF todo' = <<>> THEN 0 ELSE checked
        ELSE bb' = bb /\ todo' = <<>> /\ rejected' = e /\ checked' = checked
    /\ now' = now

(* The block that checks and emits is shorter than an accept line. *)
Tick ==
    /\ now < Horizon /\ (todo # <<>> => now < checked + Speech)
    /\ now' = now + 1 /\ UNCHANGED <<bb, todo, checked, rejected>>

-----------------------------------------------------------------------------
(* The checks.  Each reads the board at the clock's now and leaves its     *)
(* effects to be emitted.                                                  *)

Checks(effects) ==
    /\ todo = <<>> /\ rejected = None
    /\ todo' = effects /\ checked' = IF effects = <<>> THEN 0 ELSE now
    /\ UNCHANGED <<bb, now, rejected>>

(* moved: the status.changed of a trigger, if it moves the case. *)
Moved(was, trigger) ==
    IF MayMove(was, trigger)
    THEN <<[type |-> "status.changed", previous |-> was,
            status |-> NextStatus(was, trigger)]>>
    ELSE <<>>

(* Mutant: terms that no read-back bound pass. *)
OpenOfferUnbound == ~bb.fence /\ bb.rev > 0 /\ bb.open /\ bb.expires > now

(* open_offer, for one without hard violations. *)
OpenOffer ==
    ~bb.fence /\ bb.rev > 0 /\ bb.open /\ bb.expires > now /\ bb.bound

RecordOffer ==
    /\ bb.rev < MaxRev
    /\ \E life \in Lives \cup {Never} :
        Checks(<<[type |-> "offer.recorded", rev |-> bb.rev + 1,
                  expires |-> Min2(now + life, Never)]>>)

Readback ==
    /\ bb.rev > 0 /\ bb.open /\ ~bb.bound
    /\ Checks(<<[type |-> "readback.updated", rev |-> bb.rev]>>)

RequestApproval ==
    /\ OpenOffer /\ Cardinality(bb.approvals) < MaxAsked
    /\ ~(bb.card # None /\ Current(bb.card) /\ bb.card.epoch = bb.epoch
         /\ bb.card.expires > now)
    /\ Checks(<<[type |-> "approval.requested",
                 card |-> [rev |-> bb.rev, epoch |-> bb.epoch,
                           expires |-> Min2(bb.expires, now + CARD_TTL)]]>>
              \o Moved(bb.status, "approval_requested"))

ProposeMandate ==
    Checks(<<[type |-> "mandate.proposed", epoch |-> bb.epoch]>>)

TightenMandate ==
    /\ bb.mandate # None /\ bb.mandate.state # "denied" /\ bb.epoch < MaxEpoch
    /\ Checks(<<[type |-> "authority.epoch", new |-> bb.epoch + 1, decided |-> FALSE],
                [type |-> "mandate.proposed", epoch |-> bb.epoch + 1]>>)

(* slow_revoke and f2s_revoke. *)
Revoke ==
    /\ bb.epoch < MaxEpoch
    /\ Checks(<<[type |-> "authority.epoch", new |-> bb.epoch + 1,
                 decided |-> FALSE]>>)

(* Authority.decide of a post for the pending card, which it still shows.  *)
(* The move reads the board after the decision.                            *)
DecideApproval ==
    /\ bb.card # None /\ Current(bb.card) /\ bb.card.epoch = bb.epoch
    /\ bb.card.expires > now
    /\ \E granted \in BOOLEAN :
        Checks(<<[type |-> "approval.post", card |-> bb.card],
                 [type |-> "approval.decided", card |-> bb.card,
                  granted |-> granted, ends |-> bb.card.expires]>>
               \o Moved(bb.status, "approval_decided"))

DecideMandate ==
    /\ bb.mandate # None /\ bb.mandate.state = "proposed"
    /\ bb.mandate.epoch = bb.epoch /\ bb.epoch < MaxEpoch
    /\ \E state \in {"granted", "denied"} :
        Checks(<<[type |-> "mandate.post"],
                 [type |-> "mandate.decided", state |-> state],
                 [type |-> "authority.epoch", new |-> bb.epoch + 1,
                  decided |-> TRUE]>>)

(* _grant: nothing after a denial of these terms in this epoch; else the   *)
(* mandate, while no accept was released, or a live approval.              *)
GrantEnds ==
    LET mine == {a \in bb.approvals : a.card.rev = bb.rev /\ a.card.epoch = bb.epoch}
    IN  IF \E a \in mine : ~a.granted THEN {}
        ELSE IF bb.mandate # None /\ bb.mandate.state = "granted"
                /\ bb.mandate.epoch = bb.epoch /\ Used = {}
        THEN {Never}
        ELSE {a.card.expires : a \in {x \in mine : x.card.expires > now}}

MayAccept ==
    /\ bb.status = "IN_CALL" /\ OpenOffer
    /\ \A c \in Used : c.rev # bb.rev
    /\ Waiting = {}

AcceptOffer ==
    /\ MayAccept
    /\ \E until \in GrantEnds :
        LET ends == Min2(Min2(until, bb.expires), now + CAP_TTL)
            cap == [rev |-> bb.rev, epoch |-> bb.epoch, expires |-> ends,
                    used |-> FALSE]
        IN  Checks(<<[type |-> "action.authorized", cap |-> cap, ends |-> ends],
                     [type |-> "accept line", cap |-> cap]>>
                   \o Moved(bb.status, "accept_authorized"))

DeclineOffer ==
    /\ bb.rev > 0 /\ bb.open /\ Checks(<<[type |-> "decline line"]>>)

(* revalidate, at the instant the accept line would end. *)
Revalidate(c) ==
    /\ c.epoch = bb.epoch /\ ~bb.fence /\ bb.open /\ Current(c)
    /\ Min2(c.expires, bb.expires) > now + Speech

(* Speaker.verbatim: the accept line is released, or revoked. *)
Speak ==
    \E c \in Waiting :
        IF Revalidate(c)
        THEN Checks(<<[type |-> "speak.released", cap |-> c, ends |-> c.expires]>>)
        ELSE Checks(<<[type |-> "speak.revoked", cap |-> c]>>
                    \o Moved(bb.status, "accept_revoked"))

(* The accept line was heard, or cut. *)
Heard ==
    /\ bb.status = "COMMIT_AUTHORIZED" /\ Used # {} /\ Waiting = {}
    /\ \E trigger \in {"accept_heard", "accept_truncated"} :
        Checks(Moved(bb.status, trigger))

(* check_account moves the case; finish decides it.  verify_completion and *)
(* verify_no_deal count the released accepts themselves.                   *)
CheckAccount ==
    /\ MayMove(bb.status, "evidence_recorded")
    /\ Checks(Moved(bb.status, "evidence_recorded"))

FinishCompleted ==
    /\ MayMove(bb.status, "completion_ok")
    /\ \E ok \in {FALSE} \cup {Cardinality(Used) = 1} :
        Checks(<<[type |-> "completion.decided", ok |-> ok]>>
               \o Moved(bb.status, IF ok THEN "completion_ok" ELSE "completion_fail"))

FinishNoDeal ==
    /\ MayMove(bb.status, "no_deal_verified") /\ Used = {}
    /\ Checks(<<[type |-> "completion.decided", ok |-> TRUE]>>
              \o Moved(bb.status, "no_deal_verified"))

(* info_only, escalate, a replan Slow saw, the card's expiry timer. *)
Moves ==
    \E trigger \in {"info_only", "escalate", "replan", "approval_expired", "hang_up"} :
        /\ MayMove(bb.status, trigger)
        /\ trigger = "approval_expired" => bb.card # None /\ bb.card.expires <= now
        /\ Checks(Moved(bb.status, trigger))

Fences == Checks(<<[type |-> "authority.fence", up |-> ~bb.fence]>>)

Next ==
    \/ Emit \/ Tick
    \/ RecordOffer \/ Readback \/ RequestApproval \/ ProposeMandate
    \/ TightenMandate \/ Revoke \/ DecideApproval \/ DecideMandate
    \/ AcceptOffer \/ DeclineOffer \/ Speak \/ Heard
    \/ CheckAccount \/ FinishCompleted \/ FinishNoDeal \/ Moves \/ Fences

Spec == Init /\ [][Next]_vars

-----------------------------------------------------------------------------
(* Whatever the Guard lets through, the fold takes, unless a card or a     *)
(* capability expired between the check and its emission; a release never  *)
(* expires so, for it was checked for the end of its line.  A rejection    *)
(* ends the session (core/fold.py; guard/*.py).                            *)
FoldTakesTheChecked ==
    rejected # None =>
        /\ rejected.type \in {"approval.decided", "action.authorized"}
        /\ checked < rejected.ends /\ rejected.ends <= now

=============================================================================
