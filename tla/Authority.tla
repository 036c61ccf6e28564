----------------------------- MODULE Authority -----------------------------
(***************************************************************************)
(* The life of an authority: offers, mandates, approval cards, the user's  *)
(* decisions, capabilities, the accept line and the case status, as the    *)
(* Guard decides them (guard/*.py), Slow's tools emit them                 *)
(* (slow/authority.py), the fold applies them (core/fold.py) and the       *)
(* kernel's Authority and Speaker carry them out (kernel/fence.py,         *)
(* kernel/speaker.py).                                                     *)
(*                                                                         *)
(* An action is what one asyncio task does between two awaits, every       *)
(* handler the bus calls inside it included.  Slow's tool calls run in one *)
(* such block after the model answered (slow/loop.py, step): each tool is  *)
(* an action of its own here, and no other task moves while Slow is        *)
(* "acting".  Which fences are up is this module's environment: Fence.tla  *)
(* models how they rise and clear.                                         *)
(***************************************************************************)
EXTENDS Integers, FiniteSets, Sequences, CaseStatus

CONSTANTS
    Refs,         \* offer references Slow may record
    Prices,       \* monthly prices, and the bounds a mandate puts on them
    Changes,      \* what an offer changes: a subset of AllChanges
    Lives,        \* lifetimes an offer may state; one may state none
    Confs,        \* confirmation ids the rep may say
    Lanes,        \* lanes whose partner may raise a fence
    MaxRev,       \* bound: revisions of one offer
    MaxEpoch,     \* bound: authority epochs
    MaxMandates,  \* bound: mandates Slow proposes
    MaxDecided,   \* bound: approvals the user decides; no card past it
    MaxPosts,     \* bound: posts waiting in the approvals queue
    Horizon,      \* bound: the clock's last instant
    CARD_TTL,     \* lifetime of a card without an offer expiry
    CAP_TTL,      \* lifetime of a capability without an offer expiry
    Speech,       \* time the accept line takes to say
    None          \* no value

AllChanges == {"none", "forbidden", "unsupported"}

ASSUME BoundsAssumption ==
    /\ Lanes \subseteq {"user", "cp"}
    /\ Prices \subseteq Nat /\ Lives \subseteq Nat /\ Changes \subseteq AllChanges
    /\ {MaxRev, MaxEpoch, MaxMandates, MaxDecided, MaxPosts, Horizon} \subseteq Nat
    /\ {CARD_TTL, CAP_TTL, Speech} \subseteq Nat \ {0}

(* An absent expiry: later than any instant an expiry is compared with. *)
Never == Horizon + Speech + 1

Min2(a, b) == IF a <= b THEN a ELSE b

(* What a terms_hash identifies: one revision of one offer. *)
Terms == [ref : Refs, rev : Nat, price : Nat, change : AllChanges]

Offer == [rev : Nat, price : Nat, change : AllChanges, complete : BOOLEAN,
          status : {"open", "declined"}, bound : BOOLEAN, expires : Nat]

(* An approval_id is made of the terms, the epoch and n. *)
Card == [terms : Terms, epoch : Nat, n : Nat, expires : Nat]

Approval == [terms : Terms, epoch : Nat, n : Nat, expires : Nat,
             decision : {"granted", "denied"}]

Mandate == [id : Nat, epoch : Nat, max : Nat, forbids : BOOLEAN,
            status : {"proposed", "granted", "denied"}]

(* The grant behind a capability: an approval of its terms, or a mandate. *)
By == [kind : {"approval", "mandate"}, epoch : Nat, n : Nat]

Capability == [terms : Terms, by : By, epoch : Nat, expires : Nat,
               consumed : BOOLEAN]

Post == [subject : {"approval", "mandate"}, terms : Terms \cup {None},
         epoch : Nat, n : Nat, decision : {"granted", "denied"}]

Evidence == [conf : Confs, terms : Terms \cup {None}]

ASSUME NoneAssumption == None \notin Terms \cup Card \cup Mandate

VARIABLES
    status,     \* bb.public.status
    epoch,      \* bb.epoch
    now,        \* the bus clock, in units of its own
    offers,     \* bb.public.offers; rev = 0: not recorded
    mandate,    \* bb.private.mandate
    mandates,   \* mandate ids used so far (Tools._mandates)
    card,       \* bb.private.pending_approval
    approvals,  \* bb.private.approvals
    caps,       \* bb.capabilities; a revoked one leaves it
    evidence,   \* bb.evidence
    fences,     \* lanes with a raised fence (bb.fences)
    posts,      \* the approvals queue (Authority.queue)
    timers,     \* cards with a running _expires task
    line,       \* the accept line's task (Speaker.verbatim)
    slow,       \* where the Slow loop is; "closing": finish succeeded in this step
    replan,     \* Authority._replan, against the running step's basis
    call,       \* the cp call: k.calls.opened, k.closed, the session's end
    consents    \* history: the mandates granted, at the epoch they grant in

userVars == <<mandate, mandates, card, approvals, posts, timers, consents>>
slowVars == <<slow, replan>>
vars == <<status, epoch, now, offers, caps, evidence, fences, line, call,
          userVars, slowVars>>

-----------------------------------------------------------------------------
(* What the Guard reads off the blackboard. *)

TermsOf(r) == [ref |-> r, rev |-> offers[r].rev, price |-> offers[r].price,
               change |-> offers[r].change]

(* offer.terms_hash: None until a read-back bound the terms. *)
TermsHash(r) == IF offers[r].bound THEN TermsOf(r) ELSE None

(* Constraints no approval can lift, for the mandate as it stands. *)
HardViolations(t) ==
    \/ t.change = "unsupported"
    \/ mandate # None /\ mandate.forbids /\ t.change = "forbidden"

(* open_offer: an open, unexpired offer, its terms bound, without hard     *)
(* violations.  Whether the rep's read-back confirmed it depends on the    *)
(* transcript: the tools that ask may find any bound offer confirmed or    *)
(* refuse it, which changes nothing.                                       *)
OpenOffer(r) ==
    /\ fences = {}
    /\ offers[r].rev > 0 /\ offers[r].status = "open"
    /\ offers[r].expires > now
    /\ offers[r].bound
    /\ ~HardViolations(TermsOf(r))

Consumed == {c \in caps : c.consumed}
InFlight == {c \in caps : ~c.consumed}
ReleasedAccept(t) == \E c \in Consumed : c.terms = t

(* current_card: the pending card, unless its offer moved on. *)
Current(c) == c # None /\ TermsHash(c.terms.ref) = c.terms

CardBlocks == Current(card) /\ card.epoch = epoch /\ card.expires > now

(* decided cards with the same stem: the n of the next approval_id *)
NextN(t) == Cardinality({a \in approvals : a.terms = t /\ a.epoch = epoch})

MandateCovers(t) ==
    /\ mandate # None /\ mandate.status = "granted" /\ mandate.epoch = epoch
    /\ t.price <= mandate.max

ThisEpoch(t) == {a \in approvals : a.terms = t /\ a.epoch = epoch}
Live(t) == {a \in ThisEpoch(t) : a.expires > now}
Denied(t) == \E a \in ThisEpoch(t) : a.decision = "denied"

(* Mutant: a mandate keeps granting after an accept went out. *)
GrantsAgain(t) ==
    IF Denied(t) THEN {}
    ELSE IF MandateCovers(t)
    THEN {[by |-> [kind |-> "mandate", epoch |-> 0, n |-> mandate.id],
           expires |-> Never]}
    ELSE {[by |-> [kind |-> "approval", epoch |-> a.epoch, n |-> a.n],
           expires |-> a.expires] :
             a \in {x \in Live(t) : \A y \in Live(t) : x.n <= y.n}}

(* _grant: the grants that may back an accept of t now, at most one: a    *)
(* denial first, then the mandate unless any accept went out, then the    *)
(* first live approval.                                                    *)
Grants(t) ==
    IF Denied(t) THEN {}
    ELSE IF MandateCovers(t) /\ Consumed = {}
    THEN {[by |-> [kind |-> "mandate", epoch |-> 0, n |-> mandate.id],
           expires |-> Never]}
    ELSE {[by |-> [kind |-> "approval", epoch |-> a.epoch, n |-> a.n],
           expires |-> a.expires] :
             a \in {x \in Live(t) : \A y \in Live(t) : x.n <= y.n}}

(* Mutant: terms already accepted may be accepted again. *)
MayAcceptAgain(r, g) ==
    /\ status = "IN_CALL" /\ OpenOffer(r) /\ g \in Grants(TermsOf(r))
    /\ ~ \E c \in caps : c.terms = TermsOf(r) /\ c.by = g.by
    /\ InFlight = {}

(* Mutant: a closed case is not refused. *)
MayAcceptClosed(r, g) ==
    /\ status \in {"IN_CALL"} \cup TERMINAL
    /\ OpenOffer(r) /\ ~ReleasedAccept(TermsOf(r)) /\ g \in Grants(TermsOf(r))
    /\ ~ \E c \in caps : c.terms = TermsOf(r) /\ c.by = g.by
    /\ InFlight = {}

(* accept_offer up to the grant; its business action id is new. *)
MayAccept(r, g) ==
    /\ status = "IN_CALL"
    /\ OpenOffer(r)
    /\ ~ReleasedAccept(TermsOf(r))
    /\ g \in Grants(TermsOf(r))
    /\ ~ \E c \in caps : c.terms = TermsOf(r) /\ c.by = g.by
    /\ InFlight = {}

(* revalidate of capability c for a line that ends at the given instant. *)
Revalidate(c, end) ==
    IF c.epoch # epoch THEN "epoch"
    ELSE IF fences # {} THEN "fence"
    ELSE IF offers[c.terms.ref].status # "open" THEN "offer_closed"
    ELSE IF TermsHash(c.terms.ref) # c.terms THEN "terms_changed"
    ELSE IF Min2(c.expires, offers[c.terms.ref].expires) <= end THEN "expired"
    ELSE "ok"

-----------------------------------------------------------------------------
(* Kernel moves shared by several handlers. *)

(* Authority.move, and the replan its status.changed arms. *)
Move(trigger) ==
    /\ status' = NextStatus(status, trigger)
    /\ replan' = IF status' = "NEEDS_REPLAN" /\ status # "NEEDS_REPLAN"
                 THEN "unseen" ELSE replan

(* Mutant: the pending card of an older epoch is forgotten. *)
BumpEpochOnly ==
    /\ epoch < MaxEpoch
    /\ epoch' = epoch + 1
    /\ UNCHANGED <<status, replan>>

(* authority.epoch: every older grant is stale; a pending card too. *)
BumpEpoch ==
    /\ epoch < MaxEpoch
    /\ epoch' = epoch + 1
    /\ IF card # None /\ card.epoch < epoch + 1
       THEN Move("approval_stale") ELSE UNCHANGED <<status, replan>>

(* readback: the terms hash of each open offer whose terms are complete. *)
Readback ==
    offers' = [r \in Refs |->
        IF offers[r].rev > 0 /\ offers[r].status = "open"
        THEN [offers[r] EXCEPT !.bound = offers[r].complete] ELSE offers[r]]

Running == call # "ended"
Acting == Running /\ slow \in {"acting", "closing"}   \* Slow's tools may run
Others == Running /\ slow \notin {"acting", "closing"}  \* another task may step
Lasts(ttl) == now + ttl <= Horizon     \* bound: the clock reaches the expiry

-----------------------------------------------------------------------------
(* The Slow loop: a step reads the blackboard, waits for the model, then   *)
(* runs the tool calls of its answer and completes (slow/loop.py, step).   *)

Init ==
    /\ status = "INTAKE" /\ epoch = 0 /\ now = 0
    /\ offers = [r \in Refs |-> [rev |-> 0, price |-> 0, change |-> "none",
                   complete |-> FALSE, status |-> "open", bound |-> FALSE,
                   expires |-> Never]]
    /\ mandate = None /\ mandates = 0 /\ card = None /\ approvals = {}
    /\ caps = {} /\ evidence = {} /\ fences = {} /\ posts = <<>> /\ timers = {}
    /\ line = "none" /\ slow = "idle" /\ replan = "none"
    /\ call = "none" /\ consents = {}

(* Mutant: the step does not take note of the replan it sees. *)
StepStartedBlind ==
    /\ Others /\ slow = "idle"
    /\ Readback
    /\ slow' = "thinking"
    /\ UNCHANGED <<status, epoch, now, caps, evidence, fences, line, call, userVars,
                   replan>>

StepStarted ==
    /\ Others /\ slow = "idle"
    /\ Readback
    /\ slow' = "thinking"
    /\ replan' = IF replan = "unseen" THEN "seen" ELSE replan
    /\ UNCHANGED <<status, epoch, now, caps, evidence, fences, line, call, userVars>>

(* The model answered: an act call begins, with a read-back of its own;   *)
(* the answer may hold several act calls.                                  *)
Act ==
    /\ Running /\ slow \in {"thinking", "acting", "closing"}
    /\ Readback
    /\ slow' = IF slow = "thinking" THEN "acting" ELSE slow
    /\ UNCHANGED <<status, epoch, now, caps, evidence, fences, line, call,
                   userVars, replan>>

(* slow.step.completed: fences the step's basis covers clear; a replan it  *)
(* saw returns the case to the call, unless Slow escalated it.             *)
StepCompleted ==
    /\ Acting
    /\ \E covered \in SUBSET fences : fences' = fences \ covered
    /\ slow' = IF slow = "closing" THEN "done" ELSE "idle"
    /\ IF replan = "seen"
       THEN /\ status' = NextStatus(status, "replan")
            /\ replan' = "none"
       ELSE UNCHANGED <<status, replan>>
    /\ UNCHANGED <<epoch, now, offers, caps, evidence, line, call, userVars>>

(* record_offer: a new revision, open, its terms unbound.  Terms equal to  *)
(* those of the open revision record nothing.                              *)
RecordOffer(r) ==
    /\ Acting /\ offers[r].rev < MaxRev
    /\ \E p \in Prices, ch \in Changes, whole \in BOOLEAN,
          e \in {now + d : d \in Lives} \cup {Never} :
          offers' = [offers EXCEPT ![r] =
              [rev |-> offers[r].rev + 1, price |-> p, change |-> ch,
               complete |-> whole, status |-> "open", bound |-> FALSE,
               expires |-> e]]
    /\ UNCHANGED <<status, epoch, now, caps, evidence, fences, line, call,
                   userVars, slowVars>>

(* decline_offer: allowed under a fence and in any epoch. *)
DeclineOffer(r) ==
    /\ Acting /\ offers[r].rev > 0 /\ offers[r].status = "open"
    /\ offers' = [offers EXCEPT ![r].status = "declined"]
    /\ UNCHANGED <<status, epoch, now, caps, evidence, fences, line, call,
                   userVars, slowVars>>

(* request_approval: a card bound to the terms and the epoch, its expiry   *)
(* timer, and the status move, which only IN_CALL makes.                   *)
RequestApproval(r) ==
    /\ Acting /\ OpenOffer(r) /\ ~CardBlocks
    /\ Lasts(CARD_TTL) /\ Cardinality(approvals) < MaxDecided
    /\ card' = [terms |-> TermsOf(r), epoch |-> epoch, n |-> NextN(TermsOf(r)),
                expires |-> Min2(offers[r].expires, now + CARD_TTL)]
    /\ timers' = timers \cup {card'}
    /\ Move("approval_requested")
    /\ UNCHANGED <<epoch, now, offers, caps, evidence, fences, line, call,
                   mandate, mandates, approvals, posts, consents, slow>>

(* accept_offer: the capability, the queued accept line holding it, the    *)
(* status, and a fence if a rep line is not covered yet (_minted).         *)
AcceptOffer(r) ==
    /\ Acting
    /\ \E g \in Grants(TermsOf(r)) :
        LET grantEnds == Min2(g.expires, offers[r].expires) IN
        /\ MayAccept(r, g)
        /\ grantEnds <= Horizon \/ Lasts(CAP_TTL)
        /\ caps' = caps \cup
             {[terms |-> TermsOf(r), by |-> g.by, epoch |-> epoch,
               expires |-> Min2(grantEnds, now + CAP_TTL), consumed |-> FALSE]}
    /\ line' = "queued"
    /\ fences' \in {fences, fences \cup (IF call = "open" THEN Lanes \cap {"cp"} ELSE {})}
    /\ Move("accept_authorized")
    /\ UNCHANGED <<epoch, now, offers, evidence, call, userVars, slow>>

(* propose_mandate: any envelope, in force of nothing until decided; it   *)
(* replaces the mandate on the blackboard.                                 *)
ProposeMandate ==
    /\ Acting /\ mandates < MaxMandates
    /\ \E p \in Prices, f \in BOOLEAN :
        mandate' = [id |-> mandates + 1, epoch |-> epoch, max |-> p,
                    forbids |-> f, status |-> "proposed"]
    /\ mandates' = mandates + 1
    /\ UNCHANGED <<status, epoch, now, offers, caps, evidence, fences, line, call,
                   card, approvals, posts, timers, consents, slowVars>>

(* tighten_mandate: a new epoch, and the tighter mandate proposed in it. *)
TightenMandate ==
    /\ Acting /\ mandates < MaxMandates
    /\ mandate # None /\ mandate.status # "denied"
    /\ BumpEpoch
    /\ \E p \in {q \in Prices : q <= mandate.max}, f \in BOOLEAN :
        /\ mandate.forbids => f
        /\ mandate' = [id |-> mandates + 1, epoch |-> epoch + 1, max |-> p,
                       forbids |-> f, status |-> "proposed"]
    /\ mandates' = mandates + 1
    /\ UNCHANGED <<now, offers, caps, evidence, fences, line, call, card,
                   approvals, posts, timers, consents, slow>>

(* revoke: restrict only, always allowed. *)
Revoke ==
    /\ Acting /\ BumpEpoch
    /\ UNCHANGED <<now, offers, caps, evidence, fences, line, call, userVars, slow>>

(* check_account: the ledger's binding of a confirmation id, hashed as the *)
(* one accepted revision, if it is still the offer's; recorded once.       *)
CheckAccount(conf) ==
    /\ Acting /\ call # "none"
    /\ \/ \E e \in evidence : e.conf = conf /\ evidence' = evidence
       \/ /\ \A e \in evidence : e.conf # conf
          /\ \E t \in {None} \cup {c.terms : c \in {d \in Consumed :
                          Consumed = {d} /\ TermsHash(d.terms.ref) = d.terms}} :
                evidence' = evidence \cup {[conf |-> conf, terms |-> t]}
    /\ Move("evidence_recorded")
    /\ UNCHANGED <<epoch, now, offers, caps, fences, line, call, userVars, slow>>

(* verify_completion: exactly one released accept, evidence bound to its   *)
(* terms, those terms still known and without a hard violation.            *)
VerifyCompletion ==
    \E c \in Consumed :
        /\ Consumed = {c}
        /\ \E e \in evidence : e.terms = c.terms
        /\ TermsHash(c.terms.ref) = c.terms
        /\ ~HardViolations(c.terms)

(* Mutant: a released accept is not looked for. *)
VerifyNoDealOpen ==
    \A r \in Refs : offers[r].rev > 0 =>
        \/ offers[r].status = "declined"
        \/ \E a \in approvals : a.decision = "denied" /\ TermsHash(r) = a.terms
        \/ offers[r].complete /\ HardViolations(TermsOf(r))

(* verify_no_deal: every offer declined, denied or violating, and no       *)
(* accept released (the rep's closing reply is the environment's).         *)
VerifyNoDeal ==
    /\ \A r \in Refs : offers[r].rev > 0 =>
        \/ offers[r].status = "declined"
        \/ \E a \in approvals : a.decision = "denied" /\ TermsHash(r) = a.terms
        \/ offers[r].complete /\ HardViolations(TermsOf(r))
    /\ Consumed = {}

Finish(trigger, verified) ==
    /\ Acting /\ MayMove(status, trigger) /\ verified
    /\ Move(trigger)
    /\ slow' = IF trigger = "completion_fail" THEN slow ELSE "closing"
    /\ UNCHANGED <<epoch, now, offers, caps, evidence, fences, line, call, userVars>>

FinishCompleted == \/ Finish("completion_ok", VerifyCompletion)
                   \/ Finish("completion_fail", ~VerifyCompletion)
FinishNoDeal == Finish("no_deal_verified", VerifyNoDeal)
FinishInfoOnly == Finish("info_only", TRUE)
(* While COMMITTED it is refused until the rep answered without a          *)
(* confirmation id: the answer is the environment's.                       *)
FinishEscalate == Finish("escalate", TRUE)

-----------------------------------------------------------------------------
(* The user: a decision posted for the card or mandate shown, queued.      *)
UserPosts ==
    /\ Others /\ Len(posts) < MaxPosts
    /\ \E d \in {"granted", "denied"} :
        \/ /\ card # None
           /\ posts' = Append(posts, [subject |-> "approval", terms |-> card.terms,
                                      epoch |-> card.epoch, n |-> card.n,
                                      decision |-> d])
        \/ /\ mandate # None /\ mandate.status = "proposed"
           /\ posts' = Append(posts, [subject |-> "mandate", terms |-> None,
                                      epoch |-> mandate.epoch, n |-> mandate.id,
                                      decision |-> d])
    /\ UNCHANGED <<status, epoch, now, offers, caps, evidence, fences, line, call,
                   mandate, mandates, card, approvals, timers, consents, slowVars>>

(* decide, for a mandate: the proposal the post names, in this epoch. *)
MayDecideMandate(p) ==
    /\ p.subject = "mandate" /\ mandate # None
    /\ mandate.id = p.n /\ mandate.status = "proposed"
    /\ p.epoch = mandate.epoch /\ mandate.epoch = epoch

SameId(a, p) == a.terms = p.terms /\ a.epoch = p.epoch /\ a.n = p.n

(* decide, for a card: pending, current, of this epoch and unexpired. *)
MayDecideCard(p) ==
    /\ p.subject = "approval"
    /\ ~ \E a \in approvals : SameId(a, p)
    /\ card # None /\ SameId(card, p)
    /\ Current(card) /\ card.epoch = epoch /\ card.expires > now

(* A post the Guard refuses: action.denied, and Slow is woken. *)
RefusePost ==
    /\ Others /\ posts # <<>>
    /\ ~MayDecideMandate(Head(posts)) /\ ~MayDecideCard(Head(posts))
    /\ posts' = Tail(posts)
    /\ UNCHANGED <<status, epoch, now, offers, caps, evidence, fences, line, call,
                   mandate, mandates, card, approvals, timers, consents, slow, replan>>

(* approval.decided: the card becomes an approval with the card's expiry. *)
DecideCard ==
    /\ Others /\ posts # <<>> /\ MayDecideCard(Head(posts))
    /\ approvals' = approvals \cup
         {[terms |-> card.terms, epoch |-> card.epoch, n |-> card.n,
           expires |-> card.expires, decision |-> Head(posts).decision]}
    /\ card' = None /\ posts' = Tail(posts)
    /\ Move("approval_decided")
    /\ UNCHANGED <<epoch, now, offers, caps, evidence, fences, line, call,
                   mandate, mandates, timers, consents, slow>>

(* mandate.decided, then a new epoch the decided mandate carries, then the *)
(* status move of a grant.  Grant or denial, older grants are stale.       *)
DecideMandate ==
    /\ Others /\ posts # <<>> /\ MayDecideMandate(Head(posts))
    /\ LET d == Head(posts).decision IN
       /\ mandate' = [mandate EXCEPT !.status = d, !.epoch = epoch + 1]
       /\ consents' = IF d = "granted" THEN consents \cup {mandate'} ELSE consents
       /\ epoch < MaxEpoch /\ epoch' = epoch + 1
       /\ LET stale == IF card # None /\ card.epoch < epoch + 1
                       THEN NextStatus(status, "approval_stale") ELSE status IN
          /\ status' = IF d = "granted" THEN NextStatus(stale, "mandate_granted")
                       ELSE stale
          /\ replan' = IF stale = "NEEDS_REPLAN" /\ status # stale
                       THEN "unseen" ELSE replan
    /\ posts' = Tail(posts)
    /\ UNCHANGED <<now, offers, caps, evidence, fences, line, call, mandates,
                   card, approvals, timers, slow>>

(* Mutant: the timer compares the card's id, not the card. *)
CardExpiresById ==
    /\ Others
    /\ \E c \in timers :
        /\ c.expires <= now
        /\ timers' = timers \ {c}
        /\ IF card # None /\ SameId(card, c)
           THEN Move("approval_expired") ELSE UNCHANGED <<status, replan>>
    /\ UNCHANGED <<epoch, now, offers, caps, evidence, fences, line, call,
                   mandate, mandates, card, approvals, posts, consents, slow>>

(* Mutant: an expired card replans nothing. *)
CardExpiresQuietly ==
    /\ Others
    /\ \E c \in timers : c.expires <= now /\ timers' = timers \ {c}
    /\ UNCHANGED <<status, replan, epoch, now, offers, caps, evidence, fences, line,
                   call, mandate, mandates, card, approvals, posts, consents, slow>>

(* _expires: the timer of a card, which replans the case if that very card *)
(* is still pending.                                                       *)
CardExpires ==
    /\ Others
    /\ \E c \in timers :
        /\ c.expires <= now
        /\ timers' = timers \ {c}
        /\ IF card = c THEN Move("approval_expired") ELSE UNCHANGED <<status, replan>>
    /\ UNCHANGED <<epoch, now, offers, caps, evidence, fences, line, call,
                   mandate, mandates, card, approvals, posts, consents, slow>>

-----------------------------------------------------------------------------
(* The conversations, the Speaker and the clock. *)

(* _call: the one call; MANDATED or INTAKE becomes IN_CALL. *)
CallOpened ==
    /\ Others /\ call = "none" /\ call' = "open"
    /\ Move("call_opened")
    /\ UNCHANGED <<epoch, now, offers, caps, evidence, fences, line, userVars, slow>>

(* user.msg: its fence rises at once; a line waiting on partner fences     *)
(* will see that a user fence rose since.                                  *)
UserMsg ==
    /\ Others /\ "user" \in Lanes /\ fences' = fences \cup {"user"}
    /\ line' = IF line = "waiting" THEN "rose" ELSE line
    /\ UNCHANGED <<status, epoch, now, offers, caps, evidence, call, userVars,
                   slow, replan>>

(* utt.final of the rep: a fence if an accept is in flight (_rep_line). *)
RepLine ==
    /\ Others /\ call = "open" /\ "cp" \in Lanes
    /\ fences' = IF InFlight # {} THEN fences \cup {"cp"} ELSE fences
    /\ UNCHANGED <<status, epoch, now, offers, caps, evidence, line, call,
                   userVars, slow, replan>>

(* f2s.msg REVOKE: a Fast relay stales every grant at once. *)
FastRevoke ==
    /\ Others /\ BumpEpoch
    /\ UNCHANGED <<now, offers, caps, evidence, fences, line, call, userVars, slow>>

(* chan.closed: the rep ended the call; unbound cp fences clear. *)
CallClosed ==
    /\ Others /\ call = "open" /\ call' = "closed"
    /\ fences' \in {fences, fences \ {"cp"}}
    /\ UNCHANGED <<status, epoch, now, offers, caps, evidence, line, userVars,
                   slow, replan>>

(* The rep hangs up: ABANDONED if its turn left an event, and the session  *)
(* ends.                                                                   *)
HangUp ==
    /\ Others /\ call = "open" /\ call' = "ended"
    /\ \/ Move("hang_up")
       \/ UNCHANGED <<status, replan>>
    /\ UNCHANGED <<epoch, now, offers, caps, evidence, fences, line, userVars, slow>>

(* The session ends: Slow's finish drained, a person quit, an endpoint     *)
(* died, Slow's deadline (CALL_S) or the budget passed.                    *)
SessionEnds ==
    /\ Others /\ call' = "ended"
    /\ UNCHANGED <<status, epoch, now, offers, caps, evidence, fences, line,
                   userVars, slowVars>>

(* Mutant: a line held by partner fences ignores its capability's expiry. *)
VerdictPatient(c) ==
    LET end == now + Speech
        why == IF call = "closed" THEN "call_closed" ELSE Revalidate(c, end)
    IN  IF why \in {"ok", "fence"} /\ line = "rose" THEN "fence"
        ELSE IF why # "fence" \/ fences # {"cp"} THEN why ELSE "wait"

(* _floor_revalidated, on the floor: why the line may not go out, "ok" if  *)
(* it may, "wait" if only partner fences hold it.                          *)
Verdict(c) ==
    LET end == now + Speech
        why == IF call = "closed" THEN "call_closed" ELSE Revalidate(c, end)
    IN  IF why \in {"ok", "fence"} /\ line = "rose" THEN "fence"
        ELSE IF why # "fence" \/ fences # {"cp"} THEN why
        ELSE IF c.expires <= end THEN "expired" ELSE "wait"

OnFloor == Others /\ line \in {"queued", "waiting", "rose"}

FenceWait ==
    /\ OnFloor /\ \E c \in InFlight : Verdict(c) = "wait"
    /\ line' = "waiting"
    /\ UNCHANGED <<status, epoch, now, offers, caps, evidence, fences, call,
                   userVars, slowVars>>

(* speak.released: the capability is consumed and the line is being said. *)
Release ==
    /\ OnFloor
    /\ \E c \in InFlight :
        /\ Verdict(c) = "ok"
        /\ caps' = (caps \ {c}) \cup {[c EXCEPT !.consumed = TRUE]}
    /\ line' = "speaking"
    /\ UNCHANGED <<status, epoch, now, offers, evidence, fences, call, userVars,
                   slowVars>>

(* Mutant: the revoked line leaves the status as it was. *)
RevokedQuietly ==
    /\ OnFloor
    /\ \E c \in InFlight :
        /\ Verdict(c) \notin {"ok", "wait"}
        /\ caps' = caps \ {c}
    /\ line' = "none"
    /\ UNCHANGED <<status, replan, epoch, now, offers, evidence, fences, call,
                   userVars, slow>>

(* speak.revoked: the capability leaves the blackboard; the case replans. *)
Revoked ==
    /\ OnFloor
    /\ \E c \in InFlight :
        /\ Verdict(c) \notin {"ok", "wait"}
        /\ caps' = caps \ {c}
    /\ line' = "none" /\ Move("accept_revoked")
    /\ UNCHANGED <<epoch, now, offers, evidence, fences, call, userVars, slow>>

(* utt.delivered: heard whole, or cut by the rep. *)
Delivered ==
    /\ Others /\ line = "speaking" /\ line' = "none"
    /\ \/ Move("accept_heard")
       \/ Move("accept_truncated")
    /\ UNCHANGED <<epoch, now, offers, caps, evidence, fences, call, userVars, slow>>

Tick ==
    /\ Others /\ now < Horizon /\ now' = now + 1
    /\ UNCHANGED <<status, epoch, offers, caps, evidence, fences, line, call,
                   userVars, slowVars>>

-----------------------------------------------------------------------------
SlowTool ==
    \/ \E r \in Refs : RecordOffer(r) \/ DeclineOffer(r) \/ RequestApproval(r)
                         \/ AcceptOffer(r)
    \/ \E conf \in Confs : CheckAccount(conf)
    \/ ProposeMandate \/ TightenMandate \/ Revoke
    \/ FinishCompleted \/ FinishNoDeal \/ FinishInfoOnly \/ FinishEscalate

Next ==
    \/ StepStarted \/ Act \/ StepCompleted \/ SlowTool
    \/ UserPosts \/ RefusePost \/ DecideCard \/ DecideMandate \/ CardExpires
    \/ CallOpened \/ UserMsg \/ RepLine \/ FastRevoke \/ CallClosed \/ HangUp
    \/ SessionEnds
    \/ FenceWait \/ Release \/ Revoked \/ Delivered \/ Tick

Spec == Init /\ [][Next]_vars

-----------------------------------------------------------------------------
(* Properties. *)

(* Every variable holds a value its counterpart in the code can hold. *)
TypeOK ==
    /\ status \in Statuses /\ epoch \in Nat /\ now \in Nat
    /\ offers \in [Refs -> Offer]
    /\ mandate \in Mandate \cup {None} /\ mandates \in Nat
    /\ card \in Card \cup {None}
    /\ approvals \subseteq Approval /\ IsFiniteSet(approvals)
    /\ caps \subseteq Capability
    /\ evidence \subseteq Evidence
    /\ fences \subseteq {"user", "cp"}
    /\ posts \in Seq(Post)
    /\ timers \subseteq Card
    /\ line \in {"none", "queued", "waiting", "rose", "speaking"}
    /\ slow \in {"idle", "thinking", "acting", "closing", "done"}
    /\ replan \in {"none", "unseen", "seen"}
    /\ call \in {"none", "open", "closed", "ended"}
    /\ consents \subseteq Mandate

(* One accept is in flight at a time and no terms are accepted twice,      *)
(* released or about to be: accept_offer's refusals hold up over revoked,  *)
(* cut and retried accepts (guard/capability.py, released_accept).         *)
AcceptOnce ==
    /\ \A c, d \in InFlight : c = d
    /\ \A c, d \in caps : c.terms = d.terms => c = d

(* COMMIT_AUTHORIZED is exactly the time an accept line is on its way: its *)
(* capability is live until it is released, and no path leaves a line      *)
(* without the status or the status without a line (ABANDONED apart, which *)
(* ends the session).                                                      *)
CommitTracksLine ==
    /\ line # "none" => status \in {"COMMIT_AUTHORIZED", "ABANDONED"}
    /\ status = "COMMIT_AUTHORIZED" => line # "none"
    /\ (InFlight # {}) <=> (line \in {"queued", "waiting", "rose"})
    /\ line = "speaking" => Consumed # {}

(* A case that awaits the user holds a card of its own epoch with a timer  *)
(* running: nothing takes the card away and leaves the case waiting        *)
(* (S1-SYS-38, kernel/fence.py, approval_stale and approval_expired).      *)
AwaitingHasCard ==
    status = "AWAITING_APPROVAL" =>
        card # None /\ card.epoch = epoch /\ card \in timers

(* An outcome agrees with what went out on the phone: complete with one    *)
(* released accept and evidence of its terms, no deal with none.           *)
OutcomeTruthful ==
    /\ status \in {"COMMITTED", "EVIDENCE_PENDING"} => Consumed # {} /\ line = "none"
    /\ status = "VERIFIED_COMPLETE" =>
         \E c \in Consumed : /\ Consumed = {c}
                             /\ \E e \in evidence : e.terms = c.terms
    /\ status = "VERIFIED_NO_DEAL" => caps = {}

(* A closed case stays closed, and no accept goes out for it, whatever     *)
(* Slow's last act still calls after its finish.                           *)
ClosedStaysClosed ==
    [][(status \in TERMINAL) => (status' = status /\ Consumed' = Consumed)]_vars

(* A timer replans only the case of the very card it was started for: card *)
(* ids repeat, so an older timer may meet a newer card of its own id.      *)
ReplanOnlyWhenDue ==
    [][status = "AWAITING_APPROVAL" /\ status' = "NEEDS_REPLAN"
         => epoch' > epoch \/ card.expires <= now]_vars

(* "A user's denial of these terms in this epoch wins over both, whatever  *)
(* its expiry" (guard/authorize.py:195): no accept goes out for terms the  *)
(* user denied in this epoch.                                              *)
DenialWins ==
    [][\A c \in Consumed' \ Consumed : ~Denied(c.terms)]_vars
=============================================================================
