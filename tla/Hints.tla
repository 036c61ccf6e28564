------------------------------- MODULE Hints --------------------------------
(***************************************************************************)
(* The offers line of Slow's status bar (slow/hints.py; slow/prompt.py,    *)
(* status_bar): for each open offer the Guard's verdicts on it and the one *)
(* next step they imply, read off Slow's view of the blackboard, which     *)
(* holds no capabilities.  Nothing here changes state: an entry is a       *)
(* function of Authority's state and of a view v, what the bar reads that  *)
(* Authority does not hold.  Of several cheapest offers the code takes the *)
(* first recorded; here it may be any of them.                             *)
(***************************************************************************)
EXTENDS AuthorityConsent

CONSTANT Rest     \* the term and the fees each revision records

ASSUME RestAssumption == Rest \in [Refs \X (1..MaxRev) -> Nat \X Nat]

(* What the bar reads besides: the slots each offer records, whether the   *)
(* rep's read-back confirmed it, whether it was asked and is stuck, a lever*)
(* on its way and a lever left to try.  An offer is complete with every    *)
(* slot, and a confirmed one is.                                           *)
Slots == {"price", "term", "change"}

Shown == {r \in DOMAIN offers : offers[r].rev > 0}     \* view.offers

Views ==
    [sure : SUBSET {r \in Shown : offers[r].bound},
     have : {h \in [Shown -> SUBSET Slots] :
               \A r \in Shown : offers[r].complete => h[r] = Slots}]

-----------------------------------------------------------------------------
(* The Guard's verdicts, as the view lets them be asked. *)

(* _as_recorded: an unstated slot is neutral. *)
Seen(r, v) ==
    [TermsOf(r) EXCEPT !.price = IF "price" \in v.have[r] THEN @ ELSE 0,
                       !.change = IF "change" \in v.have[r] THEN @ ELSE "none"]

Open(r) == offers[r].status = "open" /\ offers[r].expires > now

Confirmed(r, v) == OpenOffer(r) /\ r \in v.sure

(* mandate_gap: "outside_mandate", of a mandate in force. *)
Outside(t) ==
    /\ mandate # None /\ mandate.status = "granted" /\ mandate.epoch = epoch
    /\ t.price > mandate.max

Decided(r, d) == \E a \in ThisEpoch(TermsHash(r)) : a.decision = d

(* Mutant: the dry run looks at the offer, not at the case. *)
DryAcceptAnywhere(r, v) ==
    /\ Confirmed(r, v) /\ ~Denied(TermsOf(r))
    /\ MandateCovers(TermsOf(r)) \/ Live(TermsOf(r)) # {}

(* accept_offer on _board, whose capabilities are empty: no accept is out, *)
(* none is in flight.                                                      *)
DryAccept(r, v) ==
    /\ status = "IN_CALL" /\ Confirmed(r, v)
    /\ ~Denied(TermsOf(r))
    /\ MandateCovers(TermsOf(r)) \/ Live(TermsOf(r)) # {}

Approved(r, v) == Decided(r, "granted") /\ DryAccept(r, v)

-----------------------------------------------------------------------------
(* better: the offer that comes before r, and why. *)

Priced(r, v) == {"price", "term"} \subseteq v.have[r]
Term(r) == Rest[<<r, offers[r].rev>>][1]
Fees(r) == Rest[<<r, offers[r].rev>>][2]

(* No worse on price, term and fees, and better on one. *)
Dominates(b, r, v) ==
    LET p == Seen(b, v).price  q == Seen(r, v).price
    IN  /\ p <= q /\ Term(b) <= Term(r) /\ Fees(b) <= Fees(r)
        /\ p # q \/ Term(b) # Term(r) \/ Fees(b) # Fees(r)

(* min over (price, term, fees). *)
Cheaper(b, r, v) ==
    LET p == Seen(b, v).price  q == Seen(r, v).price
    IN  \/ p < q
        \/ p = q /\ Term(b) < Term(r)
        \/ p = q /\ Term(b) = Term(r) /\ Fees(b) < Fees(r)

Inside(v) == {b \in Shown : /\ Open(b) /\ "price" \in v.have[b]
                            /\ ~HardViolations(Seen(b, v)) /\ MandateCovers(Seen(b, v))}

(* The cheapest open offers inside the mandate that the user did not deny. *)
Rivals(v) == {b \in Inside(v) : ~Decided(b, "denied")}
CheapestInside(v) ==
    {b \in Rivals(v) : \A x \in Rivals(v) : Seen(b, v).price <= Seen(x, v).price}

Beats(r, v) ==
    {b \in Shown \ {r} : /\ Open(b) /\ ~HardViolations(Seen(b, v))
                         /\ Priced(r, v) /\ Priced(b, v) /\ Dominates(b, r, v)}

(* Mutant: one inside the mandate defers too. *)
DefersInside(r, v) == Open(r) /\ ~Approved(r, v) /\ ~HardViolations(Seen(r, v))

(* An open offer outside the mandate, with no hard violation, not approved *)
Defers(r, v) ==
    /\ Open(r) /\ ~Approved(r, v)
    /\ ~HardViolations(Seen(r, v)) /\ Outside(Seen(r, v))

Better(r, v) ==
    IF ~Defers(r, v) THEN {}
    ELSE IF Rivals(v) # {} THEN {[offer |-> b, why |-> "inside"] : b \in CheapestInside(v)}
    ELSE {[offer |-> b, why |-> IF Decided(b, "denied") THEN "denied" ELSE "dominates"] :
            b \in {c \in Beats(r, v) : \A x \in Beats(r, v) : ~Cheaper(x, c, v)}}

-----------------------------------------------------------------------------
(* An entry's steps.  One that defers names no step of its own. *)

First(r, v) == Better(r, v) = {}

(* approval_hint: an offer the Guard would put on a card now. *)
MayAsk(r, v) == First(r, v) /\ Confirmed(r, v) /\ ~CardBlocks

(* No card and no decision for its terms in this epoch. *)
Undecided(r) ==
    /\ ThisEpoch(TermsHash(r)) = {}
    /\ ~(card # None /\ card.terms = TermsHash(r) /\ card.epoch = epoch)

NamesAccepted(r, v) == MayAsk(r, v) /\ Approved(r, v)

(* A lever first while one is left or unanswered, then request_approval. *)
NamesApproval(r, v) ==
    MayAsk(r, v) /\ ~Approved(r, v) /\ Undecided(r) /\ Outside(TermsOf(r))

(* mandate_hint: a lever, its read-back, then request_approval. *)
NamesReadback(r, v) ==
    /\ First(r, v) /\ Open(r) /\ fences = {} /\ r \notin v.sure
    /\ ~HardViolations(Seen(r, v)) /\ ~Decided(r, "denied") /\ Outside(Seen(r, v))

(* inside_hint: the cheapest one inside names its own read-back. *)
NamesInside(r, v) == First(r, v) /\ r \in CheapestInside(v) \ v.sure

(* defer_hint: a worse offer names accept_offer of the one inside, once it *)
(* is confirmed and the dry run passes.                                    *)
NamesBefore(r, v) ==
    /\ \E o \in Shown : [offer |-> r, why |-> "inside"] \in Better(o, v)
    /\ r \in v.sure /\ DryAccept(r, v)

NamesAccept(r, v) == NamesAccepted(r, v) \/ NamesBefore(r, v)

(* While a lever is left or on its way, these steps name it first. *)
NamesLever(r, v) == NamesApproval(r, v) \/ NamesReadback(r, v)

HasStep(r, v) == NamesAccepted(r, v) \/ NamesApproval(r, v) \/ NamesReadback(r, v)

(* needs_lever: whether the levers line has a step of its own. *)
NeedsLever(v) ==
    \E o \in Shown :
        /\ Open(o) /\ ~HardViolations(Seen(o, v)) /\ ~MandateCovers(Seen(o, v))
        /\ ~Approved(o, v) /\ First(o, v)

-----------------------------------------------------------------------------
(* Properties. *)

Accepted(r) == \E g \in Grants(TermsOf(r)) : MayAccept(r, g)

(* Until an accept went out, accept_offer is named only of an offer the    *)
(* Guard would accept, and its approval asked only of one it would not.    *)
StepsPass(v) ==
    \A r \in Shown :
        /\ Consumed = {} /\ NamesAccept(r, v) => Accepted(r)
        /\ NamesApproval(r, v) => ~Accepted(r)

(* The levers line has a step whenever an offer's entry waits for one. *)
LeversAgree(v) == (\E r \in Shown : NamesLever(r, v)) => NeedsLever(v)

(* Deferring ends: the offer that comes first defers to none, and it has a *)
(* step, unless a fence, a card or a decision stands in its way.  And no   *)
(* offer outside the mandate goes before one inside it.                    *)
DeferralsEnd(v) ==
  \A r \in Shown :
    /\ Defers(r, v) /\ Rivals(v) # {} => ~First(r, v)
    /\ \A b \in Better(r, v) :
        /\ First(b.offer, v)
        /\ b.why = "inside" => b.offer \in v.sure \/ NamesInside(b.offer, v)
        /\ b.why = "dominates" /\ fences = {} /\ ~CardBlocks /\ Undecided(b.offer)
             => HasStep(b.offer, v)

(* Of an offer's own hints at most one speaks (slow/hints.py, "one next    *)
(* step per state").                                                       *)
OneStep(v) ==
    \A r \in Shown :
        /\ ~(NamesReadback(r, v) /\ (NamesAccepted(r, v) \/ NamesApproval(r, v)))
        /\ ~(NamesInside(r, v) /\ HasStep(r, v))

(* The steps the offers line names agree with the Guard, with the levers   *)
(* line and with each other (slow/hints.py; slow/prompt.py, status_bar).   *)
HintsAgree ==
    \A v \in Views : StepsPass(v) /\ LeversAgree(v) /\ DeferralsEnd(v) /\ OneStep(v)

Rendered == slow = "idle" /\ slow' = "thinking"    \* the bar of a step

(* slow/hints.py:166-168, of _board: "The view holds no capabilities: an   *)
(* accept already authorised has moved the case out of IN_CALL, which the  *)
(* rule refuses first."  So what is named, the Guard accepts.  An accept   *)
(* cut by the rep returns the case to IN_CALL, and stays released.         *)
NamedAcceptPasses ==
    [][Rendered => (\A v \in Views, r \in Shown : NamesAccept(r, v) => Accepted(r))']_vars
=============================================================================
