------------------------------ MODULE Readback ------------------------------
(***************************************************************************)
(* When the Guard takes an offer's terms for read back: from the rep's     *)
(* lines and the read-back requests the rep heard (guard/readback.py,      *)
(* slow/tools.py, slow/offer_slots.py; docs/decisions/0020).  A rep line   *)
(* is one clause, the values it states per field: reading them off its     *)
(* words is not modelled.  An offer has a price and either a fee or the    *)
(* statement that there is none; the term and the applied changes are as   *)
(* these.  One cp call.                                                    *)
(***************************************************************************)
EXTENDS Integers, Sequences, FiniteSets, FiniteSetsExt

CONSTANTS
    Refs,      \* offers
    Cited,     \* those a read-back request may cite
    Saids,     \* what a rep line may state: field -> set of values
    Forms,     \* the sets of fields Slow may record
    MaxRevs,   \* bound: revisions, of all offers
    MaxAsks,   \* bound: read-back requests
    MaxLines   \* bound: rep lines

VARIABLES
    lines,    \* the cp transcript, the rep's lines
    offers,   \* ref -> [rev, terms, open, confirmed]; terms: field -> value
    asks,     \* readback_asks: [cited, at]; at is the rep lines before it was heard
    acting    \* an act of Slow's runs, with no await

vars == <<lines, offers, asks, acting>>

Fields == {"price", "fee", "fees_none"}
Unheard == -1
Empty == [f \in {} |-> ""]

Init ==
    /\ lines = <<>> /\ asks = <<>> /\ acting = FALSE
    /\ offers = [r \in Refs |-> [rev |-> 0, terms |-> Empty, open |-> FALSE, confirmed |-> {}]]

-----------------------------------------------------------------------------
(* The Guard (guard/readback.py). *)

(* The lines that state f, from line n on, or before it.                   *)
Since(f, n) == {i \in n + 1..Len(lines) : lines[i][f] # {}}
Before(f, n) == {i \in 1..n : lines[i][f] # {}}

(* _status: once asked for this revision a line says the value, and so do  *)
(* all after it.                                                           *)
Strict(want, f, at) ==
    LET exact == {i \in Since(f, at) : lines[i][f] = {want}}
    IN  exact # {} /\ \A i \in Since(f, at) : i >= Min(exact) => i \in exact

(* missing_required. *)
Complete(terms) ==
    "price" \in DOMAIN terms /\ DOMAIN terms \cap {"fee", "fees_none"} # {}

(* _implied: a listed fee denies that there is none.                       *)
Implied(terms) ==
    IF "fee" \in DOMAIN terms /\ "fees_none" \notin DOMAIN terms
    THEN {<<"fees_none", "false">>} ELSE {}

(* _theirs: a price or a fee that another recorded offer has.              *)
Theirs(said, f, ref) ==
    /\ f # "fees_none"
    /\ \E o \in Refs \ {ref} :
          f \in DOMAIN offers[o].terms /\ said = {offers[o].terms[f]}

Mine(want, f, n, ref) ==
    {i \in Before(f, n) : lines[i][f] = {want} \/ ~Theirs(lines[i][f], f, ref)}

(* _unchanged, W2': the asked revision's fields have the same values. *)
Unchanged(asked, terms) ==
    \A f \in DOMAIN asked \cap DOMAIN terms : asked[f] = terms[f]

(* _anchors. *)
Stable(terms, at) ==                                             \* W1
    /\ \A f \in DOMAIN terms : \A i \in Since(f, at) : lines[i][f] = {terms[f]}
    /\ \A w \in Implied(terms) : \A i \in Since(w[1], at) : lines[i][w[1]] = {w[2]}
NoChangeAcross(terms, at, ref) ==                                \* W2
    \A f \in DOMAIN terms :
        LET mine == Mine(terms[f], f, at, ref)
        IN  mine # {} => lines[Max(mine)][f] = {terms[f]}
Together(terms, at) ==                                           \* W3
    /\ \A f \in DOMAIN terms : Since(f, at) # {}
    /\ LET top == Max({Min(Since(f, at)) : f \in DOMAIN terms})
       IN  \A f \in DOMAIN terms : Max(Since(f, at)) >= top

(* Mutant: a change across the ask goes unseen. *)
AnchorsAnyhow(terms, at, ref) == Together(terms, at) /\ Stable(terms, at)

Anchors(terms, at, ref) ==
    Together(terms, at) /\ Stable(terms, at) /\ NoChangeAcross(terms, at, ref)

(* The requests for ref the rep heard (_windows, asked).                   *)
HeardAsks(ref) == {k \in DOMAIN asks : asks[k].at # Unheard /\ ref \in DOMAIN asks[k].cited}
Own(ref) == {k \in HeardAsks(ref) : asks[k].cited[ref].rev = offers[ref].rev}

(* slot_statuses: those confirmed.  One request confirms every slot, or the *)
(* first one for this revision each slot by itself.                        *)
Confirmed(ref) ==
    LET terms == offers[ref].terms
        window ==
            /\ Complete(terms)
            /\ \E k \in HeardAsks(ref) :
                 /\ asks[k].cited[ref].open
                 /\ Unchanged(asks[k].cited[ref].terms, terms)
                 /\ Anchors(terms, asks[k].at, ref)
        first == Min({asks[k].at : k \in Own(ref)})
    IN  IF window THEN DOMAIN terms
        ELSE IF Own(ref) = {} THEN {}
        ELSE {f \in DOMAIN terms : Strict(terms[f], f, first)}

-----------------------------------------------------------------------------
(* Slow's act (slow/tools.py): readback() first, then its calls. *)

ActBegins ==
    /\ ~acting /\ acting' = TRUE
    /\ offers' = [r \in Refs |->
                    IF ~offers[r].open THEN offers[r]
                    ELSE [offers[r] EXCEPT !.confirmed = Confirmed(r)]]
    /\ UNCHANGED <<lines, asks>>

ActEnds == acting /\ acting' = FALSE /\ UNCHANGED <<lines, offers, asks>>

(* record_offer takes an amount that a rep line said; a flag cites any.    *)
Values(f) == IF f = "fees_none" /\ lines # <<>> THEN {"true"}
             ELSE UNION {lines[i][f] : i \in DOMAIN lines} \ {"none", "true", "false"}
Recordable(form) == {t \in [form -> UNION {Values(f) : f \in form}] :
                        \A f \in form : t[f] \in Values(f)}

Revisions == MapThenSumSet(LAMBDA r : offers[r].rev, Refs)

(* The same terms of an open offer: nothing changes.  Else a new revision,  *)
(* nothing of it confirmed.                                                *)
RecordOffer(ref) ==
    /\ acting /\ Revisions < MaxRevs
    /\ \E form \in Forms : \E t \in Recordable(form) :
        /\ ~(offers[ref].open /\ offers[ref].terms = t)
        /\ offers' = [offers EXCEPT ![ref] = [rev |-> @.rev + 1, terms |-> t,
                                              open |-> TRUE, confirmed |-> {}]]
    /\ UNCHANGED <<lines, asks, acting>>

(* decline_offer: its line is queued, and the fold declines the offer. *)
DeclineOffer(ref) ==
    /\ acting /\ offers[ref].open
    /\ offers' = [offers EXCEPT ![ref].open = FALSE]
    /\ UNCHANGED <<lines, asks, acting>>

(* guide_fast(ask_readback) for recorded offers (_asked).                  *)
AskReadback ==
    /\ acting /\ Len(asks) < MaxAsks
    /\ \E cited \in SUBSET {r \in Cited : offers[r].rev > 0} \ {{}} :
        asks' = Append(asks, [at |-> Unheard,
            cited |-> [r \in cited |-> [rev |-> offers[r].rev, terms |-> offers[r].terms,
                                        open |-> offers[r].open]]])
    /\ UNCHANGED <<lines, offers, acting>>

(* The rep hears a request whole (slow/heard.py), in the order sent; or    *)
(* never does.                                                             *)
AskHeard ==
    /\ ~acting
    /\ \E k \in DOMAIN asks :
        /\ \A j \in k..Len(asks) : asks[j].at = Unheard
        /\ asks' = [asks EXCEPT ![k].at = Len(lines)]
    /\ UNCHANGED <<lines, offers, acting>>

RepLine ==
    /\ ~acting /\ Len(lines) < MaxLines
    /\ \E said \in Saids : lines' = Append(lines, said)
    /\ UNCHANGED <<offers, asks, acting>>

Next ==
    \/ ActBegins \/ ActEnds \/ AskReadback \/ AskHeard \/ RepLine
    \/ \E ref \in Refs : RecordOffer(ref) \/ DeclineOffer(ref)

Spec == Init /\ [][Next]_vars

-----------------------------------------------------------------------------
(* readback_status of what request_approval and accept_offer see: the board *)
(* in an act, with lines Slow's step has not seen.                         *)
MayBind(ref) ==
    LET o == offers[ref]
    IN  acting /\ o.open /\ o.confirmed = DOMAIN o.terms /\ Complete(o.terms)

(* An offer the Guard binds is the rep's last word: of each field, the last *)
(* the rep said is its value, after a request for this offer was heard.    *)
LastWord ==
    \A ref \in Refs : MayBind(ref) =>
        \E k \in HeardAsks(ref) : \A f \in DOMAIN offers[ref].terms :
            LET since == Since(f, asks[k].at)
            IN  since # {} /\ lines[Max(since)][f] = {offers[ref].terms[f]}

(* An offer becomes one to bind with no term on the strength of the very   *)
(* answer that changed it: the request named its value, or the rep had     *)
(* said it before, or nothing (but another offer's value).                 *)
AskedAgain(ref) ==
    \A f \in DOMAIN offers[ref].terms :
        LET v == offers[ref].terms[f]
        IN  \E k \in HeardAsks(ref) :
              /\ \E i \in Since(f, asks[k].at) : lines[i][f] = {v}
              /\ \/ f \in DOMAIN asks[k].cited[ref].terms
                    /\ asks[k].cited[ref].terms[f] = v
                 \/ LET mine == Mine(v, f, asks[k].at, ref)
                    IN  mine = {} \/ lines[Max(mine)][f] = {v}

ChangeAskedAgain ==
    \A ref \in Refs : ~MayBind(ref) /\ MayBind(ref)' => AskedAgain(ref)'
=============================================================================
