------------------------------- MODULE SimRep -------------------------------
(***************************************************************************)
(* The simulated rep (env/counterparty): agent utterances join a backlog   *)
(* (simrep.py), one turn at a time takes it as a block, the Ear labels each*)
(* utterance with one act (ear.py), the policy steps every act in order    *)
(* (policy.py), and the Mouth voices some of the decisions (mouth.py).     *)
(* A block's steps run with no await between them.  The Ear's and Mouth's  *)
(* model calls always end here: ModelCalls has their failures.             *)
(***************************************************************************)
EXTENDS Integers, Sequences, FiniteSets

CONSTANTS
    Ladder,    \* the number of rungs: offer i is made at rung i
    Levers,    \* acts that unlock the next rung, each once
    TTL,       \* per offer: seconds it stays open, or None
    SILENCE, HOLD, STRIKES,  \* patience
    MaxHeard, MaxBlock, Horizon,  \* bounds: utterances, of one block, time
    None

VARIABLES
    now, said,            \* bounds: time, utterances heard
    backlog,              \* _heard: the times of the utterances not taken yet
    phase,                \* the turn in flight: "idle", "ear", "policy", "mouth"
    block, listed,        \* what it took, and the offers made before it
    decided,              \* its decisions
    state, rung, offers,  \* Policy: offers made, with status and expiry
    levers, pending,
    identity, timers,     \* strikes of each kind
    silences, holds,      \* what counts toward the timer hang-up
    holdSince, holdClock, free,
    inbox,                \* RepTurns given to the channel: strikes reported, end
    asked,                \* history: the offer the rep asked to confirm, with no
                          \* decline or newer offer since
    accepted              \* history: the commit

policy == <<state, rung, offers, levers, pending, identity, timers, silences,
            holds, holdSince, holdClock>>
turn == <<phase, block, listed, decided>>
vars == <<now, said, backlog, turn, policy, free, inbox, asked, accepted>>

TERMINAL == {"CONFIRMED", "TRANSFER", "ENDED"}
Done == state \in TERMINAL
Made == 1..rung
Open == {o \in Made : offers[o].status = "open"}
Strikes == identity + timers
FILLERS == {"clarify", "ack"}

Intent(kind, ref) == [kind |-> kind, ref |-> ref, commit |-> FALSE, strike |-> FALSE]

Init ==
    /\ now = 0 /\ said = 0 /\ backlog = <<>>
    /\ phase = "idle" /\ block = <<>> /\ listed = {} /\ decided = <<>>
    /\ state = "GREET" /\ rung = 0 /\ levers = {} /\ pending = None
    /\ offers = [o \in 1..Ladder |-> [status |-> "none", until |-> None]]
    /\ identity = 0 /\ timers = 0 /\ silences = 0 /\ holds = 0
    /\ holdSince = None /\ holdClock = None /\ free = 0
    /\ inbox = [strikes |-> 0, end |-> ""]
    /\ asked = None /\ accepted = None

-----------------------------------------------------------------------------
(* Turns. *)

TimePasses ==
    /\ now < Horizon /\ phase # "policy" /\ now' = now + 1
    /\ UNCHANGED <<said, backlog, turn, policy, free, inbox, asked, accepted>>

(* utt.delivered of the agent's line. *)
Hear ==
    /\ phase # "policy" /\ said < MaxHeard /\ Len(backlog) < MaxBlock
    /\ said' = said + 1 /\ backlog' = Append(backlog, now) /\ free' = now
    /\ UNCHANGED <<now, turn, policy, inbox, asked, accepted>>

(* on_agent_turn takes the lock, and the whole backlog: none once the call *)
(* is over.  The Ear is shown the offers made so far.                      *)
TakeBlock ==
    /\ phase = "idle" /\ backlog # <<>> /\ backlog' = <<>>
    /\ IF Done THEN UNCHANGED turn
       ELSE phase' = "ear" /\ block' = backlog /\ listed' = Made /\ decided' = <<>>
    /\ UNCHANGED <<now, said, policy, free, inbox, asked, accepted>>

Labels ==
    /\ phase = "ear" /\ phase' = "policy"
    /\ UNCHANGED <<now, said, backlog, block, listed, decided, policy, free, inbox,
                   asked, accepted>>

(* _expire. *)
Lapsed(t) == {o \in Open : offers[o].until # None /\ t >= offers[o].until}
Expired(t) == [o \in DOMAIN offers |->
                 IF o \in Lapsed(t) THEN [offers[o] EXCEPT !.status = "expired"]
                 ELSE offers[o]]
ExpiredFirst(t) == [i \in 1..Cardinality(Lapsed(t)) |-> Intent("offer_expired", None)]

-----------------------------------------------------------------------------
(* The policy's reactions: the next state of what an act can change, with  *)
(* the offers as they are after expiry.                                    *)

Core == [state |-> state, rung |-> rung, levers |-> levers, pending |-> pending,
         identity |-> identity, offers |-> offers, clock |-> holdClock,
         since |-> None, intent |-> Intent("clarify", None)]

Says(c, kind, ref) == [c EXCEPT !.intent = Intent(kind, ref)]

(* check_act: an accept needs an offer listed, and names one or none of    *)
(* them; named is what the utterance says by price or ref, and right says  *)
(* that its price_usd, if any, is the offer's.                             *)
EarActs ==
    {[act |-> "accept", ref |-> r, named |-> n, right |-> p] :
        r \in listed \cup {None}, n \in SUBSET Made, p \in BOOLEAN}
    \cup {[act |-> "ask_readback", ref |-> r, named |-> {}, right |-> TRUE] :
             r \in listed \cup {None}}
    \cup {[act |-> a, ref |-> None, named |-> {}, right |-> TRUE] :
             a \in Levers \cup {"decline", "last_fact", "new_fact", "wrong_fact",
                                "ask_supervisor", "hold_request", "other"}}
LabelledActs == {a \in EarActs : a.act = "accept" => listed # {}}

OfferState(r) ==
    IF r = 0 THEN "DISCOVER" ELSE IF r = Ladder THEN "FINAL" ELSE "OFFER"

Hold(c, t) ==
    LET clock == IF c.clock = None THEN t ELSE c.clock
    IN  Says([c EXCEPT !.clock = clock, !.since = clock], "ok_hold", None)

(* GREET and IDENTIFY: any act but a fact is an identity strike, but the   *)
(* first; a newly verified fact is progress, whether others are missing    *)
(* (new_fact) or not (last_fact).  The identity has any number of them.    *)
Identify(c, a) ==
    IF a = "last_fact" THEN Says([c EXCEPT !.state = "DISCOVER", !.clock = None],
                                 "how_can_help", None)
    ELSE IF a = "new_fact"
         THEN Says([c EXCEPT !.state = "IDENTIFY", !.clock = None], "ask_identity", None)
    ELSE IF a = "wrong_fact"
         THEN Says([c EXCEPT !.state = "IDENTIFY"], "ask_identity", None)
    ELSE IF c.state = "GREET" THEN Says([c EXCEPT !.state = "IDENTIFY"], "greet", None)
    ELSE LET struck == [c EXCEPT !.identity = @ + 1]
         IN  IF struck.identity >= STRIKES
             THEN Says([struck EXCEPT !.state = "ENDED"], "hang_up", None)
             ELSE Says(struck, "ask_identity", None)

Lever(c, l, t) ==
    IF l \in c.levers \/ c.rung = Ladder THEN Says(c, "no_better", None)
    ELSE LET r == c.rung + 1
             until == IF TTL[r] = None THEN None ELSE t + TTL[r]
         IN  Says([c EXCEPT !.rung = r, !.levers = @ \cup {l}, !.pending = None,
                            !.offers[r] = [status |-> "open", until |-> until],
                            !.state = OfferState(r)],
                  "offer", r)

(* _accept: which offer it is for, and whether it names it. *)
Unreferenced(c, a) ==
    LET cands == {o \in listed \cap 1..c.rung : c.offers[o].status = "open"}
                    \cap a.named
        others == cands \ {c.pending}
        latest == IF c.rung = 0 THEN None ELSE c.rung
    IN  IF c.state = "CONFIRM"
        THEN IF others = {} THEN <<c.pending, TRUE>>
             ELSE IF Cardinality(others) = 1 THEN <<CHOOSE o \in others : TRUE, FALSE>>
             ELSE <<c.pending, FALSE>>
        ELSE IF Cardinality(cands) = 1 THEN <<CHOOSE o \in cands : TRUE, TRUE>>
        ELSE <<latest, FALSE>>

Meant(c, a) ==
    IF a.ref = None THEN Unreferenced(c, a)
    ELSE IF a.ref \in a.named THEN <<a.ref, TRUE>>
    ELSE IF c.state = "CONFIRM" THEN <<c.pending, TRUE>>
    ELSE <<a.ref, FALSE>>

Accept(c, a) ==
    LET offer == Meant(c, a)[1]
        named == Meant(c, a)[2]
    IN  IF offer = None THEN Says(c, "clarify", None)
        ELSE IF c.offers[offer].status # "open"
             THEN Says(c, "offer_unavailable", offer)
        ELSE IF ~named \/ ~a.right
             THEN Says([c EXCEPT !.state = "CONFIRM", !.pending = offer],
                       "confirm_accept", offer)
        ELSE [c EXCEPT !.state = "CONFIRMED", !.pending = None,
                       !.offers[offer].status = "accepted",
                       !.intent = [Intent("confirmed", offer) EXCEPT !.commit = TRUE]]

Readback(c, a) ==
    LET offer == IF a.ref # None THEN a.ref ELSE c.rung
    IN  IF offer = 0 THEN Says(c, "offer_unavailable", None)
        ELSE IF c.offers[offer].status # "open"
             THEN Says(c, "offer_unavailable", a.ref)
        ELSE Says(c, "readback", offer)

(* Mutant: a decline leaves the pending confirmation. *)
DeclineKeepsPending(c) == Says(c, "ack_decline", None)

Decline(c) ==
    Says(IF c.state = "CONFIRM"
         THEN [c EXCEPT !.state = OfferState(c.rung), !.pending = None] ELSE c,
         "ack_decline", None)

React(c, a, t) ==
    CASE a.act = "ask_supervisor" -> Says([c EXCEPT !.state = "TRANSFER"], "transfer", None)
      [] a.act = "hold_request" -> Hold(c, t)
      [] c.state \in {"GREET", "IDENTIFY"} /\ a.act \notin {"ask_supervisor", "hold_request"}
           -> Identify(c, a.act)
      [] OTHER ->
           IF a.act \in Levers THEN Lever(c, a.act, t)
           ELSE IF a.act = "accept" THEN Accept(c, a)
           ELSE IF a.act = "ask_readback" THEN Readback(c, a)
           ELSE IF a.act = "decline" THEN Decline(c)
           ELSE Says(c, IF c.rung > 0 /\ a.act = "other" THEN "ack" ELSE "clarify", None)

(* Policy.step of the next utterance of the block. *)
Step(a) ==
    LET t == Head(block)
        c == React([Core EXCEPT !.offers = Expired(t)], a, t)
        struck == [c.intent EXCEPT !.strike = c.identity > identity]
    IN  /\ phase = "policy" /\ block # <<>> /\ ~Done /\ block' = Tail(block)
        /\ state' = c.state /\ rung' = c.rung /\ levers' = c.levers
        /\ pending' = c.pending /\ identity' = c.identity /\ offers' = c.offers
        /\ holdSince' = c.since
        /\ holdClock' = IF state # "IDENTIFY" /\ a.act # "hold_request" THEN None
                        ELSE c.clock
        /\ silences' = 0 /\ free' = None
        /\ decided' = decided \o ExpiredFirst(t) \o <<struck>>
        /\ asked' = IF c.intent.kind = "confirm_accept" THEN c.intent.ref
                    ELSE IF c.intent.kind \in {"offer", "ack_decline"}
                    THEN None ELSE asked
        /\ accepted' = IF c.intent.commit
                       THEN [offer |-> c.intent.ref, heard |-> t, named |-> a.named,
                             until |-> offers[c.intent.ref].until, asked |-> asked]
                       ELSE accepted
        /\ UNCHANGED <<now, said, backlog, phase, listed, timers, holds, inbox>>

(* The decisions are emitted; the Mouth composes its lines. *)
Voices ==
    /\ phase = "policy" /\ (block = <<>> \/ Done) /\ phase' = "mouth" /\ block' = <<>>
    /\ UNCHANGED <<now, said, backlog, listed, decided, policy, free, inbox,
                   asked, accepted>>

(* voiced: what the turn says of its decisions. *)
Kept ==
    LET passes == \E i \in DOMAIN decided : decided[i].kind = "how_can_help"
    IN  {i \in DOMAIN decided :
            \/ decided[i].commit
            \/ /\ decided[i].kind # "offer_expired"
               /\ ~(decided[i].kind = "ask_identity" /\ passes)
               /\ \A j \in DOMAIN decided : j > i =>
                     decided[j].kind # decided[i].kind \/ decided[j].ref # decided[i].ref}

Voiced ==
    LET replies == {i \in Kept : decided[i].kind \notin FILLERS}
    IN  IF replies # {} THEN replies
        ELSE {i \in Kept : \A j \in Kept : j <= i}

(* Mutant: a strike whose line is not voiced is not reported. *)
StruckVoiced == {i \in Voiced : decided[i].strike}

Struck == {i \in DOMAIN decided : decided[i].strike}

(* _run's RepTurn: the lines, the strikes and how the call ended. *)
TurnEnds ==
    /\ phase = "mouth" /\ phase' = "idle" /\ decided' = <<>> /\ listed' = {}
    /\ inbox' = [strikes |-> inbox.strikes + Cardinality(Struck),
                 end |-> IF ~Done \/ decided = <<>> THEN inbox.end
                         ELSE IF decided[Len(decided)].kind = "hang_up"
                         THEN "hangup" ELSE "closed"]
    /\ free' = IF Voiced = {} THEN free ELSE now
    /\ UNCHANGED <<now, said, backlog, block, policy, asked, accepted>>

(* Policy.tick, when no turn is in flight: the offers lapse, then a silence*)
(* over SILENCE on a free floor, or a hold over HOLD, is a timer strike.   *)
Tick ==
    LET held == holdSince # None
        since == IF held THEN holdSince ELSE free
        due == since # None /\ now - since >= (IF held THEN HOLD ELSE SILENCE)
    IN  /\ phase = "idle" /\ backlog = <<>> /\ ~Done /\ (due \/ Lapsed(now) # {})
        /\ offers' = Expired(now)
        /\ IF ~due
           THEN /\ phase' = "mouth" /\ decided' = ExpiredFirst(now)
                /\ UNCHANGED <<state, timers, silences, holds, holdSince, holdClock, free>>
           ELSE /\ timers' = timers + 1 /\ free' = None
                /\ silences' = IF held THEN silences ELSE silences + 1
                /\ holds' = IF held THEN holds + 1 ELSE holds
                /\ holdSince' = IF held THEN now ELSE None
                /\ holdClock' = IF held /\ holdClock # None THEN now ELSE holdClock
                /\ state' = IF silences' + holds' >= STRIKES THEN "ENDED" ELSE state
                /\ phase' = "mouth"
                /\ decided' = ExpiredFirst(now) \o
                     <<[Intent(IF state' = "ENDED" THEN "hang_up" ELSE "check_in", None)
                           EXCEPT !.strike = TRUE]>>
        /\ UNCHANGED <<now, said, backlog, block, listed, rung, levers, pending,
                       identity, inbox, asked, accepted>>

Next ==
    \/ TimePasses \/ Hear \/ TakeBlock \/ Labels \/ Voices \/ TurnEnds \/ Tick
    \/ \E a \in LabelledActs : Step(a)

Spec == Init /\ [][Next]_vars

-----------------------------------------------------------------------------
(* The rep's system binds an offer, hidden terms too, only if it was open  *)
(* when the caller spoke and they named it in those words, or the      *)
(* rep asked to confirm it and no decline or newer offer came between      *)
(* (policy.py, "accepting an open offer by name commits"; "a plain yes then*)
(* commits").                                                              *)
CommitMeant ==
    accepted # None =>
        /\ accepted.until # None => accepted.heard < accepted.until
        /\ accepted.offer \in accepted.named \cup {accepted.asked}

(* Between turns every strike of the policy was reported once, voiced or   *)
(* not, however many one block had, and the call ended with a hang-up only *)
(* for a strike-out of its own kind (ADR-0021 D6: the count is exact).     *)
StrikesReported ==
    phase = "idle" =>
        /\ inbox.strikes = Strikes
        /\ Done => inbox.end = IF state = "ENDED" THEN "hangup" ELSE "closed"
        /\ state = "ENDED" <=> identity >= STRIKES \/ silences + holds >= STRIKES
=============================================================================
