------------------------------ MODULE LivePosts ------------------------------
(***************************************************************************)
(* The browser's decisions on a live case: each POST is handed to the      *)
(* kernel once per id (serve/cases.py), which decides it in its own task   *)
(* (kernel/fence.py).  A card's id is a stem, the offer with its revision  *)
(* and the epoch, and the number of approvals decided under that stem      *)
(* (guard/authorize.py).                                                   *)
(***************************************************************************)
EXTENDS Integers, Sequences, FiniteSets

CONSTANTS
    Clicks,              \* bound: the browser's POSTs
    MaxStems, MaxCards,  \* bounds: revisions and epochs, cards
    None

VARIABLES
    session,  \* "live", "ended"
    stem,     \* the offer's revision and the epoch, now
    cards,    \* bound: cards requested
    card,     \* the pending card, or NoCard
    decided,  \* ids of the approvals
    click,    \* per POST: where its handler is, or the answer
    slots,    \* per id handed over: "posted", "failed"
    queue     \* the kernel's approvals queue: ids

vars == <<session, stem, cards, card, decided, click, slots, queue>>

NoCard == [id |-> None, good |-> FALSE]
NewClick == [at |-> "new", id |-> None]

Init ==
    /\ session = "live" /\ stem = 1 /\ cards = 0 /\ card = NoCard
    /\ decided = {} /\ click = [c \in Clicks |-> NewClick]
    /\ slots = <<>> /\ queue = <<>>

-----------------------------------------------------------------------------
(* The case. *)

(* request_approval: unless a card that is still good waits. *)
Requests ==
    /\ session = "live" /\ cards < MaxCards /\ cards' = cards + 1
    /\ ~card.good
    /\ card' = [id |-> [stem |-> stem,
                        n |-> Cardinality({d \in decided : d.stem = stem})],
                good |-> TRUE]
    /\ UNCHANGED <<session, stem, decided, click, slots, queue>>

(* The card expires. *)
Expires ==
    /\ card.good /\ card' = [card EXCEPT !.good = FALSE]
    /\ UNCHANGED <<session, stem, cards, decided, click, slots, queue>>

(* A new revision of its offer, or a new epoch. *)
MovesOn ==
    /\ session = "live" /\ stem < MaxStems /\ stem' = stem + 1
    /\ card' = [card EXCEPT !.good = FALSE]
    /\ UNCHANGED <<session, cards, decided, click, slots, queue>>

(* The approvals queue dies with the session. *)
SessionEnds ==
    /\ session = "live" /\ session' = "ended" /\ queue' = <<>>
    /\ UNCHANGED <<stem, cards, card, decided, click, slots>>

(* guard.decide, on an id, whose hash and epoch are the card's. *)
Decidable(id) == card.good /\ card.id = id

(* A post is decided, or denied: the card has lapsed since. *)
Decides ==
    /\ queue # <<>> /\ queue' = Tail(queue)
    /\ IF Decidable(Head(queue))
       THEN decided' = decided \cup {Head(queue)} /\ card' = NoCard
       ELSE UNCHANGED <<decided, card>>
    /\ UNCHANGED <<session, stem, cards, click, slots>>

-----------------------------------------------------------------------------
(* A POST. *)

(* The user clicks on the card that waits; the pair is signed. *)
Clicked(c) ==
    /\ click[c].at = "new" /\ card # NoCard
    /\ click' = [click EXCEPT ![c] = [at |-> "looks", id |-> card.id]]
    /\ UNCHANGED <<session, stem, cards, card, decided, slots, queue>>

(* open_case, in a worker thread; then the body is awaited. *)
LooksUp(c) ==
    /\ click[c].at = "looks"
    /\ click' = [click EXCEPT ![c].at = IF session = "live" THEN "parses" ELSE "404"]
    /\ UNCHANGED <<session, stem, cards, card, decided, slots, queue>>

Slot(id) == IF id \in DOMAIN slots THEN slots[id] ELSE "free"

Takes(id, state) ==
    slots' = [x \in DOMAIN slots \cup {id} |-> IF x = id THEN state ELSE slots[x]]

(* Mutant: what the board shows decides, not what was handed over. *)
MayPostAgain(id) == Slot(id) # "failed" /\ Decidable(id)

(* hand_over, up to the handover: nothing handed over, nor failed. *)
MayPost(id) == Slot(id) = "free" /\ Decidable(id)

(* The handover raises once the session has ended. *)
HandsOver(c) ==
    LET id == click[c].id
    IN  /\ click[c].at = "parses"
        /\ IF ~MayPost(id)
           THEN /\ UNCHANGED <<slots, queue>>
                /\ click' = [click EXCEPT ![c].at =
                                 IF Slot(id) = "failed" THEN "503" ELSE "409"]
           ELSE IF session = "live"
           THEN /\ Takes(id, "posted") /\ queue' = Append(queue, id)
                /\ click' = [click EXCEPT ![c].at = "200"]
           ELSE /\ Takes(id, "failed") /\ UNCHANGED queue
                /\ click' = [click EXCEPT ![c].at = "503"]
        /\ UNCHANGED <<session, stem, cards, card, decided>>

Next ==
    \/ Requests \/ Expires \/ MovesOn \/ SessionEnds \/ Decides
    \/ \E c \in Clicks : Clicked(c) \/ LooksUp(c) \/ HandsOver(c)

Spec == Init /\ [][Next]_vars

-----------------------------------------------------------------------------
(* Two clicks, in two tabs, on one card are handed over once, also before  *)
(* the board shows the first; and what was decided is not handed over      *)
(* again, though ids repeat (serve/cases.py, hand_over).                   *)
HandedOnce ==
    /\ \A i, j \in DOMAIN queue : queue[i] = queue[j] => i = j
    /\ \A i \in DOMAIN queue : queue[i] \notin decided

(* "A Denial does not use up the single-use slot: only a post handed to    *)
(* the kernel does. [...] so a later POST is judged afresh, and a malformed*)
(* or early POST cannot burn a valid card or proposal" (serve/cases.py).   *)
(* The kernel judges a post handed to it again, and may deny it: if a later*)
(* POST is judged afresh, a good card whose slot is taken has its post in  *)
(* the queue, and will be decided by it.                                   *)
JudgedAfresh ==
    card.good /\ session = "live" /\ Slot(card.id) = "posted" =>
        \E i \in DOMAIN queue : queue[i] = card.id
=============================================================================
