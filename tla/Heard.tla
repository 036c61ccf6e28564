-------------------------------- MODULE Heard --------------------------------
(***************************************************************************)
(* What became of Slow's GUIDEs on the phone, and what the status bar      *)
(* tells Slow of it (slow/heard.py, slow/state.py, slow/tools.py): a pure  *)
(* read of the event log, beside FastC's lane (FastLane), which keeps its  *)
(* own memory of what the rep heard.                                       *)
(*                                                                         *)
(* gens is the log, by generation: fast.request, fast.turn with what       *)
(* s2f.voiced cites, fast.cancelled, and utt.delivered of its sentences.   *)
(***************************************************************************)
EXTENDS FastLane, FiniteSetsExt

CONSTANTS
    Moves,         \* moves a GUIDE asks for
    MaxGens,       \* bound: generations
    MaxReps,       \* bound: the rep's lines
    MaxSentences   \* sentences of a turn, at most

VARIABLES
    moves,   \* guides: the moves sent, by the GUIDE's number
    gens,    \* per generation, its events
    lines,   \* the cp transcript, by speaker
    fates    \* what the log says of each GUIDE now

log == <<moves, gens, lines>>
hvars == <<vars, log, fates>>

DIES == 2   \* dead sends of a lever that make it unavailable

HInit ==
    /\ Init /\ lane = "cp" /\ moves = <<>> /\ gens = <<>> /\ lines = <<>>
    /\ fates = <<>>

(* after: the newest GUIDE at the request.  of: the turn's sentences;      *)
(* ends: those delivered whole, each with the transcript's length then.    *)
Asked == [after |-> newest, event |-> "request", voiced |-> {}, of |-> 0,
          ends |-> <<>>, cut |-> FALSE]
This == Len(gens)
RepLines == Cardinality({n \in DOMAIN lines : lines[n] = "rep"})

-----------------------------------------------------------------------------
(* Slow and the rep. *)

GuideSent ==
    /\ Guidance /\ \E m \in Moves : moves' = Append(moves, m)
    /\ UNCHANGED <<gens, lines>>

(* A rep turn lands on a free floor; one that ends the call may have lines, *)
(* which trigger no FastC, and without lines waits for nothing.            *)
RepSays ==
    /\ phase # "speaking" /\ RepLines < MaxReps
    /\ RepLine /\ lines' = Append(lines, "rep") /\ UNCHANGED <<moves, gens>>

RepCloses ==
    /\ Closes /\ UNCHANGED <<moves, gens>>
    /\ \/ UNCHANGED lines
       \/ phase # "speaking" /\ RepLines < MaxReps /\ lines' = Append(lines, "rep")

VerbatimLine ==
    /\ VerbatimHeard /\ lines' = Append(lines, "agent") /\ UNCHANGED <<moves, gens>>

Epoch == EpochMoves /\ UNCHANGED log

-----------------------------------------------------------------------------
(* The lane's generations, each event logged. *)

Requested ==
    /\ Serves /\ gens' = IF phase' = "asked" THEN Append(gens, Asked) ELSE gens
    /\ Len(gens') <= MaxGens /\ UNCHANGED <<moves, lines>>

(* fast.cancelled{epoch}. *)
CancelledEpoch ==
    /\ StaleEpoch /\ gens' = [gens EXCEPT ![This].event = "cancelled"]
    /\ UNCHANGED <<moves, lines>>

(* fast.turn, s2f.voiced and fast.sentence.  A turn's hold tells nothing   *)
(* here.                                                                   *)
TurnLogged ==
    \E acts \in BOOLEAN, n \in 0..MaxSentences :
        /\ Turned(acts, n > 0, FALSE)
        /\ gens' = [gens EXCEPT ![This].event = "turn", ![This].of = n,
                                ![This].voiced = IF acts THEN voices ELSE {}]
        /\ UNCHANGED <<moves, lines>>

(* fast.cancelled{verbatim, partner}. *)
CancelledStale ==
    /\ StaleFloor /\ gens' = [gens EXCEPT ![This].event = "cancelled"]
    /\ UNCHANGED <<moves, lines>>

Speaks == TakesFloor /\ UNCHANGED log

Delivered(whole) ==
    /\ lines' = Append(lines, "agent")
    /\ gens' = IF whole THEN [gens EXCEPT ![This].ends = Append(@, Len(lines'))]
               ELSE [gens EXCEPT ![This].cut = TRUE]
    /\ UNCHANGED moves

Left == gens[This].of - Len(gens[This].ends)

(* A sentence, not the last, is heard whole. *)
SentenceHeard ==
    /\ phase = "speaking" /\ ~closed /\ Left > 1 /\ Delivered(TRUE)
    /\ UNCHANGED vars

(* The last one; or the call closed meanwhile: the one being said is heard *)
(* whole, and the rest, or all if it closed before the first, are not said.*)
TurnHeard ==
    /\ Spoken
    /\ \/ (Left = 1 \/ closed) /\ Delivered(TRUE)
       \/ closed /\ UNCHANGED log

TurnCut == Cut /\ Delivered(FALSE)

-----------------------------------------------------------------------------
(* fates: what became of each GUIDE, from the log alone. *)

Dead == [state |-> "dead", at |-> 0]
Superseded == [state |-> "superseded", at |-> 0]   \* dead, and never voiced
Playing == [state |-> "playing", at |-> 0]
Unknown == [state |-> "none", at |-> 0]

(* In one turn that voices it: dead if it was cancelled, cut or spoke not;  *)
(* heard once every sentence was, at the transcript's length then.         *)
FateIn(g) ==
    IF g.event = "cancelled" \/ g.of = 0 \/ g.cut THEN Dead
    ELSE IF Len(g.ends) = g.of
    THEN [state |-> "heard", at |-> Max({g.ends[k] : k \in DOMAIN g.ends})]
    ELSE Playing

(* Mutant: a generation that ended still counts. *)
RenderedEver(m) == \E i \in DOMAIN gens : gens[i].after = m

(* A generation requested while m was the newest is still open. *)
Rendered(m) == \E i \in DOMAIN gens : gens[i].after = m /\ gens[i].event = "request"

(* The best of its turns, the first of those heard; one never voiced is     *)
(* dead once a later GUIDE superseded it.                                  *)
Fate(m) ==
    LET turns == {i \in DOMAIN gens : m \in gens[i].voiced}
        In(state) == {i \in turns : FateIn(gens[i]).state = state}
    IN  IF In("heard") # {} THEN FateIn(gens[Min(In("heard"))])
        ELSE IF In("playing") # {} THEN Playing
        ELSE IF turns # {} THEN Dead
        ELSE IF m < Len(moves) /\ ~Rendered(m) THEN Superseded ELSE Unknown

Fates == [m \in DOMAIN moves |-> Fate(m)]

HeardOnes == {m \in DOMAIN fates : fates[m].state = "heard"}

-----------------------------------------------------------------------------
(* What the status bar says of them. *)

(* _states: "none" is left out. *)
Shown(m) ==
    LET fate == fates[m]
    IN  CASE fate.state = "heard" ->
               IF \E n \in fate.at + 1..Len(lines) : lines[n] = "rep"
               THEN "answered" ELSE "heard"
          [] fate.state = "playing" -> "waiting"
          [] fate.state = "none" ->
               IF Guide(m) \in unvoiced THEN "waiting" ELSE "unvoiced"
          [] fate.state = "dead" -> "dead"
          [] fate.state = "superseded" -> "none"

Sends(move) == {m \in DOMAIN moves : moves[m] = move}

(* sent, and free_levers: how a lever stands. *)
Sent(move) ==
    LET In(shown) == {m \in Sends(move) : Shown(m) = shown}
    IN  IF In("answered") # {} THEN "answered"
        ELSE IF In("heard") # {} THEN "heard"
        ELSE IF In("waiting") # {} THEN "waiting"
        ELSE IF Cardinality(In("dead")) >= DIES THEN "failed" ELSE "available"

(* asked_final: the transcript's length at the last one heard. *)
AskedFinal == Max({0} \cup {fates[m].at : m \in Sends("final") \cap HeardOnes})

(* final_pending. *)
FinalPending ==
    /\ Sends("final") # {}
    /\ LET last == Max(Sends("final"))
       IN  \/ fates[last].state = "playing"
           \/ fates[last].state = "none" /\ Guide(last) \in unvoiced

-----------------------------------------------------------------------------
HStep ==
    \/ phase # "loop" /\ (GuideSent \/ RepSays \/ RepCloses \/ VerbatimLine \/ Epoch)
    \/ Requested \/ CancelledEpoch \/ TurnLogged \/ CancelledStale \/ Speaks
    \/ SentenceHeard \/ TurnHeard \/ TurnCut

HNext == HStep /\ fates' = Fates'

HSpec == HInit /\ [][HNext]_hvars

-----------------------------------------------------------------------------
(* The lane and Slow agree on what the rep heard, though each works it out *)
(* from other events; a call that closed mid-turn ends that.               *)
Agree ==
    /\ ~closed => said \subseteq HeardOnes
    /\ phase # "speaking" => HeardOnes \subseteq said

(* Slow is never told to wait for a GUIDE that nothing can voice any more: *)
(* it is the newest, or the generation at work voices it.                  *)
ComesYet(m) == m = newest \/ m \in voices \/ closed
WaitsHonest ==
    /\ \A m \in DOMAIN moves : Shown(m) = "waiting" => ComesYet(m)
    /\ FinalPending => ComesYet(Max(Sends("final")))

(* What was heard stays heard, at the same line, and answered; what was    *)
(* superseded is never voiced; GUIDEs are heard in the order sent; the     *)
(* close's window never moves back.                                        *)
FatesStay ==
    /\ \A m \in DOMAIN fates :
        fates[m].state \in {"heard", "superseded"} => fates'[m] = fates[m]
    /\ \A m \in HeardOnes' \ HeardOnes : \A k \in HeardOnes : k < m
    /\ \A move \in Moves : Sent(move) = "answered" => Sent(move)' = "answered"
    /\ AskedFinal' >= AskedFinal
=============================================================================
