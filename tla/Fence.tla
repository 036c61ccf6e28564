------------------------------- MODULE Fence -------------------------------
(***************************************************************************)
(* The authority fences (kernel/fence.py): what the user or the rep says   *)
(* must have reached Slow before an accept goes out.  A user.msg raises a  *)
(* fence; a rep line raises one while an accept is in flight, and every    *)
(* rep line not yet covered raises one when an accept is minted.  A fence  *)
(* clears when a Slow step completes whose view held the fenced line (the  *)
(* transcript), or held Fast's turn that answered it.  With it, the accept *)
(* line's wait for the floor (kernel/speaker.py) and the Fast lanes that   *)
(* answer (kernel/lanes.py), which need the same floor.                    *)
(*                                                                         *)
(* Comparisons of log positions (seq, basis_seq) are kept.  Only events a  *)
(* comparison can tell apart advance seq here: partner lines and turns.    *)
(***************************************************************************)
EXTENDS Integers, FiniteSets

CONSTANTS
    Views,       \* SlowViewMode, chosen once: is the transcript in Slow's view?
    MaxUserMsgs, \* bound: user messages
    MaxTriggers, \* bound: rep lines, and Fast triggers that answer nobody
                 \* (guidance, notices), together
    MaxInputs,   \* bound: user messages and triggers together
    MaxMints,    \* bound: accepts minted
    MaxEpoch,    \* bound: authority epochs
    None         \* no log position

Lanes == {"user", "cp"}
Position == Nat \cup {None}

ASSUME FenceConstants ==
    /\ Views \subseteq BOOLEAN
    /\ {MaxUserMsgs, MaxTriggers, MaxInputs, MaxMints, MaxEpoch} \subseteq Nat
    /\ None \notin Nat

(* A fence: its line's seq, and the seq a step's basis must reach. *)
FenceType == [lane : Lanes, seq : Nat, at : Position]
LineType == [seq : Nat, at : Position]

(* A Fast generation: what its request saw, whether it answers the rep,    *)
(* and what happened since: epoch moved, rep line, accept line heard.      *)
Generation == [stage : {"idle", "asked", "floor"}, basis : Nat, reply : BOOLEAN,
               stale : BOOLEAN, rep : BOOLEAN, said : BOOLEAN]
Idle == [stage |-> "idle", basis |-> 0, reply |-> FALSE, stale |-> FALSE,
         rep |-> FALSE, said |-> FALSE]

(* The accept line's task.  "queued": it takes the floor next, Fast starts *)
(* no turn; "held": it waits for a fence to move, Fast starts no turn;     *)
(* "waiting": it waits for a fence to move, Fast may take the floor.       *)
(* users: the user_fences snapshot, and whether one rose since.            *)
AcceptLine == [stage : {"none", "queued", "held", "waiting"},
               users : {"unset", "same", "rose"}, epoch : Nat]
NoLine == [stage |-> "none", users |-> "unset", epoch |-> 0]

VARIABLES
    transcript, \* Slow reads the transcript; else relays only
    seq,      \* the last position of the log
    raised,   \* Authority._raised, and the blackboard's fences
    lines,    \* Authority._lines: rep lines not yet covered
    fast,     \* per lane, the generation in flight (and its _basis entry)
    pending,  \* per lane, the triggers waiting: an answer, or another
    slow,     \* the basis of the running Slow step, or None
    woken,    \* Slow's wake event
    line,     \* the accept line
    epoch,
    closed,   \* the call is over (k.closed)
    said,     \* bounds: how many user.msg, rep lines, nudges and mints so far
    inputs    \* history: partner inputs a Slow step has not considered yet

vars == <<transcript, seq, raised, lines, fast, pending, slow, woken, line, epoch,
          closed, said, inputs>>

InFlight == line.stage # "none"

(* _move: the waiting accept line looks again. *)
Moved(l, userRose) ==
    [l EXCEPT !.stage = IF @ \in {"held", "waiting"} THEN "queued" ELSE @,
              !.users = IF userRose /\ @ = "same" THEN "rose" ELSE @]

PartnerOnly == {f.lane : f \in raised} = {"cp"}
PartnerBound == \A f \in raised : f.lane = "cp" => f.at # None

(* What a generation in flight will find changed. *)
Since(g, what) == IF g.stage = "idle" THEN g ELSE
                  CASE what = "epoch" -> [g EXCEPT !.stale = TRUE]
                    [] what = "rep"   -> [g EXCEPT !.rep = TRUE]
                    [] what = "said"  -> [g EXCEPT !.said = TRUE]

Init ==
    /\ transcript \in Views /\ seq = 0 /\ raised = {} /\ lines = {}
    /\ fast = [l \in Lanes |-> Idle] /\ pending = [l \in Lanes |-> {}]
    /\ slow = None /\ woken = FALSE /\ line = NoLine /\ epoch = 0
    /\ closed = FALSE /\ inputs = {}
    /\ said = [user |-> 0, rep |-> 0, nudge |-> 0, mint |-> 0]

-----------------------------------------------------------------------------
(* Partners speak. *)

MayInput == said.user + said.rep + said.nudge < MaxInputs
MayTrigger == MayInput /\ said.rep + said.nudge < MaxTriggers

(* user.msg: its fence is up before anything else reads the message. *)
UserMsg ==
    /\ said.user < MaxUserMsgs /\ MayInput
    /\ said' = [said EXCEPT !.user = @ + 1]
    /\ seq' = seq + 1
    /\ raised' = raised \cup {[lane |-> "user", seq |-> seq + 1, at |-> None]}
    /\ inputs' = inputs \cup {[lane |-> "user", seq |-> seq + 1, at |-> None]}
    /\ line' = Moved(line, TRUE)
    /\ pending' = [pending EXCEPT !["user"] = @ \cup {"answer"}]
    /\ UNCHANGED <<transcript, lines, fast, slow, woken, epoch, closed>>

(* utt.final of the rep: _rep_line, and the trigger of FastC. *)
RepLine ==
    /\ ~closed /\ MayTrigger
    /\ said' = [said EXCEPT !.rep = @ + 1]
    /\ seq' = seq + 1
    /\ LET at == IF transcript THEN seq + 1 ELSE None
           fence == [lane |-> "cp", seq |-> seq + 1, at |-> at]
       IN /\ lines' = lines \cup {[seq |-> seq + 1, at |-> at]}
          /\ inputs' = inputs \cup {fence}
          /\ IF InFlight
             THEN /\ raised' = raised \cup {fence}
                  /\ line' = Moved(line, FALSE)
                  /\ woken' = (woken \/ at # None)
             ELSE UNCHANGED <<raised, line, woken>>
    /\ pending' = [pending EXCEPT !["cp"] = @ \cup {"answer"}]
    /\ fast' = [fast EXCEPT !["cp"] = Since(@, "rep")]
    /\ UNCHANGED <<transcript, slow, epoch, closed>>

(* The rep ends the call: FastC answers nothing more, so unbound partner   *)
(* fences clear; a waiting accept is then revoked (call_closed).           *)
CallClosed ==
    /\ ~closed /\ closed' = TRUE
    /\ raised' = {f \in raised : f.lane = "cp" => f.at # None}
    /\ line' = Moved(line, FALSE)
    /\ UNCHANGED <<transcript, seq, lines, fast, pending, slow, woken, epoch,
                   said, inputs>>

-----------------------------------------------------------------------------
(* The Fast lanes (generate): request, turn or cancelled, then the floor.  *)

(* Guidance, an approval notice, a Slow message. *)
Nudge(l) ==
    /\ MayTrigger
    /\ said' = [said EXCEPT !.nudge = @ + 1]
    /\ pending' = [pending EXCEPT ![l] = @ \cup {"other"}]
    /\ UNCHANGED <<transcript, seq, raised, lines, fast, slow, woken, line,
                   epoch, closed, inputs>>

(* fast.request: an answer is served before anything else. *)
FastRequest(l) ==
    /\ fast[l].stage = "idle" /\ pending[l] # {}
    /\ l = "cp" => ~closed
    /\ LET trigger == IF "answer" \in pending[l] THEN "answer" ELSE "other" IN
       /\ pending' = [pending EXCEPT ![l] = @ \ {trigger}]
       /\ fast' = [fast EXCEPT ![l] = [Idle EXCEPT !.stage = "asked", !.basis = seq,
                                         !.reply = (trigger = "answer")]]
    /\ UNCHANGED <<transcript, seq, raised, lines, slow, woken, line, epoch,
                   closed, said, inputs>>

(* A line or fence of lane l this turn's request saw, now answered at t. *)
Answer(x, basis, t) == IF x.at # None \/ x.seq > basis THEN x ELSE [x EXCEPT !.at = t]

(* History: the inputs of lane l this turn's request saw are answered at t. *)
Answered(l, basis, t) ==
    {IF i.lane = l /\ i.at = None /\ i.seq <= basis THEN [i EXCEPT !.at = t] ELSE i :
        i \in inputs}

(* Mutant: a bound fence does not wake Slow. *)
FastTurnQuiet(l) ==
    /\ fast[l].stage = "asked" /\ ~fast[l].stale
    /\ seq' = seq + 1
    /\ LET b == fast[l].basis
           bind(f) == IF f.lane = l THEN Answer(f, b, seq + 1) ELSE f
       IN /\ lines' = IF l = "cp" THEN {Answer(x, b, seq + 1) : x \in lines} ELSE lines
          /\ raised' = {bind(f) : f \in raised}
          /\ inputs' = Answered(l, b, seq + 1)
    /\ fast' \in {[fast EXCEPT ![l] = Idle]} \cup
           (IF l = "cp" THEN {[fast EXCEPT ![l].stage = "floor"]} ELSE {})
    /\ UNCHANGED <<transcript, pending, slow, woken, line, epoch, closed, said>>

(* fast.turn: _bind.  A turn that speaks on the phone goes for the floor.  *)
FastTurn(l) ==
    /\ fast[l].stage = "asked" /\ ~fast[l].stale
    /\ seq' = seq + 1
    /\ LET b == fast[l].basis
           bind(f) == IF f.lane = l THEN Answer(f, b, seq + 1) ELSE f
       IN /\ lines' = IF l = "cp" THEN {Answer(x, b, seq + 1) : x \in lines} ELSE lines
          /\ raised' = {bind(f) : f \in raised}
          /\ inputs' = Answered(l, b, seq + 1)
    /\ woken' = (woken \/ raised' # raised)
    /\ fast' \in {[fast EXCEPT ![l] = Idle]} \cup
           (IF l = "cp" THEN {[fast EXCEPT ![l].stage = "floor"]} ELSE {})
    /\ UNCHANGED <<transcript, pending, slow, line, epoch, closed, said>>

(* Mutant: the trigger of a stale generation is dropped. *)
FastCancelledDrops(l) ==
    /\ fast[l].stage = "asked" /\ fast[l].stale
    /\ fast' = [fast EXCEPT ![l] = Idle]
    /\ UNCHANGED <<transcript, seq, raised, lines, pending, slow, woken, line,
                   epoch, closed, said, inputs>>

(* fast.cancelled {epoch}: no turn; the trigger runs again. *)
FastCancelled(l) ==
    /\ fast[l].stage = "asked" /\ fast[l].stale
    /\ fast' = [fast EXCEPT ![l] = Idle]
    /\ pending' = [pending EXCEPT ![l] = @ \cup {"other"}]
    /\ UNCHANGED <<transcript, seq, raised, lines, slow, woken, line, epoch,
                   closed, said, inputs>>

(* speak: on the floor, a turn gone stale is not said and runs again.  No  *)
(* turn takes the floor while the accept line is queued or held.           *)
FastSpeak ==
    /\ fast["cp"].stage = "floor"
    /\ line.stage \notin {"queued", "held"}
    /\ fast' = [fast EXCEPT !["cp"] = Idle]
    /\ LET g == fast["cp"] IN
       pending' = IF g.said \/ (g.reply /\ g.rep)
                  THEN [pending EXCEPT !["cp"] = @ \cup {"other"}] ELSE pending
    /\ UNCHANGED <<transcript, seq, raised, lines, slow, woken, line, epoch,
                   closed, said, inputs>>

-----------------------------------------------------------------------------
(* Slow. *)

(* slow.step.started: the basis is the log as the step's view read it. *)
StepStarted ==
    /\ slow = None /\ woken
    /\ slow' = seq /\ woken' = FALSE
    /\ UNCHANGED <<transcript, seq, raised, lines, fast, pending, line, epoch,
                   closed, said, inputs>>

(* History: the inputs whose answer, or own position, a completed step saw. *)
Considered(basis) == {i \in inputs : i.at # None /\ i.at <= basis}

(* Mutant: seeing the line is enough, its answer is not waited for. *)
CompletedEarly(basis, fences) ==
    /\ lines' = {x \in lines : x.at = None \/ x.at > basis}
    /\ raised' = {f \in fences : f.seq > basis}
    /\ inputs' = inputs \ Considered(basis)
    /\ slow' = None

(* slow.step.completed: _completed, on given fences and lines. *)
Completed(basis, fences) ==
    /\ lines' = {x \in lines : x.at = None \/ x.at > basis}
    /\ raised' = {f \in fences : f.at = None \/ f.at > basis}
    /\ inputs' = inputs \ Considered(basis)
    /\ slow' = None

(* A step that accepts nothing. *)
StepCompleted ==
    /\ slow # None
    /\ Completed(slow, raised)
    /\ line' = IF raised' # raised THEN Moved(line, FALSE) ELSE line
    /\ UNCHANGED <<transcript, seq, fast, pending, woken, epoch, closed, said>>

(* Mutant: a mint fences none of the lines not covered. *)
StepMintsBare ==
    /\ slow # None /\ raised = {} /\ ~InFlight
    /\ said.mint < MaxMints /\ said' = [said EXCEPT !.mint = @ + 1]
    /\ Completed(slow, {})
    /\ line' = [stage |-> "queued", users |-> "unset", epoch |-> epoch]
    /\ UNCHANGED <<transcript, seq, fast, pending, woken, epoch, closed>>

(* A step whose accept_offer the Guard grants, under no fence: _minted     *)
(* fences each line not covered; the step's own completion then clears     *)
(* those its view held.                                                    *)
StepMints ==
    /\ slow # None /\ raised = {} /\ ~InFlight
    /\ said.mint < MaxMints /\ said' = [said EXCEPT !.mint = @ + 1]
    /\ LET fences == IF closed THEN {} ELSE
               {[lane |-> "cp", seq |-> x.seq, at |-> x.at] : x \in lines}
       IN /\ Completed(slow, fences)
          /\ woken' = (woken \/ \E f \in fences : f.at # None)
    /\ line' = [stage |-> "queued", users |-> "unset", epoch |-> epoch]
    /\ UNCHANGED <<transcript, seq, fast, pending, epoch, closed>>

(* Any other wake of Slow: heartbeats, decisions, relays. *)
OtherWake ==
    /\ ~woken /\ woken' = TRUE
    /\ UNCHANGED <<transcript, seq, raised, lines, fast, pending, slow, line,
                   epoch, closed, said, inputs>>

(* Mutant: the waiting line does not look again. *)
EpochMovesUnseen ==
    /\ epoch < MaxEpoch /\ epoch' = epoch + 1
    /\ fast' = [l \in Lanes |-> Since(fast[l], "epoch")]
    /\ UNCHANGED <<transcript, seq, raised, lines, pending, slow, woken, line,
                   closed, said, inputs>>

(* authority.epoch: generations in flight are stale, the line looks again. *)
EpochMoves ==
    /\ epoch < MaxEpoch /\ epoch' = epoch + 1
    /\ fast' = [l \in Lanes |-> Since(fast[l], "epoch")]
    /\ line' = Moved(line, FALSE)
    /\ UNCHANGED <<transcript, seq, raised, lines, pending, slow, woken, closed,
                   said, inputs>>

-----------------------------------------------------------------------------
(* _floor_revalidated, once the accept line has the floor. *)

Why == IF closed THEN "call_closed"
       ELSE IF line.epoch # epoch THEN "epoch"
       ELSE IF raised # {} THEN "fence" ELSE "ok"

OnFloor == line.stage = "queued"
Rose == Why \in {"ok", "fence"} /\ line.users = "rose"
Waits == Why = "fence" /\ ~Rose /\ PartnerOnly

Release ==
    /\ OnFloor /\ Why = "ok" /\ ~Rose
    /\ line' = NoLine
    /\ fast' = [fast EXCEPT !["cp"] = Since(@, "said")]
    /\ UNCHANGED <<transcript, seq, raised, lines, pending, slow, woken, epoch,
                   closed, said, inputs>>

Revoke ==
    /\ OnFloor /\ (Why # "ok" \/ Rose) /\ ~Waits
    /\ line' = NoLine /\ woken' = TRUE
    /\ UNCHANGED <<transcript, seq, raised, lines, fast, pending, slow, epoch,
                   closed, said, inputs>>

(* Mutant: the waiting line always keeps Fast from the floor. *)
FenceWaitHeld ==
    /\ OnFloor /\ Waits
    /\ line' = [line EXCEPT !.stage = "held",
                            !.users = IF @ = "unset" THEN "same" ELSE @]
    /\ UNCHANGED <<transcript, seq, raised, lines, fast, pending, slow, woken,
                   epoch, closed, said, inputs>>

(* Under partner fences only: give the floor back, and let FastC have it   *)
(* unless every partner fence is bound.                                    *)
FenceWait ==
    /\ OnFloor /\ Waits
    /\ line' = [line EXCEPT !.stage = IF PartnerBound THEN "held" ELSE "waiting",
                            !.users = IF @ = "unset" THEN "same" ELSE @]
    /\ UNCHANGED <<transcript, seq, raised, lines, fast, pending, slow, woken,
                   epoch, closed, said, inputs>>

(* The capability or the offer expired meanwhile. *)
Expire ==
    /\ InFlight /\ line' = NoLine /\ woken' = TRUE
    /\ UNCHANGED <<transcript, seq, raised, lines, fast, pending, slow, epoch,
                   closed, said, inputs>>

-----------------------------------------------------------------------------
Next ==
    \/ UserMsg \/ RepLine \/ CallClosed
    \/ \E l \in Lanes : Nudge(l) \/ FastRequest(l) \/ FastTurn(l) \/ FastCancelled(l)
    \/ FastSpeak
    \/ StepStarted \/ StepCompleted \/ StepMints \/ OtherWake \/ EpochMoves
    \/ Release \/ Revoke \/ FenceWait \/ Expire

Spec == Init /\ [][Next]_vars

(* A lane's task and the Slow loop run when they can, and a model call     *)
(* ends (CALL_S; the Fast client's own deadline).  The floor comes free.   *)
(* No expiry is assumed: nothing here may rely on the timer alone.         *)
Fairness ==
    /\ \A l \in Lanes : WF_vars(FastRequest(l) \/ FastTurn(l) \/ FastCancelled(l))
    /\ SF_vars(FastSpeak)
    /\ WF_vars(StepStarted \/ StepCompleted \/ StepMints)
    /\ WF_vars(Release \/ Revoke \/ FenceWait)

FairSpec == Spec /\ Fairness

-----------------------------------------------------------------------------
(* Properties. *)

(* Every variable holds a value its counterpart in the code can hold. *)
TypeOK ==
    /\ transcript \in BOOLEAN /\ seq \in Nat /\ epoch \in Nat
    /\ raised \subseteq FenceType /\ lines \subseteq LineType
    /\ fast \in [Lanes -> Generation]
    /\ pending \in [Lanes -> SUBSET {"answer", "other"}]
    /\ slow \in Position /\ woken \in BOOLEAN /\ line \in AcceptLine
    /\ closed \in BOOLEAN /\ inputs \subseteq FenceType
    /\ said \in [user : Nat, rep : Nat, nudge : Nat, mint : Nat]

(* No accept goes out while something the user or the rep said has not     *)
(* been considered: a Slow step that saw it, or saw Fast's answer to it,   *)
(* has completed (kernel/fence.py).                                        *)
ReleaseCovered == [][Release => inputs = {}]_vars

(* What the fences stand for: a message is fenced until it is covered, a   *)
(* rep line is fenced or remembered, and fenced while an accept is in      *)
(* flight, with the same position to reach.                                *)
FencesTrackInputs ==
    /\ \A i \in inputs : i.lane = "user" => i \in raised
    /\ ~closed => \A i \in inputs : i.lane = "cp" =>
         /\ [seq |-> i.seq, at |-> i.at] \in lines
         /\ InFlight => i \in raised

(* Who is at work on a fence.  On one whose line is not answered, its lane: *)
(* a trigger waits there, or a generation that saw the line is running.    *)
(* On a bound one, Slow: it is awake, or in a step that sees the answer.   *)
Answering(l, n) ==
    \/ pending[l] # {}
    \/ fast[l].stage = "asked" /\ fast[l].basis >= n
Considering(t) == woken \/ (slow # None /\ slow >= t)
Pursued(f) ==
    IF f.at = None THEN Answering(f.lane, f.seq) ELSE Considering(f.at)

(* No fence is orphaned: whatever is asked, gone stale, cancelled, minted   *)
(* or completed in between, somebody is at work on each that is up, and on *)
(* each line a mint would fence.  One missed wake and no accept goes out   *)
(* for the rest of the case (kernel/fence.py:192).                         *)
FencesPursued ==
    /\ \A f \in raised : Pursued(f)
    /\ ~closed => \A x \in lines : x.at = None => Answering("cp", x.seq)

(* The accept line never waits on a board that has changed: while it waits *)
(* for a partner fence, one holds it still and nothing has risen, closed   *)
(* or moved; and it keeps FastC off the floor only while no fence needs    *)
(* FastC to answer (kernel/speaker.py:145, _floor_revalidated).            *)
LineWaitsForCause ==
    /\ line.stage \in {"held", "waiting"} => Waits
    /\ line.stage = "held" => PartnerBound

(* No fence of these bounds is later: one input, its turn and a turn that  *)
(* runs again for each input before it.                                    *)
MaxFence == 3 * (MaxInputs - 1) + 1

(* Nothing a fence waits for waits for the fence: each fence clears.  In   *)
(* particular FastC, blocked on the floor, still answers the line that     *)
(* holds the accept back.                                                  *)
FencesClear == \A n \in 1..MaxFence :
    (\E f \in raised : f.seq = n) ~> ~(\E f \in raised : f.seq = n)

(* The accept line is released or revoked, without help from its expiry.   *)
LineResolves == InFlight ~> ~InFlight
=============================================================================
