---------------------------- MODULE FenceProofs ----------------------------
(***************************************************************************)
(* Fence for every value of its constants: types, the meaning of a raised  *)
(* fence, and that no accept goes out over something Slow has not          *)
(* considered.  FencesTrackInputs is inductive together with TypeOK.       *)
(***************************************************************************)
EXTENDS Fence, TLAPS

(* A generation or a line changed by what happened keeps its type. *)
LEMMA SinceType ==
    ASSUME NEW g \in Generation, NEW what \in {"epoch", "rep", "said"}
    PROVE  Since(g, what) \in Generation
BY DEF Since, Generation

LEMMA MovedType ==
    ASSUME NEW l \in AcceptLine, NEW rose \in BOOLEAN
    PROVE  /\ Moved(l, rose) \in AcceptLine
           /\ Moved(l, rose).stage = "none" <=> l.stage = "none"
BY DEF Moved, AcceptLine

(* A bound fence, line or input keeps its type. *)
LEMMA AnswerType ==
    ASSUME NEW basis \in Nat, NEW t \in Nat
    PROVE  /\ \A f \in FenceType : Answer(f, basis, t) \in FenceType
           /\ \A x \in LineType : Answer(x, basis, t) \in LineType
BY FenceConstants DEF FenceConstants, Answer, FenceType, LineType, Position, Lanes

LEMMA TypeInit == Init => TypeOK
<1> SUFFICES ASSUME Init PROVE TypeOK
  OBVIOUS
<1>1. Idle \in Generation /\ NoLine \in AcceptLine
  BY DEF Idle, Generation, NoLine, AcceptLine
<1>2. fast \in [Lanes -> Generation] /\ pending \in [Lanes -> SUBSET {"answer", "other"}]
  BY <1>1 DEF Init
<1>3. said \in [user : Nat, rep : Nat, nudge : Nat, mint : Nat]
  BY DEF Init
<1> QED
  BY <1>1, <1>2, <1>3, FenceConstants DEF Init, TypeOK, Position, FenceConstants

LEMMA TypeNext == TypeOK /\ [Next]_vars => TypeOK'
<1> SUFFICES ASSUME TypeOK, [Next]_vars PROVE TypeOK'
  OBVIOUS
<1> USE FenceConstants DEF TypeOK, FenceConstants
<1>1. CASE UserMsg
  <2>1. line' \in AcceptLine
    BY <1>1, MovedType DEF UserMsg
  <2>2. [lane |-> "user", seq |-> seq + 1, at |-> None] \in FenceType
    BY DEF FenceType, Position, Lanes
  <2>3. pending' \in [Lanes -> SUBSET {"answer", "other"}]
    BY <1>1 DEF UserMsg, Lanes
  <2>4. said' \in [user : Nat, rep : Nat, nudge : Nat, mint : Nat]
    BY <1>1 DEF UserMsg
  <2>5. raised' \subseteq FenceType /\ inputs' \subseteq FenceType
    BY <1>1, <2>2 DEF UserMsg
  <2>6. seq' \in Nat
    BY <1>1 DEF UserMsg
  <2>7. UNCHANGED <<transcript, lines, fast, slow, woken, epoch, closed>>
    BY <1>1 DEF UserMsg
  <2> QED
    BY <2>1, <2>3, <2>4, <2>5, <2>6, <2>7
<1>2. CASE RepLine
  <2>1. line' \in AcceptLine
    BY <1>2, MovedType DEF RepLine
  <2>2. fast' \in [Lanes -> Generation]
    BY <1>2, SinceType DEF RepLine, Lanes
  <2> DEFINE at == IF transcript THEN seq + 1 ELSE None
  <2>3. /\ [lane |-> "cp", seq |-> seq + 1, at |-> at] \in FenceType
        /\ [seq |-> seq + 1, at |-> at] \in LineType
    BY DEF FenceType, LineType, Position, Lanes
  <2>4. pending' \in [Lanes -> SUBSET {"answer", "other"}]
    BY <1>2 DEF RepLine, Lanes
  <2>5. said' \in [user : Nat, rep : Nat, nudge : Nat, mint : Nat]
    BY <1>2 DEF RepLine
  <2>6. lines' \subseteq LineType /\ inputs' \subseteq FenceType /\ raised' \subseteq FenceType
    BY <1>2, <2>3 DEF RepLine
  <2>7. woken' \in BOOLEAN
    BY <1>2 DEF RepLine
  <2> QED
    BY <1>2, <2>1, <2>2, <2>4, <2>5, <2>6, <2>7 DEF RepLine
<1>3. CASE CallClosed
  BY <1>3, MovedType DEF CallClosed
<1>4. ASSUME NEW l \in Lanes, Nudge(l) PROVE TypeOK'
  BY <1>4 DEF Nudge
<1>5. ASSUME NEW l \in Lanes, FastRequest(l) PROVE TypeOK'
  <2>1. fast' \in [Lanes -> Generation]
    BY <1>5 DEF FastRequest, Generation, Idle
  <2>2. pending' \in [Lanes -> SUBSET {"answer", "other"}]
    BY <1>5 DEF FastRequest
  <2> QED
    BY <1>5, <2>1, <2>2 DEF FastRequest
<1>6. ASSUME NEW l \in Lanes, FastTurn(l) PROVE TypeOK'
  <2>1. fast[l].basis \in Nat /\ seq + 1 \in Nat
    BY DEF Generation
  <2>2. fast' \in [Lanes -> Generation]
    <3>1. Idle \in Generation /\ [fast[l] EXCEPT !.stage = "floor"] \in Generation
      BY DEF Generation, Idle
    <3> QED
      BY <1>6, <3>1 DEF FastTurn
  <2>3. lines' \subseteq LineType /\ raised' \subseteq FenceType
    BY <1>6, <2>1, AnswerType DEF FastTurn
  <2>4. inputs' \subseteq FenceType
    BY <1>6, <2>1 DEF FastTurn, Answered, FenceType, Position
  <2> QED
    BY <1>6, <2>1, <2>2, <2>3, <2>4 DEF FastTurn
<1>7. ASSUME NEW l \in Lanes, FastCancelled(l) PROVE TypeOK'
  BY <1>7 DEF FastCancelled, Generation, Idle
<1>8. CASE FastSpeak
  BY <1>8 DEF FastSpeak, Generation, Idle, Lanes
<1>9. CASE StepStarted
  BY <1>9 DEF StepStarted, Position
<1>10. CASE StepCompleted
  <2>1. line' \in AcceptLine
    BY <1>10, MovedType DEF StepCompleted
  <2> QED
    BY <1>10, <2>1 DEF StepCompleted, Completed, Position
<1>11. CASE StepMints
  <2>1. raised' \subseteq FenceType
    BY <1>11 DEF StepMints, Completed, FenceType, LineType, Lanes
  <2>2. line' \in AcceptLine
    BY <1>11 DEF StepMints, AcceptLine
  <2> QED
    BY <1>11, <2>1, <2>2 DEF StepMints, Completed, Position
<1>12. CASE OtherWake
  BY <1>12 DEF OtherWake
<1>13. CASE EpochMoves
  <2>1. fast' \in [Lanes -> Generation]
    <3>1. \A l \in Lanes : Since(fast[l], "epoch") \in Generation
      BY SinceType
    <3> QED
      BY <1>13, <3>1 DEF EpochMoves
  <2>2. line' \in AcceptLine
    BY <1>13, MovedType DEF EpochMoves
  <2>3. epoch' \in Nat
    BY <1>13 DEF EpochMoves
  <2>4. UNCHANGED <<transcript, seq, raised, lines, pending, slow, woken, closed, said, inputs>>
    BY <1>13 DEF EpochMoves
  <2> QED
    BY <2>1, <2>2, <2>3, <2>4
<1>14. CASE Release
  BY <1>14, SinceType DEF Release, NoLine, AcceptLine, Lanes
<1>15. CASE Revoke
  BY <1>15 DEF Revoke, NoLine, AcceptLine
<1>16. CASE FenceWait
  BY <1>16 DEF FenceWait, AcceptLine
<1>17. CASE Expire
  BY <1>17 DEF Expire, NoLine, AcceptLine
<1>18. CASE UNCHANGED vars
  BY <1>18 DEF vars
<1> QED
  BY <1>1, <1>2, <1>3, <1>4, <1>5, <1>6, <1>7, <1>8, <1>9, <1>10, <1>11, <1>12,
     <1>13, <1>14, <1>15, <1>16, <1>17, <1>18 DEF Next

(* Every reachable state is well typed. *)
THEOREM FenceTypes == Spec => []TypeOK
BY TypeInit, TypeNext, PTL DEF Spec

-----------------------------------------------------------------------------
(* What an input is to the fences: the two halves of FencesTrackInputs for *)
(* one input, given the fences, lines, state of the call and accept line.  *)
Tracked(i, fences, kept, over, inFlight) ==
    /\ i.lane = "user" => i \in fences
    /\ i.lane = "cp" /\ ~over =>
         /\ [seq |-> i.seq, at |-> i.at] \in kept
         /\ inFlight => i \in fences

LEMMA TrackedAll ==
    FencesTrackInputs <=> \A i \in inputs : Tracked(i, raised, lines, closed, InFlight)
BY DEF FencesTrackInputs, Tracked

LEMMA TrackedAllNext ==
    FencesTrackInputs' <=>
        \A i \in inputs' : Tracked(i, raised', lines', closed', InFlight')
BY DEF FencesTrackInputs, Tracked

(* A turn answers an input as it answers that input's fence and line. *)
LEMMA TurnKeepsTracked ==
    ASSUME TypeOK, FencesTrackInputs, NEW l \in Lanes, FastTurn(l)
    PROVE  FencesTrackInputs'
<1> DEFINE b == fast[l].basis
           bind(f) == IF f.lane = l THEN Answer(f, b, seq + 1) ELSE f
<1>1. b \in Nat /\ seq \in Nat
  BY DEF TypeOK, Generation
<1>2. /\ raised' = {bind(f) : f \in raised}
      /\ inputs' = Answered(l, b, seq + 1)
      /\ lines' = IF l = "cp" THEN {Answer(x, b, seq + 1) : x \in lines} ELSE lines
      /\ closed' = closed /\ line' = line
  BY DEF FastTurn
<1>3. SUFFICES ASSUME NEW j \in inputs'
               PROVE  Tracked(j, raised', lines', closed', InFlight')
  BY TrackedAllNext
<1>4. PICK i \in inputs :
        j = IF i.lane = l /\ i.at = None /\ i.seq <= b THEN [i EXCEPT !.at = seq + 1] ELSE i
  BY <1>2 DEF Answered
<1>5. i \in FenceType
  BY DEF TypeOK
<1>6. j = bind(i) /\ j.lane = i.lane
  BY <1>1, <1>4, <1>5 DEF Answer, FenceType
<1>7. i \in raised => j \in raised'
  BY <1>2, <1>6
<1>8. ASSUME i.lane = "cp", [seq |-> i.seq, at |-> i.at] \in lines
      PROVE  [seq |-> j.seq, at |-> j.at] \in lines'
  <2> DEFINE x == [seq |-> i.seq, at |-> i.at]
  <2>1. CASE l = "cp"
    <3>1. [seq |-> j.seq, at |-> j.at] = Answer(x, b, seq + 1)
      BY <1>1, <1>4, <1>5, <1>8, <2>1 DEF Answer, FenceType
    <3> QED
      BY <1>2, <1>8, <2>1, <3>1
  <2>2. CASE l # "cp"
    BY <1>2, <1>4, <1>8, <2>2
  <2> QED
    BY <2>1, <2>2
<1>9. Tracked(i, raised, lines, closed, InFlight)
  BY TrackedAll
<1>10. InFlight' = InFlight
  BY <1>2 DEF InFlight
<1> QED
  BY <1>2, <1>6, <1>7, <1>8, <1>9, <1>10 DEF Tracked

(* What a completed step leaves unconsidered, it leaves fenced. *)
LEMMA CompletionKeepsTracked ==
    ASSUME TypeOK, NEW basis \in Nat, NEW fences \in SUBSET FenceType,
           Completed(basis, fences), closed' = closed,
           NEW i \in inputs', NEW inFlight,
           Tracked(i, fences, lines, closed, inFlight)
    PROVE  i \in inputs /\ Tracked(i, raised', lines', closed', inFlight)
<1>1. i \in inputs /\ i \in FenceType
  BY DEF Completed, TypeOK
<1>2. i.at = None \/ i.at > basis
  BY <1>1 DEF Completed, Considered, FenceType, Position
<1>3. i \in fences => i \in raised'
  BY <1>2 DEF Completed
<1>4. [seq |-> i.seq, at |-> i.at] \in lines => [seq |-> i.seq, at |-> i.at] \in lines'
  BY <1>2 DEF Completed
<1> QED
  BY <1>1, <1>3, <1>4 DEF Tracked

LEMMA TrackedNext == TypeOK /\ FencesTrackInputs /\ [Next]_vars => FencesTrackInputs'
<1> SUFFICES ASSUME TypeOK, FencesTrackInputs, [Next]_vars PROVE FencesTrackInputs'
  OBVIOUS
<1>1. CASE UserMsg
  <2>1. InFlight' = InFlight
    BY <1>1, MovedType DEF UserMsg, InFlight, TypeOK
  <2> QED
    BY <1>1, <2>1 DEF UserMsg, FencesTrackInputs
<1>2. CASE RepLine
  <2>1. InFlight' = InFlight
    BY <1>2, MovedType DEF RepLine, InFlight, TypeOK
  <2>2. closed' = closed
    BY <1>2 DEF RepLine
  <2> DEFINE at == IF transcript THEN seq + 1 ELSE None
             fence == [lane |-> "cp", seq |-> seq + 1, at |-> at]
  <2>3. /\ lines' = lines \cup {[seq |-> seq + 1, at |-> at]}
        /\ inputs' = inputs \cup {fence}
        /\ raised' = IF InFlight THEN raised \cup {fence} ELSE raised
    BY <1>2 DEF RepLine
  <2>4. Tracked(fence, raised', lines', closed', InFlight')
    BY <2>1, <2>3 DEF Tracked
  <2>5. ASSUME NEW i \in inputs PROVE Tracked(i, raised', lines', closed', InFlight')
    BY <2>1, <2>2, <2>3, TrackedAll DEF Tracked
  <2> QED
    BY <2>3, <2>4, <2>5, TrackedAllNext
<1>3. CASE CallClosed
  BY <1>3 DEF CallClosed, FencesTrackInputs
<1>4. ASSUME NEW l \in Lanes, Nudge(l) PROVE FencesTrackInputs'
  BY <1>4 DEF Nudge, FencesTrackInputs, InFlight
<1>5. ASSUME NEW l \in Lanes, FastRequest(l) PROVE FencesTrackInputs'
  BY <1>5 DEF FastRequest, FencesTrackInputs, InFlight
<1>6. ASSUME NEW l \in Lanes, FastTurn(l) PROVE FencesTrackInputs'
  BY <1>6, TurnKeepsTracked
<1>7. ASSUME NEW l \in Lanes, FastCancelled(l) PROVE FencesTrackInputs'
  BY <1>7 DEF FastCancelled, FencesTrackInputs, InFlight
<1>8. CASE FastSpeak
  BY <1>8 DEF FastSpeak, FencesTrackInputs, InFlight
<1>9. CASE StepStarted
  BY <1>9 DEF StepStarted, FencesTrackInputs, InFlight
<1>10. CASE StepCompleted
  <2>1. InFlight' = InFlight
    BY <1>10, MovedType DEF StepCompleted, InFlight, TypeOK
  <2>2. slow \in Nat /\ raised \in SUBSET FenceType
    BY <1>10 DEF StepCompleted, TypeOK, Position
  <2>3. Completed(slow, raised) /\ closed' = closed
    BY <1>10 DEF StepCompleted
  <2>4. ASSUME NEW i \in inputs' PROVE Tracked(i, raised', lines', closed', InFlight')
    <3>1. i \in inputs
      BY <2>3 DEF Completed
    <3>2. Tracked(i, raised, lines, closed, InFlight)
      BY <3>1, TrackedAll
    <3> QED
      BY <2>1, <2>2, <2>3, <3>2, CompletionKeepsTracked
  <2> QED
    BY <2>4, TrackedAllNext
<1>11. CASE StepMints
  <2> DEFINE fences == IF closed THEN {} ELSE
                 {[lane |-> "cp", seq |-> x.seq, at |-> x.at] : x \in lines}
  <2>1. slow \in Nat /\ fences \in SUBSET FenceType
    BY <1>11 DEF StepMints, TypeOK, Position, FenceType, LineType, Lanes
  <2>2. Completed(slow, fences) /\ closed' = closed
    BY <1>11 DEF StepMints
  <2>3. ASSUME NEW i \in inputs' PROVE Tracked(i, raised', lines', closed', TRUE)
    <3>1. i \in inputs /\ i \in FenceType
      BY <2>2 DEF Completed, TypeOK
    <3>2. i.lane # "user"
      BY <1>11, <3>1 DEF FencesTrackInputs, StepMints
    <3>3. ~closed /\ i.lane = "cp" => i \in fences
      <4> SUFFICES ASSUME ~closed, i.lane = "cp" PROVE i \in fences
        OBVIOUS
      <4>1. [seq |-> i.seq, at |-> i.at] \in lines
        BY <3>1 DEF FencesTrackInputs
      <4>2. i = [lane |-> "cp", seq |-> i.seq, at |-> i.at]
        BY <3>1 DEF FenceType
      <4> DEFINE x == [seq |-> i.seq, at |-> i.at]
      <4>3. x.seq = i.seq /\ x.at = i.at
        OBVIOUS
      <4> QED
        BY <4>1, <4>2, <4>3
    <3>4. Tracked(i, fences, lines, closed, TRUE)
      BY <3>1, <3>2, <3>3 DEF Tracked, FencesTrackInputs
    <3> QED
      BY <2>1, <2>2, <3>4, CompletionKeepsTracked
  <2>4. InFlight'
    BY <1>11 DEF StepMints, InFlight
  <2> QED
    BY <2>3, <2>4, TrackedAllNext
<1>12. CASE OtherWake
  BY <1>12 DEF OtherWake, FencesTrackInputs, InFlight
<1>13. CASE EpochMoves
  <2>1. InFlight' = InFlight
    BY <1>13, MovedType DEF EpochMoves, InFlight, TypeOK
  <2> QED
    BY <1>13, <2>1 DEF EpochMoves, FencesTrackInputs
<1>14. CASE Release
  BY <1>14 DEF Release, FencesTrackInputs, InFlight, OnFloor
<1>15. CASE Revoke
  BY <1>15 DEF Revoke, FencesTrackInputs, InFlight, OnFloor
<1>16. CASE FenceWait
  BY <1>16 DEF FenceWait, FencesTrackInputs, InFlight, OnFloor
<1>17. CASE Expire
  BY <1>17 DEF Expire, FencesTrackInputs, InFlight
<1>18. CASE UNCHANGED vars
  BY <1>18 DEF vars, FencesTrackInputs, InFlight
<1> QED
  BY <1>1, <1>2, <1>3, <1>4, <1>5, <1>6, <1>7, <1>8, <1>9, <1>10, <1>11, <1>12,
     <1>13, <1>14, <1>15, <1>16, <1>17, <1>18 DEF Next

LEMMA TrackedInit == Init => FencesTrackInputs
BY DEF Init, FencesTrackInputs

(* A fence stands for each input that needs one, at the position it must   *)
(* reach (Authority._raised and _lines, kernel/fence.py).                  *)
THEOREM FencesTrack == Spec => []FencesTrackInputs
<1>1. Init => TypeOK /\ FencesTrackInputs
  BY TypeInit, TrackedInit
<1>2. TypeOK /\ FencesTrackInputs /\ [Next]_vars => (TypeOK /\ FencesTrackInputs)'
  BY TypeNext, TrackedNext
<1> QED
  BY <1>1, <1>2, PTL DEF Spec

(* The floor's revalidation (kernel/speaker.py _floor_revalidated) lets no *)
(* accept out while something the user or the rep said is unconsidered.    *)
THEOREM NothingUnheard == Spec => ReleaseCovered
<1>1. TypeOK /\ FencesTrackInputs /\ Release => inputs = {}
  <2> SUFFICES ASSUME TypeOK, FencesTrackInputs, Release, NEW i \in inputs PROVE FALSE
    OBVIOUS
  <2>1. InFlight /\ raised = {} /\ ~closed
    BY DEF Release, OnFloor, InFlight, Why
  <2>2. i.lane \in {"user", "cp"}
    BY DEF TypeOK, FenceType, Lanes
  <2> QED
    BY <2>1, <2>2 DEF FencesTrackInputs
<1>2. TypeOK /\ FencesTrackInputs /\ [Next]_vars => [Release => inputs = {}]_vars
  BY <1>1
<1> QED
  BY <1>2, FenceTypes, FencesTrack, PTL DEF Spec, ReleaseCovered

-----------------------------------------------------------------------------
(* No fence is orphaned.  Beside FencesPursued, that no fence or line is   *)
(* later than the log: a request then sees each line there is, and a turn  *)
(* is later than each answer there was.                                    *)
InLog(x) == x.seq <= seq /\ (x.at = None \/ x.at <= seq)
AllInLog == (\A f \in raised : InLog(f)) /\ (\A x \in lines : InLog(x))

PursuitInv == TypeOK /\ AllInLog /\ FencesPursued

LEMMA InLogNext == TypeOK /\ AllInLog /\ [Next]_vars => AllInLog'
<1> SUFFICES ASSUME TypeOK, AllInLog, [Next]_vars PROVE AllInLog'
  OBVIOUS
<1> USE FenceConstants DEF FenceConstants, AllInLog, InLog
<1>1. seq \in Nat
  BY DEF TypeOK
<1>2. \A f \in raised : f.seq \in Nat /\ f.at \in Nat \cup {None}
  BY DEF TypeOK, FenceType, Position
<1>3. \A x \in lines : x.seq \in Nat /\ x.at \in Nat \cup {None}
  BY DEF TypeOK, LineType, Position
<1>4. CASE UserMsg
  BY <1>1, <1>2, <1>3, <1>4 DEF UserMsg
<1>5. CASE RepLine
  <2> DEFINE at == IF transcript THEN seq + 1 ELSE None
             new == [lane |-> "cp", seq |-> seq + 1, at |-> at]
             line2 == [seq |-> seq + 1, at |-> at]
  <2>1. /\ seq' = seq + 1 /\ lines' = lines \cup {line2}
        /\ raised' \subseteq raised \cup {new}
    BY <1>5 DEF RepLine
  <2>2. \A f \in {new, line2} : InLog(f)'
    BY <1>1, <2>1
  <2>3. \A f \in raised \cup lines : InLog(f)'
    BY <1>1, <1>2, <1>3, <2>1
  <2> QED
    BY <2>1, <2>2, <2>3
<1>6. CASE CallClosed
  BY <1>6 DEF CallClosed
<1>7. ASSUME NEW l \in Lanes, Nudge(l) \/ FastRequest(l) \/ FastCancelled(l)
      PROVE  AllInLog'
  BY <1>7 DEF Nudge, FastRequest, FastCancelled
<1>8. ASSUME NEW l \in Lanes, FastTurn(l) PROVE AllInLog'
  <2> DEFINE b == fast[l].basis
             bind(f) == IF f.lane = l THEN Answer(f, b, seq + 1) ELSE f
  <2>1. seq' = seq + 1 /\ raised' = {bind(f) : f \in raised}
    BY <1>8 DEF FastTurn
  <2>2. lines' = IF l = "cp" THEN {Answer(x, b, seq + 1) : x \in lines} ELSE lines
    BY <1>8 DEF FastTurn
  <2>3. ASSUME NEW x, x \in FenceType \/ x \in LineType, InLog(x)
        PROVE  InLog(x)' /\ (Answer(x, b, seq + 1).seq <= seq + 1
                 /\ (Answer(x, b, seq + 1).at = None \/ Answer(x, b, seq + 1).at <= seq + 1))
    <3>1. x.seq \in Nat /\ x.at \in Nat \cup {None}
      BY <2>3 DEF FenceType, LineType, Position
    <3>2. Answer(x, b, seq + 1).seq = x.seq
      BY <2>3 DEF Answer, FenceType, LineType
    <3>3. Answer(x, b, seq + 1).at \in {x.at, seq + 1}
      BY <2>3 DEF Answer, FenceType, LineType
    <3> QED
      BY <1>1, <2>1, <2>3, <3>1, <3>2, <3>3
  <2>4. \A f \in raised' : InLog(f)'
    BY <2>1, <2>3 DEF TypeOK
  <2>5. \A x \in lines' : InLog(x)'
    BY <2>1, <2>2, <2>3 DEF TypeOK
  <2> QED
    BY <2>4, <2>5
<1>9. CASE FastSpeak
  BY <1>9 DEF FastSpeak
<1>10. CASE StepStarted \/ OtherWake \/ EpochMoves
  BY <1>10 DEF StepStarted, OtherWake, EpochMoves
<1>11. CASE StepCompleted
  BY <1>11 DEF StepCompleted, Completed
<1>12. CASE StepMints
  <2> DEFINE fences == IF closed THEN {} ELSE
                 {[lane |-> "cp", seq |-> x.seq, at |-> x.at] : x \in lines}
  <2>1. Completed(slow, fences) /\ seq' = seq
    BY <1>12 DEF StepMints
  <2>2. \A f \in fences : InLog(f)
    OBVIOUS
  <2> QED
    BY <2>1, <2>2 DEF Completed
<1>13. CASE Release \/ Revoke \/ FenceWait \/ Expire
  BY <1>13 DEF Release, Revoke, FenceWait, Expire
<1>14. CASE UNCHANGED vars
  BY <1>14 DEF vars
<1> QED
  BY <1>4, <1>5, <1>6, <1>7, <1>8, <1>9, <1>10, <1>11, <1>12, <1>13, <1>14 DEF Next

(* A lane that keeps its triggers and its generation is still at work. *)
LEMMA AnsweringKept ==
    ASSUME NEW l \in Lanes, NEW n, Answering(l, n), pending[l] \subseteq pending'[l],
           fast'[l].stage = fast[l].stage, fast'[l].basis = fast[l].basis
    PROVE  Answering(l, n)'
BY DEF Answering

(* What happens meanwhile leaves a generation running, on the same request. *)
LEMMA SinceKeeps ==
    ASSUME NEW g \in Generation, NEW what \in {"epoch", "rep", "said"}
    PROVE  Since(g, what).stage = g.stage /\ Since(g, what).basis = g.basis
BY DEF Since, Generation

(* A step of the log's other readers and writers: nobody stops working. *)
LEMMA PursuedKept ==
    ASSUME FencesPursued, TypeOK, raised' \subseteq raised, lines' \subseteq lines,
           closed' \/ ~closed,
           \A l \in Lanes, n \in Nat : Answering(l, n) => Answering(l, n)',
           \A t \in Nat : Considering(t) => Considering(t)'
    PROVE  FencesPursued'
BY DEF FencesPursued, Pursued, TypeOK, FenceType, LineType, Position, Lanes

LEMMA PursuedNext == PursuitInv /\ [Next]_vars => FencesPursued'
<1> SUFFICES ASSUME PursuitInv, [Next]_vars PROVE FencesPursued'
  OBVIOUS
<1>1. TypeOK /\ AllInLog /\ FencesPursued
  BY DEF PursuitInv
<1>2. /\ seq \in Nat /\ None \notin Nat
      /\ \A f \in raised : f.seq \in Nat /\ f.at \in Nat \cup {None} /\ f.lane \in Lanes
      /\ \A x \in lines : x.seq \in Nat /\ x.at \in Nat \cup {None}
      /\ \A l \in Lanes : fast[l] \in Generation /\ fast[l].basis \in Nat
      /\ slow \in Nat \cup {None}
  BY <1>1, FenceConstants
     DEF TypeOK, FenceConstants, FenceType, LineType, Position, Generation
<1>3. CASE UserMsg
  <2> DEFINE new == [lane |-> "user", seq |-> seq + 1, at |-> None]
  <2>1. /\ raised' = raised \cup {new}
        /\ pending' = [pending EXCEPT !["user"] = @ \cup {"answer"}]
        /\ UNCHANGED <<lines, fast, slow, woken, closed>>
    BY <1>3 DEF UserMsg
  <2>2. \A l \in Lanes : pending[l] \subseteq pending'[l]
    BY <1>1, <2>1 DEF TypeOK
  <2>3. \A l \in Lanes : \A n : Answering(l, n) => Answering(l, n)'
    BY <2>1, <2>2 DEF Answering
  <2>4. \A t : Considering(t) => Considering(t)'
    BY <2>1 DEF Considering
  <2>5. pending'["user"] # {}
    BY <1>1, <2>1 DEF TypeOK, Lanes
  <2>6. \A f \in {new} : Pursued(f)'
    BY <2>5 DEF Pursued, Answering
  <2>7. \A f \in raised : Pursued(f)'
    BY <1>1, <1>2, <2>3, <2>4 DEF FencesPursued, Pursued
  <2>8. ~closed' => \A x \in lines' : x.at = None => Answering("cp", x.seq)'
    BY <1>1, <2>1, <2>3 DEF FencesPursued, Lanes
  <2> QED
    BY <2>1, <2>6, <2>7, <2>8 DEF FencesPursued
<1>4. CASE RepLine
  <2> DEFINE at == IF transcript THEN seq + 1 ELSE None
             new == [lane |-> "cp", seq |-> seq + 1, at |-> at]
             heard == [seq |-> seq + 1, at |-> at]
  <2>1. /\ lines' = lines \cup {heard}
        /\ pending' = [pending EXCEPT !["cp"] = @ \cup {"answer"}]
        /\ UNCHANGED <<slow, closed>>
    BY <1>4 DEF RepLine
  <2>2. IF InFlight THEN raised' = raised \cup {new} /\ woken' = (woken \/ at # None)
        ELSE raised' = raised /\ woken' = woken
    BY <1>4 DEF RepLine
  <2>3. \A l \in Lanes : /\ pending[l] \subseteq pending'[l]
                         /\ fast'[l].stage = fast[l].stage
                         /\ fast'[l].basis = fast[l].basis
    BY <1>1, <1>2, <1>4, <2>1, SinceKeeps DEF RepLine, TypeOK
  <2>4. \A l \in Lanes : \A n : Answering(l, n) => Answering(l, n)'
    BY <2>3, AnsweringKept
  <2>5. \A t : Considering(t) => Considering(t)'
    BY <2>1, <2>2 DEF Considering
  <2>6. pending'["cp"] # {}
    BY <1>1, <2>1 DEF TypeOK, Lanes
  <2>7. \A f \in raised : Pursued(f)'
    BY <1>1, <1>2, <2>4, <2>5 DEF FencesPursued, Pursued
  <2>8. ASSUME InFlight, NEW f, f = new PROVE Pursued(f)'
    <3>1. CASE at = None
      <4>1. f.at = None /\ f.lane = "cp"
        BY <2>8, <3>1
      <4> QED
        BY <2>6, <4>1 DEF Pursued, Answering
    <3>2. CASE at # None
      <4>1. f.at # None /\ woken'
        BY <2>2, <2>8, <3>2
      <4> QED
        BY <4>1 DEF Pursued, Considering
    <3> QED
      BY <3>1, <3>2
  <2>9. \A x \in lines' : Answering("cp", x.seq)'
    BY <2>6 DEF Answering
  <2> QED
    BY <2>2, <2>7, <2>8, <2>9 DEF FencesPursued
<1>5. CASE CallClosed
  BY <1>1, <1>5 DEF CallClosed, FencesPursued, Pursued, Answering, Considering
<1>6. ASSUME NEW l \in Lanes, Nudge(l) PROVE FencesPursued'
  <2>1. \A k \in Lanes : pending[k] \subseteq pending'[k]
    BY <1>1, <1>6 DEF Nudge, TypeOK
  <2>2. UNCHANGED <<raised, lines, fast, slow, woken, closed>>
    BY <1>6 DEF Nudge
  <2> QED
    BY <1>1, <2>1, <2>2, PursuedKept DEF Answering, Considering
<1>7. ASSUME NEW l \in Lanes, FastRequest(l) PROVE FencesPursued'
  <2>1. /\ fast'[l].stage = "asked" /\ fast'[l].basis = seq
        /\ UNCHANGED <<raised, lines, slow, woken, closed>>
    BY <1>1, <1>7 DEF FastRequest, TypeOK, Idle
  <2>2. \A k \in Lanes \ {l} : fast'[k] = fast[k] /\ pending'[k] = pending[k]
    BY <1>1, <1>7 DEF FastRequest, TypeOK
  <2>3. ASSUME NEW f \in raised PROVE Pursued(f)'
    <3>1. Pursued(f) /\ f.seq <= seq
      BY <1>1 DEF FencesPursued, AllInLog, InLog
    <3> QED
      BY <1>2, <2>1, <2>2, <3>1 DEF Pursued, Answering, Considering
  <2>4. ASSUME ~closed, NEW x \in lines, x.at = None PROVE Answering("cp", x.seq)'
    <3>1. Answering("cp", x.seq) /\ x.seq <= seq
      BY <1>1, <2>4 DEF FencesPursued, AllInLog, InLog
    <3> QED
      BY <2>1, <2>2, <3>1 DEF Answering, Lanes
  <2> QED
    BY <2>1, <2>3, <2>4 DEF FencesPursued
<1>8. ASSUME NEW l \in Lanes, FastTurn(l) PROVE FencesPursued'
  <2> DEFINE b == fast[l].basis
             bind(f) == IF f.lane = l THEN Answer(f, b, seq + 1) ELSE f
  <2>1. /\ raised' = {bind(f) : f \in raised}
        /\ lines' = IF l = "cp" THEN {Answer(x, b, seq + 1) : x \in lines} ELSE lines
        /\ woken' = (woken \/ raised' # raised)
        /\ UNCHANGED <<pending, slow, closed>>
    BY <1>8 DEF FastTurn
  <2>2. \A k \in Lanes \ {l} : fast'[k] = fast[k]
    BY <1>1, <1>8 DEF FastTurn, TypeOK, Lanes
  (* What this lane's turn leaves unbound, a trigger waits for. *)
  <2>3. ASSUME NEW n \in Nat, Answering(l, n), n > b PROVE pending[l] # {}
    BY <1>2, <2>3 DEF Answering
  <2>4. ASSUME NEW g \in raised', NEW f \in raised, g = bind(f) PROVE Pursued(g)'
    <3>1. Pursued(f) /\ InLog(f) /\ f \in FenceType
      BY <1>1 DEF FencesPursued, AllInLog, TypeOK
    <3>2. CASE f.lane = l /\ f.at = None /\ f.seq <= b
      <4>1. g = [f EXCEPT !.at = seq + 1]
        BY <1>2, <2>4, <3>2 DEF Answer
      <4>2. g.at = seq + 1
        BY <3>1, <4>1 DEF FenceType
      <4>3. g \notin raised
        BY <1>1, <1>2, <4>2 DEF AllInLog, InLog
      <4>4. woken'
        BY <2>1, <4>3
      <4> QED
        BY <1>2, <4>2, <4>4 DEF Pursued, Considering
    <3>3. CASE ~(f.lane = l /\ f.at = None /\ f.seq <= b)
      <4>1. g = f
        BY <1>2, <2>4, <3>3 DEF Answer
      <4>2. CASE f.at = None /\ f.lane = l
        <5>1. pending[l] # {}
          BY <1>2, <2>3, <3>1, <3>3, <4>2 DEF Pursued
        <5> QED
          BY <2>1, <4>1, <4>2, <5>1 DEF Pursued, Answering
      <4>3. CASE f.at = None /\ f.lane # l
        BY <1>2, <2>1, <2>2, <3>1, <4>1, <4>3 DEF Pursued, Answering
      <4>4. CASE f.at # None
        BY <2>1, <3>1, <4>1, <4>4 DEF Pursued, Considering
      <4> QED
        BY <4>2, <4>3, <4>4
    <3> QED
      BY <3>2, <3>3
  <2>5. ASSUME ~closed, NEW y \in lines', y.at = None PROVE Answering("cp", y.seq)'
    <3>1. CASE l = "cp"
      <4>1. PICK x \in lines : y = Answer(x, b, seq + 1)
        BY <2>1, <3>1
      <4>2. y = x /\ x.seq > b
        <5>1. x \in LineType
          BY <1>1 DEF TypeOK
        <5> QED
          BY <1>2, <2>5, <4>1, <5>1 DEF Answer, LineType
      <4>3. Answering("cp", x.seq)
        BY <1>1, <2>5, <4>2 DEF FencesPursued
      <4>4. pending["cp"] # {}
        BY <1>2, <2>3, <3>1, <4>2, <4>3
      <4> QED
        BY <2>1, <4>4 DEF Answering
    <3>2. CASE l # "cp"
      <4>1. y \in lines /\ Answering("cp", y.seq)
        BY <1>1, <2>1, <2>5, <3>2 DEF FencesPursued
      <4> QED
        BY <2>1, <2>2, <3>2, <4>1 DEF Answering, Lanes
    <3> QED
      BY <3>1, <3>2
  <2> QED
    BY <2>1, <2>4, <2>5 DEF FencesPursued
<1>9. ASSUME NEW l \in Lanes, FastCancelled(l) PROVE FencesPursued'
  <2>1. /\ pending'[l] # {} /\ UNCHANGED <<raised, lines, slow, woken, closed>>
        /\ \A k \in Lanes \ {l} : fast'[k] = fast[k] /\ pending'[k] = pending[k]
    BY <1>1, <1>9 DEF FastCancelled, TypeOK
  <2>2. \A k \in Lanes, n \in Nat : Answering(k, n) => Answering(k, n)'
    BY <2>1 DEF Answering
  <2> QED
    BY <1>1, <2>1, <2>2, PursuedKept DEF Considering
<1>10. CASE FastSpeak
  <2>1. /\ fast["cp"].stage = "floor" /\ fast'["user"] = fast["user"]
        /\ UNCHANGED <<raised, lines, slow, woken, closed>>
        /\ \A k \in Lanes : pending[k] \subseteq pending'[k]
    BY <1>1, <1>10 DEF FastSpeak, TypeOK, Lanes
  <2>2. \A k \in Lanes, n \in Nat : Answering(k, n) => Answering(k, n)'
    BY <2>1 DEF Answering, Lanes
  <2> QED
    BY <1>1, <2>1, <2>2, PursuedKept DEF Considering
<1>11. CASE StepStarted
  <2>1. slow' = seq /\ UNCHANGED <<raised, lines, fast, pending, closed>>
    BY <1>11 DEF StepStarted
  <2>2. \A f \in raised : f.at # None => Considering(f.at)'
    BY <1>1, <1>2, <2>1 DEF Considering, AllInLog, InLog
  <2> QED
    BY <1>1, <2>1, <2>2 DEF FencesPursued, Pursued, Answering
<1>12. CASE StepCompleted
  <2>1. /\ raised' = {f \in raised : f.at = None \/ f.at > slow}
        /\ lines' \subseteq lines /\ slow # None
        /\ UNCHANGED <<fast, pending, woken, closed>>
    BY <1>12 DEF StepCompleted, Completed
  <2>2. \A f \in raised' : Pursued(f)'
    BY <1>1, <1>2, <2>1 DEF FencesPursued, Pursued, Answering, Considering
  <2> QED
    BY <1>1, <2>1, <2>2 DEF FencesPursued, Answering
<1>13. CASE StepMints
  <2> DEFINE fences == IF closed THEN {} ELSE
                 {[lane |-> "cp", seq |-> x.seq, at |-> x.at] : x \in lines}
  <2>1. /\ raised' \subseteq fences /\ lines' \subseteq lines
        /\ woken' = (woken \/ \E f \in fences : f.at # None)
        /\ UNCHANGED <<fast, pending, closed>>
    BY <1>13 DEF StepMints, Completed
  <2>2. ASSUME NEW f \in raised' PROVE Pursued(f)'
    <3>1. f \in fences /\ ~closed
      BY <2>1, <2>2
    <3>2. PICK x \in lines : f = [lane |-> "cp", seq |-> x.seq, at |-> x.at]
      BY <3>1
    <3>3. f.at = None => Answering(f.lane, f.seq)
      BY <1>1, <3>1, <3>2 DEF FencesPursued
    <3> QED
      BY <2>1, <3>1, <3>3 DEF Pursued, Answering, Considering
  <2> QED
    BY <1>1, <2>1, <2>2 DEF FencesPursued, Answering
<1>14. CASE OtherWake
  BY <1>1, <1>14 DEF OtherWake, FencesPursued, Pursued, Answering, Considering
<1>15. CASE EpochMoves
  <2>1. UNCHANGED <<raised, lines, pending, slow, woken, closed>>
    BY <1>15 DEF EpochMoves
  <2>2. \A l \in Lanes : fast'[l].stage = fast[l].stage /\ fast'[l].basis = fast[l].basis
    BY <1>2, <1>15, SinceKeeps DEF EpochMoves
  <2>3. \A l \in Lanes, n \in Nat : Answering(l, n) => Answering(l, n)'
    BY <2>1, <2>2 DEF Answering
  <2> QED
    BY <1>1, <2>1, <2>3, PursuedKept DEF Considering
<1>16. CASE Release
  <2>1. UNCHANGED <<raised, lines, pending, slow, woken, closed>>
    BY <1>16 DEF Release
  <2>2. \A l \in Lanes : fast'[l].stage = fast[l].stage /\ fast'[l].basis = fast[l].basis
    BY <1>1, <1>2, <1>16, SinceKeeps DEF Release, TypeOK
  <2>3. \A l \in Lanes, n \in Nat : Answering(l, n) => Answering(l, n)'
    BY <2>1, <2>2 DEF Answering
  <2> QED
    BY <1>1, <2>1, <2>3, PursuedKept DEF Considering
<1>17. CASE Revoke \/ FenceWait \/ Expire
  BY <1>1, <1>17
     DEF Revoke, FenceWait, Expire, FencesPursued, Pursued, Answering, Considering
<1>18. CASE UNCHANGED vars
  BY <1>1, <1>18 DEF vars, FencesPursued, Pursued, Answering, Considering
<1> QED
  BY <1>3, <1>4, <1>5, <1>6, <1>7, <1>8, <1>9, <1>10, <1>11, <1>12, <1>13, <1>14,
     <1>15, <1>16, <1>17, <1>18 DEF Next

(* Somebody is at work on each fence that is up (kernel/fence.py): the     *)
(* safety half of FencesClear.                                             *)
THEOREM NobodyForgets == Spec => []FencesPursued
<1>1. Init => PursuitInv
  <2>1. Init => AllInLog /\ FencesPursued
    BY DEF Init, AllInLog, FencesPursued
  <2> QED
    BY <2>1, TypeInit DEF PursuitInv
<1>2. PursuitInv /\ [Next]_vars => PursuitInv'
  BY TypeNext, InLogNext, PursuedNext DEF PursuitInv
<1>3. PursuitInv => FencesPursued
  BY DEF PursuitInv
<1> QED
  BY <1>1, <1>2, <1>3, PTL DEF Spec

-----------------------------------------------------------------------------
(* A wait for the fences. *)
(* A line that looks again waits for nothing. *)
LEMMA MovedLooks ==
    ASSUME NEW l \in AcceptLine, NEW rose \in BOOLEAN
    PROVE  Moved(l, rose).stage \notin {"held", "waiting"}
BY DEF Moved, AcceptLine

LEMMA WaitsNext == TypeOK /\ LineWaitsForCause /\ [Next]_vars => LineWaitsForCause'
<1> SUFFICES ASSUME TypeOK, LineWaitsForCause, [Next]_vars PROVE LineWaitsForCause'
  OBVIOUS
<1>1. line \in AcceptLine
  BY DEF TypeOK
(* Nothing the wait depends on moved. *)
<1>2. ASSUME UNCHANGED <<closed, epoch, line, raised>> PROVE LineWaitsForCause'
  BY <1>2 DEF LineWaitsForCause, Waits, Why, Rose, PartnerOnly, PartnerBound
(* The line looks again, or there is none. *)
<1>3. ASSUME line'.stage \notin {"held", "waiting"} PROVE LineWaitsForCause'
  BY <1>3 DEF LineWaitsForCause
<1>4. CASE UserMsg \/ CallClosed \/ EpochMoves
  <2>1. line' = Moved(line, TRUE) \/ line' = Moved(line, FALSE)
    BY <1>4 DEF UserMsg, CallClosed, EpochMoves
  <2> QED
    BY <1>1, <1>3, <2>1, MovedLooks
<1>5. CASE RepLine
  <2>1. CASE InFlight
    BY <1>1, <1>3, <1>5, <2>1, MovedLooks DEF RepLine
  <2>2. CASE ~InFlight
    BY <1>3, <1>5, <2>2 DEF RepLine, InFlight
  <2> QED
    BY <2>1, <2>2
<1>6. ASSUME NEW l \in Lanes, Nudge(l) \/ FastRequest(l) \/ FastCancelled(l)
      PROVE  LineWaitsForCause'
  BY <1>2, <1>6 DEF Nudge, FastRequest, FastCancelled
<1>7. ASSUME NEW l \in Lanes, FastTurn(l) PROVE LineWaitsForCause'
  <2> DEFINE b == fast[l].basis
             bind(f) == IF f.lane = l THEN Answer(f, b, seq + 1) ELSE f
  <2>1. raised' = {bind(f) : f \in raised} /\ UNCHANGED <<closed, epoch, line>>
    BY <1>7 DEF FastTurn
  <2>2. ASSUME NEW f \in raised
        PROVE  bind(f).lane = f.lane /\ (f.at # None => bind(f) = f)
    <3>1. f \in FenceType
      BY DEF TypeOK
    <3> QED
      BY <3>1 DEF Answer, FenceType
  <2>3. raised' # {} <=> raised # {}
    BY <2>1
  <2>4. {f.lane : f \in raised'} = {f.lane : f \in raised}
    BY <2>1, <2>2
  <2>5. PartnerBound => PartnerBound'
    BY <2>1, <2>2 DEF PartnerBound
  <2> QED
    BY <2>1, <2>3, <2>4, <2>5 DEF LineWaitsForCause, Waits, Why, Rose, PartnerOnly
<1>8. CASE FastSpeak \/ StepStarted \/ OtherWake
  BY <1>2, <1>8 DEF FastSpeak, StepStarted, OtherWake
<1>9. CASE StepCompleted
  <2>1. CASE raised' # raised
    BY <1>1, <1>3, <1>9, <2>1, MovedLooks DEF StepCompleted
  <2>2. CASE raised' = raised
    BY <1>2, <1>9, <2>2 DEF StepCompleted
  <2> QED
    BY <2>1, <2>2
<1>10. CASE StepMints
  BY <1>3, <1>10 DEF StepMints
<1>11. CASE Release \/ Revoke \/ Expire
  BY <1>3, <1>11 DEF Release, Revoke, Expire, NoLine
<1>12. CASE FenceWait
  <2>1. /\ Waits /\ UNCHANGED <<closed, epoch, raised>>
        /\ line'.epoch = line.epoch
        /\ line'.stage = IF PartnerBound THEN "held" ELSE "waiting"
        /\ line'.users \in {line.users, "same"}
    BY <1>1, <1>12 DEF FenceWait, AcceptLine
  <2>2. line'.users = "rose" => line.users = "rose"
    BY <2>1
  <2>3. Waits' /\ PartnerBound' = PartnerBound
    BY <2>1, <2>2 DEF Waits, Why, Rose, PartnerOnly, PartnerBound
  <2> QED
    BY <2>1, <2>3 DEF LineWaitsForCause
<1>13. CASE UNCHANGED vars
  BY <1>2, <1>13 DEF vars
<1> QED
  BY <1>4, <1>5, <1>6, <1>7, <1>8, <1>9, <1>10, <1>11, <1>12, <1>13 DEF Next

(* The accept line waits only while a partner fence still holds it, and    *)
(* keeps FastC silent only while no fence needs its answer                 *)
(* (kernel/speaker.py _floor_revalidated): the safety half of LineResolves.*)
THEOREM WaitsAreDue == Spec => []LineWaitsForCause
<1>1. Init => LineWaitsForCause
  BY DEF Init, LineWaitsForCause, NoLine
<1> QED
  BY <1>1, WaitsNext, FenceTypes, PTL DEF Spec
=============================================================================
