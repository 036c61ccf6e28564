--------------------------- MODULE SpeakerProofs ---------------------------
(***************************************************************************)
(* The floor for every value of its constants: types, one speaker at a     *)
(* time, the count of the lines that wait, that a verbatim line goes out   *)
(* only once every rep turn has landed, and who may cut it: a person who   *)
(* typed after it began, and never the simulated rep.                      *)
(***************************************************************************)
EXTENDS Speaker, FiniteSetTheorems, TLAPS

Tasks == Verbatim \cup {"fast", "rep"}

-----------------------------------------------------------------------------
(* The lock's queue. *)

In(s) == {s[i] : i \in DOMAIN s}
Once(s) == \A i, j \in DOMAIN s : s[i] = s[j] => i = j

(* One more waits at the end of the queue. *)
LEMMA AppendIn ==
    ASSUME NEW S, NEW s \in Seq(S), NEW t \in S
    PROVE  /\ Append(s, t) \in Seq(S)
           /\ In(Append(s, t)) = In(s) \cup {t}
           /\ Once(s) /\ t \notin In(s) => Once(Append(s, t))
           /\ s # <<>> => Append(s, t) # <<>> /\ Head(Append(s, t)) = Head(s)
<1> DEFINE q == Append(s, t)
<1>1. /\ q \in Seq(S) /\ Len(q) = Len(s) + 1 /\ q[Len(s) + 1] = t
      /\ \A i \in 1..Len(s) : q[i] = s[i]
      /\ DOMAIN q = 1..(Len(s) + 1) /\ DOMAIN s = 1..Len(s) /\ Len(s) \in Nat
  OBVIOUS
<1>2. In(q) = In(s) \cup {t}
  BY <1>1 DEF In
<1>3. Once(s) /\ t \notin In(s) => Once(q)
  BY <1>1 DEF In, Once
<1>4. s # <<>> => q # <<>> /\ Head(q) = Head(s)
  BY <1>1
<1> QED
  BY <1>1, <1>2, <1>3, <1>4

(* The first of the queue leaves it. *)
LEMMA TailIn ==
    ASSUME NEW S, NEW s \in Seq(S), s # <<>>
    PROVE  /\ Tail(s) \in Seq(S) /\ Head(s) \in S
           /\ In(s) = In(Tail(s)) \cup {Head(s)}
           /\ Once(s) => Once(Tail(s)) /\ Head(s) \notin In(Tail(s))
<1> DEFINE q == Tail(s)
<1>1. /\ q \in Seq(S) /\ Len(q) = Len(s) - 1 /\ Head(s) = s[1] /\ Head(s) \in S
      /\ \A i \in 1..Len(q) : q[i] = s[i + 1]
      /\ DOMAIN q = 1..Len(q) /\ DOMAIN s = 1..Len(s) /\ Len(s) \in Nat /\ Len(s) > 0
  OBVIOUS
<1>2. In(s) = In(q) \cup {Head(s)}
  <2>1. ASSUME NEW x \in In(s) PROVE x \in In(q) \cup {Head(s)}
    <3>1. PICK i \in 1..Len(s) : x = s[i]
      BY <1>1 DEF In
    <3>2. CASE i = 1
      BY <1>1, <3>1, <3>2
    <3>3. CASE i # 1
      <4>1. i - 1 \in DOMAIN q /\ q[i - 1] = s[i]
        BY <1>1, <3>3
      <4> QED
        BY <3>1, <4>1 DEF In
    <3> QED
      BY <3>2, <3>3
  <2>2. In(q) \subseteq In(s) /\ Head(s) \in In(s)
    BY <1>1 DEF In
  <2> QED
    BY <2>1, <2>2
<1>3. Once(s) => Once(q)
  BY <1>1 DEF Once
<1>4. Once(s) => Head(s) \notin In(q)
  BY <1>1 DEF Once, In
<1> QED
  BY <1>1, <1>2, <1>3, <1>4

-----------------------------------------------------------------------------
(* Types.  That queued is no less than zero follows from what it counts.   *)

LEMMA HeadTurn ==
    ASSUME Values, incoming # <<>>
    PROVE  /\ Head(incoming) \in Turn /\ Tail(incoming) \in Seq(Turn)
           /\ Head(incoming).n \in Nat /\ Head(incoming) # NoTurn
<1>1. Head(incoming) \in Turn /\ Tail(incoming) \in Seq(Turn)
  BY TailIn DEF Values
<1>2. \A t \in Turn : t.n \in Nat /\ t # NoTurn
  BY DEF Turn, NoTurn
<1> QED
  BY <1>1, <1>2

(* A task joins the lock's queue, or its first leaves. *)
LEMMA JoinType == ASSUME Values, NEW t \in Tasks PROVE Append(floor, t) \in Seq(Tasks)
BY DEF Values, Tasks

LEMMA LeaveType == ASSUME Values, floor # <<>> PROVE Tail(floor) \in Seq(Tasks)
BY DEF Values, Tasks

LEMMA HoldsFloor == ASSUME OneSpeaker, NEW t \in Speakers PROVE floor # <<>>
BY DEF OneSpeaker, Holds

LEMMA WakeType ==
    ASSUME Values, NEW from, NEW to \in Stages PROVE Wake(from, to) \in [Verbatim -> Stages]
BY DEF Values, Wake

(* A rep turn begins, perhaps. *)
LEMMA HearType ==
    ASSUME Values, Hear \/ UNCHANGED <<begun, composing>>
    PROVE  begun' \in Nat /\ composing' \subseteq Nat \ {0}
<1>1. begun \in Nat /\ begun + 1 \in Nat \ {0} /\ composing \subseteq Nat \ {0}
  BY DEF Values
<1>2. CASE UNCHANGED <<begun, composing>>
  BY <1>1, <1>2
<1>3. CASE begun' = begun + 1 /\ composing' = composing \cup {begun + 1}
  BY <1>1, <1>3
<1> QED
  BY <1>2, <1>3 DEF Hear, BeginTurn

LEMMA RepValues == Values /\ RepStep => Values'
<1> SUFFICES ASSUME Values, RepStep PROVE Values'
  OBVIOUS
<1>1. CASE Tick
  BY <1>1 DEF Tick, Values, BeginTurn, lineVars, fastVars, speech
<1>2. CASE Composed
  <2>1. PICK n \in composing :
           /\ composing' = composing \ {n}
           /\ stage' = IF composing' = {} THEN Wake("quiet", "quieted") ELSE stage
           /\ \/ incoming' = incoming /\ landed' = landed \cup {n}
              \/ /\ \E t \in Turns(n) : incoming' = Append(incoming, t)
                 /\ landed' = landed
           /\ UNCHANGED <<sim, floor, queued, held, waits, fastVars, call, rep, begun, speech>>
    BY <1>2 DEF Composed
  <2>2. stage' \in [Verbatim -> Stages]
    BY <2>1, WakeType DEF Values, Stages, Waiting
  <2>3. n \in Nat \ {0}
    BY DEF Values
  <2>4. Turns(n) \subseteq Turn
    BY <2>3 DEF Turns, Turn
  <2>5. incoming' \in Seq(Turn)
    <3>1. CASE incoming' = incoming
      BY <3>1 DEF Values
    <3>2. CASE \E t \in Turns(n) : incoming' = Append(incoming, t)
      BY <2>4, <3>2, AppendIn DEF Values
    <3> QED
      BY <2>1, <3>1, <3>2
  <2>6. landed' \subseteq Nat
    BY <2>1, <2>3 DEF Values
  <2> QED
    BY <2>1, <2>2, <2>5, <2>6 DEF Values, fastVars, speech
<1>3. CASE Types
  <2> DEFINE t == [n |-> begun', lines |-> TRUE, end |-> FALSE]
  <2>1. begun' \in Nat \ {0}
    BY <1>3 DEF Types, BeginTurn, Values
  <2>2. t \in Turn
    BY <2>1 DEF Turn
  <2>3. incoming' = Append(incoming, t)
    BY <1>3 DEF Types
  <2>4. incoming' \in Seq(Turn)
    BY <2>2, <2>3, AppendIn DEF Values
  <2> QED
    BY <1>3, <2>1, <2>4 DEF Types, Values, lineVars, fastVars, speech
<1>4. CASE TurnBegins
  <2>1. floor' \in Seq(Tasks)
    BY <1>4, JoinType DEF TurnBegins, Tasks
  <2>2. rep' \in Turn /\ barge' \in Nat /\ incoming' \in Seq(Turn)
    BY <1>4, HeadTurn DEF TurnBegins, Takes, Values
  <2> QED
    BY <1>4, <2>1, <2>2 DEF TurnBegins, Values, Tasks, lineVars, fastVars
<1>5. CASE TurnSilent
  <2>1. incoming' \in Seq(Turn) /\ landed' \subseteq Nat
    BY <1>5, HeadTurn DEF TurnSilent, Takes, Values
  <2> QED
    BY <1>5, <2>1 DEF TurnSilent, Values, lineVars, fastVars, speech
<1>6. CASE TurnLands
  <2>1. floor' \in Seq(Tasks) /\ stage' \in [Verbatim -> Stages]
    BY <1>6, LeaveType, WakeType DEF TurnLands, Holds, Stages, Waiting
  <2>2. rep.n \in Nat
    BY DEF Values, Turn, NoTurn
  <2>3. fastSays' \in [reply : BOOLEAN, old : BOOLEAN]
    BY <1>6 DEF TurnLands, Values
  <2> QED
    BY <1>6, <2>1, <2>2, <2>3 DEF TurnLands, Values, Tasks, speech
<1> QED
  BY <1>1, <1>2, <1>3, <1>4, <1>5, <1>6 DEF RepStep

LEMMA FastValues == Values /\ OneSpeaker /\ FastStep => Values'
<1> SUFFICES ASSUME Values, OneSpeaker, FastStep PROVE Values'
  OBVIOUS
<1>1. CASE CallOpens
  BY <1>1 DEF CallOpens, Values, FastStages, lineVars, speech
<1>2. CASE FastAsks
  BY <1>2 DEF FastAsks, Values, FastStages, lineVars, repVars, speech
<1>3. CASE FastTurned
  BY <1>3 DEF FastTurned, Values, FastStages, lineVars, repVars, speech
<1>4. CASE FastJoins
  <2>1. floor' \in Seq(Tasks) /\ fast' \in FastStages
    BY <1>4, JoinType DEF FastJoins, Tasks, FastStages, Values
  <2> QED
    BY <1>4, <2>1 DEF FastJoins, Values, Tasks, lineVars, repVars, speech
<1>5. CASE FastGivesBack
  <2>1. floor' \in Seq(Tasks)
    BY <1>5, LeaveType DEF FastGivesBack, OnFloor, Holds
  <2> QED
    BY <1>5, <2>1 DEF FastGivesBack, Values, Tasks, FastStages, lineVars, repVars, speech
<1>6. CASE FastSilent
  <2>1. floor' \in Seq(Tasks)
    BY <1>6, LeaveType DEF FastSilent, OnFloor, Holds
  <2> QED
    BY <1>6, <2>1 DEF FastSilent, Values, Tasks, FastStages, lineVars, repVars, speech
<1>7. CASE FastSpeaks
  BY <1>7 DEF FastSpeaks, SpeechBegins, Busy, Values, FastStages, lineVars, repVars
<1>8. CASE FastHeard \/ FastCut
  <2>1. fast = "speaking" /\ FastEnds /\ (Hear \/ UNCHANGED <<begun, composing>>)
    BY <1>8 DEF FastHeard, FastCut
  <2>2. floor' \in Seq(Tasks)
    BY <2>1, LeaveType, HoldsFloor DEF FastEnds, Speakers
  <2>3. UNCHANGED <<sim, queued, lineVars, fastSays, fastTurns, call, incoming, rep, landed, speech>>
    BY <1>8 DEF FastHeard, FastCut
  <2> QED
    BY <2>1, <2>2, <2>3, HearType DEF FastEnds, Values, Tasks, FastStages, lineVars, speech
<1> QED
  BY <1>1, <1>2, <1>3, <1>4, <1>5, <1>6, <1>7, <1>8 DEF FastStep

LEMMA QueueType == ASSUME Values, NEW n, Queue(n) PROVE fast' \in FastStages
BY DEF Values, Queue, FastStages

LEMMA LineValues ==
    ASSUME Values, OneSpeaker, NEW v \in Verbatim, LineStep(v) PROVE Values'
<1>0. \A to \in Stages : [stage EXCEPT ![v] = to] \in [Verbatim -> Stages]
  BY DEF Values
<1>1. CASE Asked(v)
  BY <1>0, <1>1 DEF Asked, Values, Stages, fastVars, repVars, speech
<1>2. CASE Begins(v)
  BY <1>0, <1>2, QueueType DEF Begins, Values, Stages, Waiting, repVars, speech
<1>3. CASE Goes(v)
  <2>1. Reaches(stage[v]) \in Stages
    BY <1>3 DEF Goes, Reaches, Stages, Waiting
  <2>2. floor' \in Seq(Tasks)
    BY <1>3, JoinType DEF Goes, Tasks, Values
  <2> QED
    BY <1>0, <1>3, <2>1, <2>2 DEF Goes, Values, Tasks, fastVars, repVars, speech
<1>4. CASE GivesBack(v)
  <2>1. floor' \in Seq(Tasks)
    BY <1>4, LeaveType DEF GivesBack, Holds
  <2> QED
    BY <1>0, <1>4, <2>1 DEF GivesBack, Values, Tasks, Stages, Waiting, fastVars, repVars, speech
<1>5. CASE Releases(v)
  BY <1>0, <1>5, QueueType
  DEF Releases, NotHeld, SpeechBegins, Busy, Values, Stages, repVars
<1>6. CASE IsRevoked(v)
  <2>1. floor' \in Seq(Tasks)
    BY <1>6, LeaveType DEF IsRevoked, TakesFloor, Holds
  <2> QED
    BY <1>0, <1>6, <2>1, QueueType
    DEF IsRevoked, NotHeld, Values, Tasks, Stages, repVars, speech
<1>7. CASE WaitsForFence(v)
  <2>1. floor' \in Seq(Tasks)
    BY <1>7, LeaveType DEF WaitsForFence, TakesFloor, Holds
  <2>2. held' \in [Verbatim -> BOOLEAN] /\ fast' \in FastStages
    BY <1>7, QueueType DEF WaitsForFence, Values
  <2>3. stage' \in [Verbatim -> Stages] /\ waits' \in [Verbatim -> Nat]
    BY <1>0, <1>7 DEF WaitsForFence, Stages, Values
  <2> QED
    BY <1>7, <2>1, <2>2, <2>3 DEF WaitsForFence, Values, Tasks, repVars, speech
<1>8. CASE LineHeard(v) \/ LineCut(v)
  <2>1. LineEnds(v) /\ (Hear \/ UNCHANGED <<begun, composing>>)
    BY <1>8 DEF LineHeard, LineCut
  <2>2. floor' \in Seq(Tasks)
    BY <2>1, LeaveType, HoldsFloor DEF LineEnds, Speakers
  <2>3. stage' \in [Verbatim -> Stages]
    BY <1>0, <2>1 DEF LineEnds, Stages
  <2>4. fastSays' \in [reply : BOOLEAN, old : BOOLEAN]
    BY <2>1 DEF LineEnds, Values
  <2> QED
    BY <2>1, <2>2, <2>3, <2>4, HearType DEF LineEnds, Values, Tasks, speech
<1> QED
  BY <1>1, <1>2, <1>3, <1>4, <1>5, <1>6, <1>7, <1>8 DEF LineStep

-----------------------------------------------------------------------------
(* One speaker. *)

LEMMA Names == "fast" \notin Verbatim /\ "rep" \notin Verbatim
BY SpeakerConstants DEF SpeakerConstants

LEMMA OneIn ==
    OneSpeaker <=> /\ \A t \in Speakers : Holds(t)
                   /\ Once(floor) /\ In(floor) = Seekers
BY DEF OneSpeaker, Once, In

(* The queue stays as it is, is joined, or left by its first. *)
LEMMA FloorStays ==
    ASSUME OneSpeaker, floor' = floor, Seekers' = Seekers,
           \A t \in Speakers' : Holds(t)
    PROVE  OneSpeaker'
BY DEF OneSpeaker, Holds

LEMMA FloorJoined ==
    ASSUME Values, OneSpeaker, NEW t \in Tasks, t \notin Seekers,
           floor' = Append(floor, t), Seekers' = Seekers \cup {t}, Speakers' \subseteq Speakers
    PROVE  OneSpeaker'
<1>1. floor \in Seq(Tasks) /\ Once(floor) /\ In(floor) = Seekers
  BY OneIn DEF Values, Tasks
<1>2. Once(floor') /\ In(floor') = Seekers'
  BY <1>1, AppendIn
<1>3. \A u \in Speakers' : Holds(u)'
  BY <1>1, AppendIn DEF OneSpeaker, Holds
<1> QED
  BY <1>2, <1>3 DEF OneSpeaker, Once, In

LEMMA FloorLeft ==
    ASSUME Values, OneSpeaker, NEW t, Holds(t),
           floor' = Tail(floor), Seekers' = Seekers \ {t}, Speakers' \subseteq Speakers \ {t}
    PROVE  OneSpeaker'
<1>1. floor \in Seq(Tasks) /\ Once(floor) /\ In(floor) = Seekers /\ floor # <<>>
  BY OneIn DEF Values, Tasks, Holds
<1>2. Once(floor') /\ In(floor') = Seekers'
  BY <1>1, TailIn DEF Holds
<1>3. Speakers' = {}
  BY DEF OneSpeaker, Holds
<1> QED
  BY <1>2, <1>3 DEF OneSpeaker, Once, In

(* A woken line seeks nothing yet. *)
LEMMA WakeSeeks ==
    ASSUME NEW from \in {"idle", "quiet"}, NEW to \in {"idled", "quieted"},
           Values, stage' = Wake(from, to)
    PROVE  \A v \in Verbatim : \A s \in {"lock", "speaking"} : stage'[v] = s <=> stage[v] = s
BY DEF Wake, Values

LEMMA RepOne == ASSUME Values, OneSpeaker, RepStep PROVE OneSpeaker'
<1>1. CASE Tick \/ Types \/ TurnSilent
  <2>1. UNCHANGED <<floor, stage, fast, rep>>
    BY <1>1 DEF Tick, Types, TurnSilent, lineVars, fastVars
  <2> QED
    BY <2>1 DEF OneSpeaker, Speakers, Seekers, Holds
<1>2. CASE Composed
  <2>1. UNCHANGED <<floor, fast, rep>> /\ stage' \in {stage, Wake("quiet", "quieted")}
    BY <1>2 DEF Composed, fastVars
  <2>2. \A v \in Verbatim : \A s \in {"lock", "speaking"} : stage'[v] = s <=> stage[v] = s
    BY <2>1, WakeSeeks
  <2>3. Seekers' = Seekers /\ Speakers' = Speakers
    BY <2>1, <2>2 DEF Seekers, Speakers
  <2> QED
    BY <2>1, <2>3, FloorStays DEF OneSpeaker
<1>3. CASE TurnBegins
  <2>1. UNCHANGED <<stage, fast>> /\ floor' = Append(floor, "rep") /\ rep = NoTurn /\ rep' # NoTurn
    BY <1>3, HeadTurn DEF TurnBegins, Takes, lineVars, fastVars
  <2>2. Seekers' = Seekers \cup {"rep"} /\ "rep" \notin Seekers /\ Speakers' = Speakers
    BY <2>1, Names DEF Seekers, Speakers
  <2> QED
    BY <2>1, <2>2, FloorJoined DEF Tasks
<1>4. CASE TurnLands
  <2>1. fast' = fast /\ floor' = Tail(floor) /\ rep' = NoTurn /\ stage' = Wake("idle", "idled")
    BY <1>4 DEF TurnLands
  <2>2. \A v \in Verbatim : \A s \in {"lock", "speaking"} : stage'[v] = s <=> stage[v] = s
    BY <2>1, WakeSeeks
  <2>3. Seekers' = Seekers \ {"rep"} /\ Speakers' = Speakers /\ "rep" \notin Speakers
    BY <2>1, <2>2, Names DEF Seekers, Speakers
  <2>4. Holds("rep")
    BY <1>4 DEF TurnLands
  <2> QED
    BY <2>1, <2>3, <2>4, FloorLeft
<1> QED
  BY <1>1, <1>2, <1>3, <1>4 DEF RepStep

LEMMA FastOne == ASSUME Values, OneSpeaker, FastStep PROVE OneSpeaker'
<1>1. CASE CallOpens \/ FastAsks \/ FastTurned \/ (FastJoins /\ floor' = floor /\ fast' = "await")
  <2>1. /\ UNCHANGED <<floor, stage, rep>>
        /\ fast \notin {"lock", "speaking"} /\ fast' \notin {"lock", "speaking"}
    BY <1>1 DEF CallOpens, FastAsks, FastTurned, FastJoins, lineVars, repVars
  <2> QED
    BY <2>1 DEF OneSpeaker, Speakers, Seekers, Holds
<1>2. CASE FastJoins /\ floor' = Append(floor, "fast") /\ fast' = "lock"
  <2>1. UNCHANGED <<stage, rep>> /\ fast \notin {"lock", "speaking"}
    BY <1>2 DEF FastJoins, lineVars, repVars
  <2>2. Seekers' = Seekers \cup {"fast"} /\ "fast" \notin Seekers /\ Speakers' = Speakers
    BY <1>2, <2>1, Names DEF Seekers, Speakers
  <2> QED
    BY <1>2, <2>2, FloorJoined DEF Tasks
<1>3. CASE FastSpeaks
  <2>1. UNCHANGED <<floor, stage, rep>> /\ fast = "lock" /\ fast' = "speaking" /\ Holds("fast")
    BY <1>3 DEF FastSpeaks, OnFloor, lineVars, repVars
  <2>2. Seekers' = Seekers /\ Speakers' \subseteq Speakers \cup {"fast"}
    BY <2>1 DEF Seekers, Speakers
  <2> QED
    BY <2>1, <2>2, FloorStays DEF OneSpeaker
<1>4. CASE FastGivesBack \/ FastSilent \/ FastHeard \/ FastCut
  <2>1. UNCHANGED <<stage, rep>> /\ floor' = Tail(floor) /\ fast' \in {"await", "none"}
    BY <1>4 DEF FastGivesBack, FastSilent, FastHeard, FastCut, FastEnds, lineVars, repVars
  <2>2. Holds("fast")
    BY <1>4 DEF FastGivesBack, FastSilent, FastHeard, FastCut, OnFloor, OneSpeaker, Speakers
  <2>3. Seekers' = Seekers \ {"fast"} /\ Speakers' = Speakers \ {"fast"}
    BY <2>1, Names DEF Seekers, Speakers
  <2> QED
    BY <2>1, <2>2, <2>3, FloorLeft
<1>5. FastJoins => \/ floor' = floor /\ fast' = "await"
                   \/ floor' = Append(floor, "fast") /\ fast' = "lock"
  BY DEF FastJoins
<1> QED
  BY <1>1, <1>2, <1>3, <1>4, <1>5 DEF FastStep

(* Queue wakes FastC, which then seeks nothing yet. *)
LEMMA QueueSeeks ==
    ASSUME NEW n, Queue(n)
    PROVE  \A s \in {"lock", "speaking"} : fast' = s <=> fast = s
BY DEF Queue

LEMMA LineOne ==
    ASSUME Values, OneSpeaker, NEW v \in Verbatim, LineStep(v) PROVE OneSpeaker'
<1> DEFINE Seeks(s) == s \in {"lock", "speaking"}
<1>0. /\ rep' = rep
      /\ \A s \in {"lock", "speaking"} : fast' = s <=> fast = s
      /\ \E to : stage' = [stage EXCEPT ![v] = to]
  BY QueueSeeks DEF LineStep, Asked, Begins, Goes, GivesBack, Releases, IsRevoked,
    WaitsForFence, LineHeard, LineCut, LineEnds, fastVars, repVars
<1>1. \A u \in Verbatim : u # v => stage'[u] = stage[u]
  BY <1>0 DEF Values
<1>2. CASE floor' = floor /\ ~Seeks(stage[v]) /\ ~Seeks(stage'[v])
  <2>1. Seekers' = Seekers /\ Speakers' = Speakers
    BY <1>0, <1>1, <1>2 DEF Seekers, Speakers
  <2> QED
    BY <1>2, <2>1, FloorStays DEF OneSpeaker
<1>3. CASE floor' = Append(floor, v) /\ ~Seeks(stage[v]) /\ stage'[v] = "lock"
  <2>1. Seekers' = Seekers \cup {v} /\ v \notin Seekers /\ Speakers' = Speakers
    BY <1>0, <1>1, <1>3, Names DEF Seekers, Speakers
  <2> QED
    BY <1>3, <2>1, FloorJoined DEF Tasks
<1>4. CASE floor' = floor /\ Holds(v) /\ stage[v] = "lock" /\ stage'[v] = "speaking"
  <2>1. Seekers' = Seekers /\ Speakers' \subseteq Speakers \cup {v}
    BY <1>0, <1>1, <1>4 DEF Seekers, Speakers
  <2> QED
    BY <1>4, <2>1, FloorStays DEF OneSpeaker
<1>5. CASE floor' = Tail(floor) /\ Holds(v) /\ ~Seeks(stage'[v])
  <2>1. Seekers' = Seekers \ {v} /\ Speakers' = Speakers \ {v}
    BY <1>0, <1>1, <1>5, Names DEF Seekers, Speakers
  <2> QED
    BY <1>5, <2>1, FloorLeft
<1>6. CASE Asked(v) \/ Begins(v)
  <2>1. floor' = floor /\ ~Seeks(stage[v]) /\ ~Seeks(stage'[v])
    BY <1>6 DEF Asked, Begins, Values
  <2> QED
    BY <1>2, <2>1
<1>7. CASE Goes(v)
  <2>1. ~Seeks(stage[v]) /\ stage'[v] = Reaches(stage[v])
        /\ floor' = IF stage'[v] = "lock" THEN Append(floor, v) ELSE floor
    BY <1>7 DEF Goes, Values
  <2>2. stage'[v] # "speaking"
    BY <1>7, <2>1 DEF Goes, Reaches
  <2> QED
    BY <1>2, <1>3, <2>1, <2>2
<1>8. CASE GivesBack(v) \/ IsRevoked(v) \/ WaitsForFence(v)
  BY <1>5, <1>8 DEF GivesBack, IsRevoked, WaitsForFence, TakesFloor, Values
<1>9. CASE Releases(v)
  BY <1>4, <1>9 DEF Releases, TakesFloor, Values
<1>10. CASE LineEnds(v)
  <2>1. Holds(v)
    BY <1>10 DEF LineEnds, OneSpeaker, Speakers
  <2> QED
    BY <1>5, <1>10, <2>1 DEF LineEnds, Values
<1> QED
  BY <1>6, <1>7, <1>8, <1>9, <1>10 DEF LineStep, LineHeard, LineCut

-----------------------------------------------------------------------------
(* The lines counted. *)

Counted == {v \in Verbatim : stage[v] \in Waiting}
Kept == {v \in Verbatim : held[v]}

LEMMA CountsAre ==
    /\ IsFiniteSet(Counted) /\ Cardinality(Counted) \in Nat
    /\ IsFiniteSet(Kept) /\ Cardinality(Kept) \in Nat
    /\ QueuedCounts <=> queued = Cardinality(Counted) + Cardinality(Kept)
<1>1. Counted \subseteq Verbatim /\ Kept \subseteq Verbatim /\ IsFiniteSet(Verbatim)
  BY SpeakerConstants DEF SpeakerConstants, Counted, Kept
<1>2. IsFiniteSet(Counted) /\ IsFiniteSet(Kept)
  BY <1>1, FS_Subset
<1>3. Cardinality(Counted) \in Nat /\ Cardinality(Kept) \in Nat
  BY <1>2, FS_CardinalityType
<1> QED
  BY <1>2, <1>3 DEF QueuedCounts, Counted, Kept

LEMMA OneLess ==
    ASSUME NEW S, IsFiniteSet(S), NEW x \in S
    PROVE  Cardinality(S \ {x}) = Cardinality(S) - 1
BY FS_RemoveElement

LEMMA OneMore ==
    ASSUME NEW S, IsFiniteSet(S), NEW x, x \notin S
    PROVE  Cardinality(S \cup {x}) = Cardinality(S) + 1
BY FS_AddElement

(* What is counted, and what the fence waits add, may change by one line. *)
LEMMA CountsMove ==
    ASSUME QueuedCounts, NEW v, NEW c \in {-1, 0, 1}, NEW k \in {-1, 0, 1},
           c = -1 => v \in Counted /\ Counted' = Counted \ {v},
           c = 0 => Counted' = Counted,
           c = 1 => v \notin Counted /\ Counted' = Counted \cup {v},
           k = -1 => v \in Kept /\ Kept' = Kept \ {v},
           k = 0 => Kept' = Kept,
           k = 1 => v \notin Kept /\ Kept' = Kept \cup {v},
           queued' = queued + c + k
    PROVE  QueuedCounts'
<1>1. Cardinality(Counted') = Cardinality(Counted) + c
  <2>1. CASE c = -1
    BY <2>1, OneLess, CountsAre
  <2>2. CASE c = 0
    BY <2>2, CountsAre
  <2>3. CASE c = 1
    BY <2>3, OneMore, CountsAre
  <2> QED
    BY <2>1, <2>2, <2>3
<1>2. Cardinality(Kept') = Cardinality(Kept) + k
  <2>1. CASE k = -1
    BY <2>1, OneLess, CountsAre
  <2>2. CASE k = 0
    BY <2>2, CountsAre
  <2>3. CASE k = 1
    BY <2>3, OneMore, CountsAre
  <2> QED
    BY <2>1, <2>2, <2>3
<1>3. queued = Cardinality(Counted) + Cardinality(Kept)
  BY CountsAre
<1>4. queued' = Cardinality(Counted') + Cardinality(Kept')
  BY <1>1, <1>2, <1>3, CountsAre
<1> QED
  BY <1>4 DEF QueuedCounts, Counted, Kept

LEMMA OthersCount ==
    ASSUME Values, QueuedCounts, RepStep \/ FastStep PROVE QueuedCounts'
<1>1. queued' = queued /\ held' = held
  BY DEF RepStep, Tick, Composed, Types, TurnBegins, TurnSilent, TurnLands, FastStep, CallOpens,
    FastAsks, FastTurned, FastJoins, FastGivesBack, FastSilent, FastSpeaks, FastHeard, FastCut,
    lineVars
<1>2. stage' \in {stage, Wake("quiet", "quieted"), Wake("idle", "idled")}
  BY DEF RepStep, Tick, Composed, Types, TurnBegins, TurnSilent, TurnLands, FastStep, CallOpens,
    FastAsks, FastTurned, FastJoins, FastGivesBack, FastSilent, FastSpeaks, FastHeard, FastCut,
    lineVars
<1>3. \A v \in Verbatim : stage'[v] \in Waiting <=> stage[v] \in Waiting
  BY <1>2 DEF Wake, Waiting, Values
<1> QED
  BY <1>1, <1>3 DEF QueuedCounts

LEMMA LineCounts ==
    ASSUME Values, QueuedCounts, NEW v \in Verbatim, LineStep(v) PROVE QueuedCounts'
<1>0. queued \in Int
  BY CountsAre
<1>1. \E to : stage' = [stage EXCEPT ![v] = to]
  BY DEF LineStep, Asked, Begins, Goes, GivesBack, Releases, IsRevoked,
    WaitsForFence, LineHeard, LineCut, LineEnds
<1>2. /\ \A u \in Verbatim : u # v => stage'[u] = stage[u]
      /\ stage \in [Verbatim -> Stages] /\ held \in [Verbatim -> BOOLEAN]
  BY <1>1 DEF Values
<1>3. CASE queued' = queued /\ held' = held /\ (stage[v] \in Waiting <=> stage'[v] \in Waiting)
  <2>1. Counted' = Counted /\ Kept' = Kept
    BY <1>2, <1>3 DEF Counted, Kept
  <2>2. queued' = queued + 0 + 0
    BY <1>0, <1>3
  <2> QED
    BY <2>1, <2>2, CountsMove
<1>4. CASE Begins(v)
  <2>1. stage[v] \notin Waiting /\ stage'[v] \in Waiting /\ held' = held /\ queued' = queued + 1
    BY <1>4 DEF Begins, Queue, Waiting, Values
  <2>2. v \notin Counted /\ Counted' = Counted \cup {v} /\ Kept' = Kept
    BY <1>2, <2>1 DEF Counted, Kept
  <2>3. queued' = queued + 1 + 0
    BY <1>0, <2>1
  <2> QED
    BY <2>2, <2>3, CountsMove
<1>5. CASE \E bound \in BOOLEAN :
             /\ stage[v] = "lock" /\ stage'[v] \notin Waiting
             /\ held' = [held EXCEPT ![v] = bound]
             /\ queued' = Uncounted(v) + (IF bound THEN 1 ELSE 0)
  <2>1. PICK bound \in BOOLEAN :
             /\ stage[v] = "lock" /\ stage'[v] \notin Waiting
             /\ held' = [held EXCEPT ![v] = bound]
             /\ queued' = Uncounted(v) + (IF bound THEN 1 ELSE 0)
    BY <1>5
  <2>2. v \in Counted /\ Counted' = Counted \ {v}
    BY <1>2, <2>1 DEF Counted, Waiting
  <2>3. CASE bound = held[v]
    <3>1. Kept' = Kept
      BY <1>2, <2>1, <2>3 DEF Kept
    <3>2. queued' = queued + (-1) + 0
      BY <1>0, <2>1, <2>3 DEF Uncounted
    <3> QED
      BY <2>2, <3>1, <3>2, CountsMove
  <2>4. CASE bound /\ ~held[v]
    <3>1. v \notin Kept /\ Kept' = Kept \cup {v}
      BY <1>2, <2>1, <2>4 DEF Kept
    <3>2. queued' = queued + (-1) + 1
      BY <1>0, <2>1, <2>4 DEF Uncounted
    <3> QED
      BY <2>2, <3>1, <3>2, CountsMove
  <2>5. CASE ~bound /\ held[v]
    <3>1. v \in Kept /\ Kept' = Kept \ {v}
      BY <1>2, <2>1, <2>5 DEF Kept
    <3>2. queued' = queued + (-1) + (-1)
      BY <1>0, <2>1, <2>5 DEF Uncounted
    <3> QED
      BY <2>2, <3>1, <3>2, CountsMove
  <2> QED
    BY <1>2, <2>3, <2>4, <2>5
<1>6. CASE Asked(v) \/ GivesBack(v) \/ LineEnds(v)
  BY <1>3, <1>6 DEF Asked, GivesBack, LineEnds, Waiting, Values
<1>7. CASE Goes(v)
  <2>1. stage[v] \in Waiting /\ Reaches(stage[v]) \in Waiting
    BY <1>7 DEF Goes, Reaches, Waiting
  <2> QED
    BY <1>3, <1>7, <2>1 DEF Goes, Values
<1>8. CASE Releases(v) \/ IsRevoked(v)
  <2>1. stage[v] = "lock" /\ stage'[v] \in {"speaking", "done"} /\ held' = [held EXCEPT ![v] = FALSE]
    BY <1>8 DEF Releases, IsRevoked, TakesFloor, NotHeld, Values
  <2>2. queued' = Uncounted(v) + 0
    BY <1>0, <1>8 DEF Releases, IsRevoked, Queue, Uncounted
  <2> QED
    BY <1>5, <2>1, <2>2 DEF Waiting
<1>9. CASE WaitsForFence(v)
  BY <1>5, <1>9 DEF WaitsForFence, TakesFloor, Queue, Waiting, Values
<1> QED
  BY <1>4, <1>6, <1>7, <1>8, <1>9 DEF LineStep, LineHeard, LineCut

-----------------------------------------------------------------------------
(* No rep turn begun is lost: it is composed, queued, at the floor, or has *)
(* landed.                                                                 *)

Placed == landed \cup composing \cup {t.n : t \in In(incoming) \cup {rep}}
Accounted == 1..begun \subseteq Placed

LEMMA BegunMore ==
    ASSUME Values, Accounted, Placed \subseteq Placed',
           \/ begun' = begun
           \/ begun' = begun + 1 /\ begun + 1 \in Placed'
    PROVE  Accounted'
<1>1. begun \in Nat /\ 1..(begun + 1) = 1..begun \cup {begun + 1}
  BY DEF Values
<1> QED
  BY <1>1 DEF Accounted

LEMMA HearAccounted ==
    ASSUME Values, Accounted, Hear \/ UNCHANGED <<begun, composing>>,
           UNCHANGED <<incoming, rep, landed>>
    PROVE  Accounted'
<1>1. \/ UNCHANGED <<begun, composing>>
      \/ begun' = begun + 1 /\ composing' = composing \cup {begun + 1}
  BY DEF Hear, BeginTurn
<1>2. Placed \subseteq Placed' /\ composing' \subseteq Placed'
  BY <1>1 DEF Placed
<1> QED
  BY <1>1, <1>2, BegunMore

LEMMA RepAccounted == ASSUME Values, Accounted, RepStep PROVE Accounted'
<1>1. CASE Tick
  <2>1. UNCHANGED <<incoming, rep, landed>> /\ begun' = begun + 1 /\ composing' = {begun + 1}
        /\ composing = {}
    BY <1>1 DEF Tick, BeginTurn, Busy
  <2>2. Placed \subseteq Placed' /\ begun + 1 \in Placed'
    BY <2>1 DEF Placed
  <2> QED
    BY <2>1, <2>2, BegunMore
<1>2. CASE Composed
  <2>1. PICK n \in composing :
           /\ composing' = composing \ {n}
           /\ \/ incoming' = incoming /\ landed' = landed \cup {n}
              \/ /\ \E t \in Turns(n) : incoming' = Append(incoming, t)
                 /\ landed' = landed
           /\ rep' = rep /\ begun' = begun
    BY <1>2 DEF Composed
  <2>2. CASE incoming' = incoming /\ landed' = landed \cup {n}
    <3>1. Placed \subseteq Placed'
      BY <2>1, <2>2 DEF Placed
    <3> QED
      BY <2>1, <3>1, BegunMore
  <2>3. CASE landed' = landed /\ \E t \in Turns(n) : incoming' = Append(incoming, t)
    <3>1. PICK t \in Turns(n) : incoming' = Append(incoming, t)
      BY <2>3
    <3>2. t \in Turn /\ t.n = n
      BY DEF Turns, Turn, Values
    <3>3. In(incoming') = In(incoming) \cup {t}
      BY <3>1, <3>2, AppendIn DEF Values
    <3>4. Placed \subseteq Placed'
      BY <2>1, <2>3, <3>2, <3>3 DEF Placed, In
    <3> QED
      BY <2>1, <3>4, BegunMore
  <2> QED
    BY <2>1, <2>2, <2>3
<1>3. CASE Types
  <2> DEFINE t == [n |-> begun + 1, lines |-> TRUE, end |-> FALSE]
  <2>1. begun' = begun + 1 /\ incoming' = Append(incoming, t)
        /\ UNCHANGED <<composing, rep, landed>>
    BY <1>3 DEF Types, BeginTurn
  <2>2. t \in Turn /\ t.n = begun + 1
    BY DEF Turn, Values
  <2> HIDE DEF t
  <2>3. In(incoming') = In(incoming) \cup {t}
    BY <2>1, <2>2, AppendIn DEF Values
  <2>4. Placed \subseteq Placed' /\ begun + 1 \in Placed'
    BY <2>1, <2>2, <2>3 DEF Placed, In
  <2> QED
    BY <2>1, <2>4, BegunMore
<1>4. CASE TurnBegins \/ TurnSilent
  <2>1. incoming # <<>> /\ incoming' = Tail(incoming) /\ UNCHANGED <<begun, composing>>
        /\ \/ rep = NoTurn /\ rep' = Head(incoming) /\ landed' = landed
           \/ rep' = rep /\ landed' = landed \cup {Head(incoming).n}
    BY <1>4 DEF TurnBegins, TurnSilent, Takes
  <2>2. In(incoming) = In(incoming') \cup {Head(incoming)}
    BY <2>1, TailIn DEF Values
  <2>3. Placed \subseteq Placed' \cup {0}
    <3>1. NoTurn.n = 0
      BY DEF NoTurn
    <3>2. CASE rep = NoTurn /\ rep' = Head(incoming) /\ landed' = landed
      BY <2>1, <2>2, <3>1, <3>2 DEF Placed
    <3>3. CASE rep' = rep /\ landed' = landed \cup {Head(incoming).n}
      BY <2>1, <2>2, <3>3 DEF Placed
    <3> QED
      BY <2>1, <3>2, <3>3
  <2>4. 0 \notin 1..begun
    OBVIOUS
  <2> QED
    BY <2>1, <2>3, <2>4 DEF Accounted
<1>5. CASE TurnLands
  <2>1. UNCHANGED <<begun, composing, incoming>> /\ landed' = landed \cup {rep.n}
    BY <1>5 DEF TurnLands
  <2>2. Placed \subseteq Placed'
    BY <2>1 DEF Placed, In
  <2> QED
    BY <2>1, <2>2, BegunMore
<1> QED
  BY <1>1, <1>2, <1>3, <1>4, <1>5 DEF RepStep

LEMMA OthersAccounted ==
    ASSUME Values, Accounted, FastStep \/ \E v \in Verbatim : LineStep(v) PROVE Accounted'
<1>1. UNCHANGED <<incoming, rep, landed>> /\ (Hear \/ UNCHANGED <<begun, composing>>)
  BY DEF FastStep, CallOpens, FastAsks, FastTurned, FastJoins, FastGivesBack, FastSilent,
    FastSpeaks, FastHeard, FastCut, LineStep, Asked, Begins, Goes, GivesBack, Releases,
    IsRevoked, WaitsForFence, LineHeard, LineCut, LineEnds, repVars
<1> QED
  BY <1>1, HearAccounted

-----------------------------------------------------------------------------
(* The theorems. *)

FloorInv == Values /\ OneSpeaker /\ QueuedCounts /\ Accounted

LEMMA FloorInit == Init => FloorInv
<1> SUFFICES ASSUME Init PROVE FloorInv
  OBVIOUS
<1>1. Values
  <2>1. floor \in Seq(Tasks) /\ incoming \in Seq(Turn) /\ rep \in {NoTurn}
    BY DEF Init
  <2>2. stage \in [Verbatim -> Stages] /\ held \in [Verbatim -> BOOLEAN] /\ waits \in [Verbatim -> Nat]
    BY DEF Init, Stages
  <2>3. fast \in FastStages /\ fastSays \in [reply : BOOLEAN, old : BOOLEAN]
    BY DEF Init, FastStages
  <2>4. /\ fastTurns = 0 /\ call = "none" /\ disclosed = FALSE /\ composing = {}
        /\ barge = 0 /\ stale = FALSE /\ begun = 0 /\ landed = {} /\ mark = 0
    BY DEF Init
  <2>5. sim \in BOOLEAN
    BY SpeakerConstants DEF Init, SpeakerConstants
  <2> QED
    BY <2>1, <2>2, <2>3, <2>4, <2>5 DEF Values, Tasks
<1>2. OneSpeaker
  BY DEF Init, OneSpeaker, Speakers, Seekers
<1>3. Counted = {} /\ Kept = {} /\ queued = 0
  BY DEF Init, Counted, Kept, Waiting
<1>4. QueuedCounts
  BY <1>3, CountsAre, FS_EmptySet
<1>5. Accounted
  BY DEF Init, Accounted
<1> QED
  BY <1>1, <1>2, <1>4, <1>5 DEF FloorInv

LEMMA FloorNext == FloorInv /\ [Next]_vars => FloorInv'
<1> SUFFICES ASSUME FloorInv, [Next]_vars PROVE FloorInv'
  OBVIOUS
<1> USE DEF FloorInv
<1>1. CASE RepStep
  BY <1>1, RepValues, RepOne, OthersCount, RepAccounted
<1>2. CASE FastStep
  BY <1>2, FastValues, FastOne, OthersCount, OthersAccounted
<1>3. CASE \E v \in Verbatim : LineStep(v)
  BY <1>3, LineValues, LineOne, LineCounts, OthersAccounted
<1>4. CASE UNCHANGED vars
  <2>1. /\ UNCHANGED <<sim, floor, queued, stage, held, waits, fast, fastSays, fastTurns>>
        /\ disclosed' = disclosed
        /\ UNCHANGED <<call, composing, incoming, rep, begun, landed, barge, stale, mark>>
    BY <1>4 DEF vars, lineVars, fastVars, repVars, speech
  <2>2. Values'
    BY <2>1 DEF Values
  <2>3. OneSpeaker'
    BY <2>1 DEF OneSpeaker, Speakers, Seekers, Holds
  <2>4. QueuedCounts'
    BY <2>1 DEF QueuedCounts
  <2>5. Accounted'
    BY <2>1 DEF Accounted, Placed, In
  <2> QED
    BY <2>2, <2>3, <2>4, <2>5
<1> QED
  BY <1>1, <1>2, <1>3, <1>4 DEF Next

LEMMA FloorAlways == Spec => []FloorInv
<1> QED
  BY FloorInit, FloorNext, PTL DEF Spec

(* The floor's variables hold what the code's can; nothing is uncounted    *)
(* that was not counted (Speaker._queue).                                  *)
THEOREM SpeakerTypes == Spec => []TypeOK
<1>1. FloorInv => TypeOK
  BY CountsAre DEF FloorInv, TypeOK
<1> QED
  BY <1>1, FloorAlways, PTL

(* One speaks at a time, and the lock's queue holds who awaits it          *)
(* (Speaker._lock).                                                        *)
THEOREM OneSpeaks == Spec => []OneSpeaker
<1>1. FloorInv => OneSpeaker
  BY DEF FloorInv
<1> QED
  BY <1>1, FloorAlways, PTL

(* Fast is kept silent by the lines that wait, and by no other             *)
(* (Speaker._queued).                                                      *)
THEOREM CountsHold == Spec => []QueuedCounts
<1>1. FloorInv => QueuedCounts
  BY DEF FloorInv
<1> QED
  BY <1>1, FloorAlways, PTL

(* An accept or decline line goes out only once every rep turn begun has   *)
(* landed (Speaker._floor_after_partner).                                  *)
THEOREM RepLandsFirst == Spec => ReleaseAfterRep
<1>1. ASSUME FloorInv, NEW v \in Verbatim, Releases(v) PROVE 1..begun \subseteq landed
  <2>1. rep = NoTurn /\ composing = {} /\ incoming = <<>>
    BY <1>1 DEF Releases, TakesFloor, Pending, Busy
  <2>2. Placed \subseteq landed \cup {0}
    BY <2>1 DEF Placed, In, NoTurn
  <2>3. 0 \notin 1..begun
    OBVIOUS
  <2> QED
    BY <1>1, <2>2, <2>3 DEF FloorInv, Accounted
<1>2. FloorInv /\ [Next]_vars => [\A v \in Verbatim : Releases(v) => 1..begun \subseteq landed]_vars
  BY <1>1
<1> QED
  BY <1>2, FloorAlways, PTL DEF Spec, ReleaseAfterRep

-----------------------------------------------------------------------------
(* Who may cut a line. *)

Lines == {v \in Verbatim : stage[v] = "speaking"}

(* A person's channel is never busy.  While a line is said, the simulated  *)
(* rep has nothing composed, queued or waiting, and a person only what was *)
(* typed since.                                                            *)
LineInv ==
    /\ ~sim => composing = {}
    /\ mark <= begun
    /\ Lines # {} /\ sim =>
         composing = {} /\ incoming = <<>> /\ rep = NoTurn /\ barge = 0
    /\ Lines # {} /\ ~sim =>
         /\ barge = 0 \/ barge > mark
         /\ rep = NoTurn \/ rep.n > mark
         /\ \A t \in In(incoming) : t.n > mark

(* The line that is said holds the lock, alone. *)
LEMMA OneLine ==
    ASSUME OneSpeaker, NEW v \in Lines
    PROVE  Holds(v) /\ Lines = {v} /\ fast # "speaking"
<1>1. \A t \in Speakers : Holds(t)
  BY DEF OneSpeaker
<1>2. Lines \subseteq Speakers /\ (fast = "speaking" => "fast" \in Speakers)
  BY DEF Lines, Speakers
<1>3. Holds(v) /\ \A w \in Lines : w = v
  BY <1>1, <1>2 DEF Holds
<1>4. v # "fast"
  BY Names DEF Lines
<1> QED
  BY <1>1, <1>2, <1>3, <1>4 DEF Holds

-----------------------------------------------------------------------------
(* The rep's steps. *)

LEMMA RepLine == ASSUME Values, OneSpeaker, LineInv, RepStep PROVE LineInv'
<1>1. CASE Tick
  <2>1. /\ sim /\ sim' = sim /\ Lines = {} /\ Lines' = Lines
        /\ begun' = begun + 1 /\ mark' = mark
    BY <1>1 DEF Tick, Speaking, Speakers, Lines, BeginTurn, lineVars, speech
  <2> QED
    BY <2>1 DEF LineInv, Values
<1>2. CASE Composed
  <2>1. sim /\ Lines = {}
    BY <1>2 DEF Composed, LineInv
  <2>2. UNCHANGED <<sim, begun, mark>> /\ stage' \in {stage, Wake("quiet", "quieted")}
    BY <1>2 DEF Composed, speech
  <2>3. Lines' = {}
    BY <2>1, <2>2 DEF Lines, Wake
  <2> QED
    BY <2>1, <2>2, <2>3 DEF LineInv
<1>3. CASE Types
  <2> DEFINE t == [n |-> begun + 1, lines |-> TRUE, end |-> FALSE]
  <2>1. /\ ~sim /\ begun' = begun + 1 /\ incoming' = Append(incoming, t)
        /\ UNCHANGED <<sim, stage, composing, rep, barge, mark>>
    BY <1>3 DEF Types, BeginTurn, lineVars, speech
  <2>2. t \in Turn /\ t.n = begun + 1
    BY DEF Turn, Values
  <2> HIDE DEF t
  <2>3. In(incoming') = In(incoming) \cup {t}
    BY <2>1, <2>2, AppendIn DEF Values
  <2>4. Lines' = Lines
    BY <2>1 DEF Lines
  <2> QED
    BY <2>1, <2>2, <2>3, <2>4 DEF LineInv, Values
<1>4. CASE TurnBegins
  <2>1. /\ incoming # <<>> /\ rep' = Head(incoming) /\ incoming' = Tail(incoming)
        /\ barge' \in {barge, rep'.n}
        /\ UNCHANGED <<sim, stage, composing, begun, mark>>
    BY <1>4 DEF TurnBegins, Takes, lineVars
  <2>2. In(incoming) = In(incoming') \cup {rep'}
    BY <2>1, TailIn DEF Values
  <2>3. Lines' = Lines
    BY <2>1 DEF Lines
  <2> QED
    BY <2>1, <2>2, <2>3 DEF LineInv
<1>5. CASE TurnSilent
  <2>1. /\ incoming # <<>> /\ incoming' = Tail(incoming)
        /\ UNCHANGED <<sim, stage, composing, rep, begun, barge, mark>>
    BY <1>5 DEF TurnSilent, Takes, lineVars, speech
  <2>2. In(incoming) = In(incoming') \cup {Head(incoming)}
    BY <2>1, TailIn DEF Values
  <2>3. Lines' = Lines
    BY <2>1 DEF Lines
  <2> QED
    BY <2>1, <2>2, <2>3 DEF LineInv
<1>6. CASE TurnLands
  <2>1. /\ rep' = NoTurn /\ stage' = Wake("idle", "idled")
        /\ UNCHANGED <<sim, composing, incoming, begun, barge, mark>>
    BY <1>6 DEF TurnLands, speech
  <2>2. Lines' = Lines
    BY <2>1 DEF Lines, Wake, Values
  <2> QED
    BY <2>1, <2>2 DEF LineInv, In
<1> QED
  BY <1>1, <1>2, <1>3, <1>4, <1>5, <1>6 DEF RepStep

-----------------------------------------------------------------------------
(* FastC's steps, and those of the lines. *)

(* A person is not heard composing. *)
LEMMA HearLine ==
    ASSUME Values, LineInv, UNCHANGED <<sim, mark>>, Hear \/ UNCHANGED <<begun, composing>>
    PROVE  (~sim' => composing' = {}) /\ mark' <= begun'
<1>1. /\ ~sim => composing = {}
      /\ mark <= begun /\ mark \in Nat /\ begun \in Nat
  BY DEF LineInv, Values
<1>2. CASE UNCHANGED <<begun, composing>>
  BY <1>1, <1>2
<1>3. CASE sim /\ begun' = begun + 1
  BY <1>1, <1>3
<1> QED
  BY <1>2, <1>3 DEF Hear, BeginTurn

(* Who leaves the rep's side and the speech alone, and begins no line. *)
Apart ==
    /\ UNCHANGED <<sim, composing, incoming, rep, begun, barge, mark>>
    /\ Lines' \subseteq Lines

LEMMA ApartLine == ASSUME LineInv, Apart PROVE LineInv'
BY DEF Apart, LineInv, In

LEMMA FastLine == ASSUME Values, OneSpeaker, LineInv, FastStep PROVE LineInv'
<1>1. CASE CallOpens \/ FastAsks \/ FastTurned \/ FastJoins \/ FastGivesBack \/ FastSilent
  <2>1. UNCHANGED <<sim, stage, composing, incoming, rep, begun, barge, mark>>
    BY <1>1 DEF CallOpens, FastAsks, FastTurned, FastJoins, FastGivesBack, FastSilent,
      lineVars, repVars, speech
  <2> QED
    BY <2>1, ApartLine DEF Apart, Lines
<1>2. CASE FastSpeaks
  <2>1. /\ Holds("fast") /\ mark' = begun /\ UNCHANGED <<sim, stage, composing, begun>>
    BY <1>2 DEF FastSpeaks, OnFloor, SpeechBegins, lineVars, repVars
  <2>2. Lines = {}
    BY <2>1, OneLine, Names DEF Holds, Lines
  <2>3. Lines' = Lines
    BY <2>1 DEF Lines
  <2> QED
    BY <2>1, <2>2, <2>3 DEF LineInv, Values
<1>3. CASE FastHeard \/ FastCut
  <2>1. /\ fast = "speaking" /\ UNCHANGED <<sim, stage, mark>>
        /\ Hear \/ UNCHANGED <<begun, composing>>
    BY <1>3 DEF FastHeard, FastCut, lineVars, speech
  <2>2. Lines = {} /\ Lines' = Lines
    BY <2>1, OneLine DEF Lines
  <2> QED
    BY <2>1, <2>2, HearLine DEF LineInv
<1> QED
  BY <1>1, <1>2, <1>3 DEF FastStep

LEMMA VerbatimLine ==
    ASSUME Values, OneSpeaker, LineInv, NEW v \in Verbatim, LineStep(v) PROVE LineInv'
<1>1. CASE Asked(v) \/ Begins(v) \/ Goes(v) \/ GivesBack(v) \/ IsRevoked(v) \/ WaitsForFence(v)
  <2>1. UNCHANGED <<sim, composing, incoming, rep, begun, barge, mark>>
    BY <1>1 DEF Asked, Begins, Goes, GivesBack, IsRevoked, WaitsForFence, repVars, speech
  <2>2. PICK s \in Stages \ {"speaking"} : stage' = [stage EXCEPT ![v] = s]
    <3>1. \A s \in {"start", "idled", "quieted"} :
             Reaches(s) \in {"idle", "quiet", "start", "lock"}
      BY DEF Reaches
    <3>2. CASE Goes(v)
      BY <3>1, <3>2 DEF Goes, Stages, Waiting
    <3>3. CASE ~Goes(v)
      BY <1>1, <3>3 DEF Asked, Begins, GivesBack, IsRevoked, WaitsForFence, Stages, Waiting
    <3> QED
      BY <3>2, <3>3
  <2>3. Lines' \subseteq Lines
    BY <2>2 DEF Lines, Values
  <2> QED
    BY <2>1, <2>3, ApartLine DEF Apart
<1>2. CASE Releases(v)
  <2>1. composing = {} /\ incoming = <<>> /\ rep = NoTurn
    BY <1>2 DEF Releases, TakesFloor, Pending, Busy
  <2>2. /\ UNCHANGED <<sim, composing, incoming, rep, begun>>
        /\ barge' = 0 /\ mark' = begun
    BY <1>2 DEF Releases, SpeechBegins, repVars
  <2>3. In(incoming') = {}
    BY <2>1, <2>2 DEF In
  <2> QED
    BY <2>1, <2>2, <2>3 DEF LineInv, Values
<1>3. CASE LineHeard(v) \/ LineCut(v)
  <2>1. /\ stage[v] = "speaking" /\ stage' = [stage EXCEPT ![v] = "done"]
        /\ UNCHANGED <<sim, mark>>
        /\ Hear \/ UNCHANGED <<begun, composing>>
    BY <1>3 DEF LineHeard, LineCut, LineEnds, speech
  <2>2. Lines' = {}
    BY <2>1, OneLine DEF Lines, Values
  <2> QED
    BY <2>1, <2>2, HearLine DEF LineInv
<1> QED
  BY <1>1, <1>2, <1>3 DEF LineStep

-----------------------------------------------------------------------------
(* A verbatim line is cut only by a turn begun after it, and never by the  *)
(* simulated rep (Speaker._deliver, partner_turn).                         *)
THEOREM CutsFairly == Spec => LineCutFairly
<1>1. Init => LineInv
  <2> SUFFICES ASSUME Init PROVE LineInv
    OBVIOUS
  <2>1. composing = {} /\ mark = 0 /\ begun = 0 /\ Lines = {}
    BY DEF Init, Lines
  <2> QED
    BY <2>1 DEF LineInv
<1>2. ASSUME FloorInv, LineInv, [Next]_vars PROVE LineInv'
  <2>1. Values /\ OneSpeaker
    BY <1>2 DEF FloorInv
  <2>2. CASE UNCHANGED vars
    <3>1. UNCHANGED <<sim, stage, composing, incoming, rep, begun, barge, mark>>
      BY <2>2 DEF vars, lineVars, repVars, speech
    <3> QED
      BY <1>2, <3>1, ApartLine DEF Apart, Lines
  <2> QED
    BY <1>2, <2>1, <2>2, RepLine, FastLine, VerbatimLine DEF Next
<1>3. ASSUME FloorInv, LineInv, NEW v \in Verbatim, LineCut(v) PROVE ~sim /\ barge > mark
  <2>1. v \in Lines /\ barge # 0
    BY <1>3 DEF LineCut, LineEnds, Lines
  <2> QED
    BY <1>3, <2>1 DEF LineInv
<1>4. FloorInv /\ LineInv => [\A v \in Verbatim : LineCut(v) => ~sim /\ barge > mark]_vars
  BY <1>3
<1> QED
  BY <1>1, <1>2, <1>4, FloorAlways, PTL DEF Spec, LineCutFairly

-----------------------------------------------------------------------------
(* No wake is missed. *)

(* An event that is set wakes all that await it, and changes nobody else. *)
LEMMA WakeStages ==
    ASSUME NEW from \in Stages, NEW to \in Stages \ {from}, stage \in [Verbatim -> Stages],
           NEW v \in Verbatim
    PROVE  /\ Wake(from, to)[v] # from
           /\ Wake(from, to)[v] # to => Wake(from, to)[v] = stage[v]
BY DEF Wake

(* The lines and FastC do not await more, and what they await is no nearer. *)
LEMMA WaitsKept ==
    ASSUME Values, NoWakeMissed,
           \A v \in Verbatim :
               stage'[v] \in {"idle", "quiet"} => stage'[v] = stage[v],
           fast' = "await" => fast = "await", queued' = queued,
           rep # NoTurn => rep' # NoTurn, Busy => Busy'
    PROVE  NoWakeMissed'
BY DEF NoWakeMissed

LEMMA HearBusy == ASSUME Hear \/ UNCHANGED <<begun, composing>> PROVE Busy => Busy'
BY DEF Hear, Busy

LEMMA RepWakes == ASSUME Values, NoWakeMissed, RepStep PROVE NoWakeMissed'
<1>0. stage \in [Verbatim -> Stages] /\ begun \in Nat /\ incoming \in Seq(Turn)
  BY DEF Values
<1>1. CASE Tick
  <2>1. UNCHANGED <<stage, fast, queued, rep>> /\ composing' # {}
    BY <1>1 DEF Tick, lineVars, fastVars
  <2> QED
    BY <2>1, WaitsKept DEF Busy
<1>2. CASE Composed
  <2>1. /\ UNCHANGED <<fast, queued, rep>>
        /\ stage' = IF composing' = {} THEN Wake("quiet", "quieted") ELSE stage
    BY <1>2 DEF Composed, fastVars
  <2>2. CASE composing' = {}
    BY <1>0, <2>1, <2>2, WakeStages DEF NoWakeMissed, Stages, Waiting
  <2>3. CASE composing' # {}
    BY <2>1, <2>3 DEF NoWakeMissed, Busy
  <2> QED
    BY <2>2, <2>3
<1>3. CASE Types
  BY <1>3, WaitsKept DEF Types, lineVars, fastVars, Busy
<1>4. CASE TurnBegins
  <2>1. /\ UNCHANGED <<stage, fast, queued, composing>> /\ rep' = Head(incoming)
        /\ incoming # <<>>
    BY <1>4 DEF TurnBegins, Takes, lineVars, fastVars
  <2>2. rep' # NoTurn
    BY <1>0, <2>1 DEF Turn, NoTurn
  <2> QED
    BY <2>1, <2>2, WaitsKept DEF Busy
<1>5. CASE TurnSilent
  BY <1>5, WaitsKept DEF TurnSilent, lineVars, fastVars, Busy
<1>6. CASE TurnLands
  <2>1. UNCHANGED <<fast, queued, composing>> /\ stage' = Wake("idle", "idled")
    BY <1>6 DEF TurnLands
  <2> QED
    BY <1>0, <2>1, WakeStages DEF NoWakeMissed, Stages, Waiting, Busy
<1> QED
  BY <1>1, <1>2, <1>3, <1>4, <1>5, <1>6 DEF RepStep

LEMMA FastWakes == ASSUME Values, NoWakeMissed, FastStep PROVE NoWakeMissed'
<1>1. UNCHANGED <<stage, queued, rep>>
  BY DEF FastStep, CallOpens, FastAsks, FastTurned, FastJoins, FastGivesBack, FastSilent,
         FastSpeaks, FastHeard, FastCut, lineVars, repVars
<1>2. Busy => Busy'
  <2>1. CASE FastHeard \/ FastCut
    BY <2>1, HearBusy DEF FastHeard, FastCut
  <2>2. CASE ~(FastHeard \/ FastCut)
    BY <2>2 DEF FastStep, CallOpens, FastAsks, FastTurned, FastJoins, FastGivesBack,
                FastSilent, FastSpeaks, repVars, Busy
  <2> QED
    BY <2>1, <2>2
<1>3. fast' = "await" => queued > 0
  BY DEF FastStep, CallOpens, FastAsks, FastTurned, FastJoins, FastGivesBack, FastSilent,
         FastSpeaks, FastHeard, FastCut, FastEnds
<1> QED
  BY <1>1, <1>2, <1>3 DEF NoWakeMissed

(* A count that falls to zero wakes FastC. *)
LEMMA QueueWakes ==
    ASSUME NEW n \in Nat, Queue(n), fast = "await" => queued > 0
    PROVE  fast' = "await" => queued' > 0
BY DEF Queue

LEMMA LineWakes ==
    ASSUME FloorInv, TypeOK', NoWakeMissed, NEW v \in Verbatim, LineStep(v)
    PROVE  NoWakeMissed'
<1>0. /\ Values /\ queued' \in Nat
      /\ stage \in [Verbatim -> Stages]
  BY DEF FloorInv, TypeOK, Values
<1>1. CASE Asked(v)
  <2>1. \A w \in Verbatim : stage'[w] \in {"idle", "quiet"} => stage'[w] = stage[w]
    BY <1>0, <1>1 DEF Asked
  <2> QED
    BY <1>0, <1>1, <2>1, WaitsKept DEF Asked, fastVars, repVars, Busy
<1>2. CASE Goes(v)
  <2>1. /\ UNCHANGED <<fast, queued, rep, composing>>
        /\ stage' = [stage EXCEPT ![v] = Reaches(stage[v])]
        /\ stage[v] \in {"start", "idled", "quieted"}
    BY <1>2 DEF Goes, fastVars, repVars
  <2>2. /\ Reaches(stage[v]) = "idle" => rep # NoTurn
        /\ Reaches(stage[v]) = "quiet" => Busy
    BY <2>1 DEF Reaches
  <2> QED
    BY <1>0, <2>1, <2>2 DEF NoWakeMissed, Busy
<1>3. CASE GivesBack(v)
  <2>1. \A w \in Verbatim : stage'[w] \in {"idle", "quiet"} => stage'[w] = stage[w]
    BY <1>0, <1>3 DEF GivesBack
  <2> QED
    BY <1>0, <1>3, <2>1, WaitsKept DEF GivesBack, fastVars, repVars, Busy
<1>4. CASE Begins(v) \/ Releases(v) \/ IsRevoked(v) \/ WaitsForFence(v)
  <2>1. \A w \in Verbatim : stage'[w] \in {"idle", "quiet"} => stage'[w] = stage[w]
    BY <1>0, <1>4 DEF Begins, Releases, IsRevoked, WaitsForFence
  <2>2. PICK n : Queue(n)
    BY <1>4 DEF Begins, Releases, IsRevoked, WaitsForFence
  <2>3. n \in Nat
    BY <1>0, <2>2 DEF Queue
  <2>4. fast' = "await" => queued' > 0
    BY <2>2, <2>3, QueueWakes DEF NoWakeMissed
  <2>5. UNCHANGED <<rep, composing>>
    BY <1>4 DEF Begins, Releases, IsRevoked, WaitsForFence, repVars
  <2> QED
    BY <2>1, <2>4, <2>5 DEF NoWakeMissed, Busy
<1>5. CASE LineHeard(v) \/ LineCut(v)
  <2>1. UNCHANGED <<fast, queued, rep>> /\ stage' = [stage EXCEPT ![v] = "done"]
    BY <1>5 DEF LineHeard, LineCut, LineEnds
  <2>2. \A w \in Verbatim : stage'[w] \in {"idle", "quiet"} => stage'[w] = stage[w]
    BY <1>0, <2>1
  <2>3. Busy => Busy'
    BY <1>5, HearBusy DEF LineHeard, LineCut
  <2> QED
    BY <1>0, <2>1, <2>2, <2>3, WaitsKept
<1> QED
  BY <1>1, <1>2, <1>3, <1>4, <1>5 DEF LineStep

(* Who awaits an event awaits one still to come (kernel/speaker.py,        *)
(* _floor_after_partner, speak): the safety half of LinesEnd and of        *)
(* TurnsLand.                                                              *)
THEOREM WakesArrive == Spec => []NoWakeMissed
<1>1. Init => NoWakeMissed
  BY DEF Init, NoWakeMissed
<1>2. ASSUME FloorInv, TypeOK', NoWakeMissed, [Next]_vars PROVE NoWakeMissed'
  <2>1. Values
    BY <1>2 DEF FloorInv
  <2>2. CASE UNCHANGED vars
    <3>1. UNCHANGED <<stage, fast, queued, rep, composing>>
      BY <2>2 DEF vars, lineVars, fastVars, repVars
    <3> QED
      BY <1>2, <3>1 DEF NoWakeMissed, Busy
  <2> QED
    BY <1>2, <2>1, <2>2, RepWakes, FastWakes, LineWakes DEF Next
<1> QED
  BY <1>1, <1>2, FloorAlways, SpeakerTypes, PTL DEF Spec
=============================================================================
