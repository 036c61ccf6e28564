----------------------------- MODULE HostProofs -----------------------------
(***************************************************************************)
(* The programs that host sessions and calls, for any number of them: the  *)
(* live server's starts and their one session (LiveCases), the slots of its*)
(* clicks (LivePosts), an evaluation campaign that is resumed (Matrix), an *)
(* arm of the world-model selection (ArmRun), the streams of a run's log   *)
(* (Stream) and the check of where each line of that log came from (Chain).*)
(***************************************************************************)
EXTENDS Integers, Sequences, FiniteSets, SequenceTheorems, FiniteSetTheorems, TLAPS

CONSTANTS Posts, Clicks, MaxStems, MaxCards, None
CONSTANTS Conditions, Blocks, Plans, Echoes, Reasons, MaxBundles
CONSTANTS Items, Prose, Tries, Gate, Cap, MaxRows
CONSTANTS Length, Chunk
CONSTANTS Lanes, Accepts, Declines, Responses, Lines, ItemsOf, MaxGens

VARIABLES at, lockq, task, abandoned, run, session, stopping, started, late
VARIABLES caseSession, stem, cards, card, decided, click, slots, queue
VARIABLES disk, plan, pos, busy, seen, runs, served
VARIABLES file, open, up, todo, in, calls, asked
VARIABLES rep, hidden, written, moved, conn, wire, code, got
VARIABLES log, state, call, gens, job, line

L == INSTANCE LiveCases
D == INSTANCE LivePosts WITH session <- caseSession
M == INSTANCE Matrix
A == INSTANCE ArmRun
T == INSTANCE Stream
E == INSTANCE Chain

-----------------------------------------------------------------------------
(* The starts. *)

Phases == {"opening", "live", "broken", "ended", "done"}
Over == {"done", "broken"}

CaseTypes ==
    /\ at \in [Posts -> {"new", "locks", "begins", "grace"} \cup L!Answers]
    /\ task \in [Posts -> {"none", "created", "waits", "cancelling", "gathers"}
                              \cup L!Finished]
    /\ run \in [Posts -> Nat] /\ session \in Seq(Phases)

(* The Starter is busy until its session is over. *)
OnlyLast == \A r \in L!Runs : r < Len(session) => session[r] \in Over

(* A request's task is started by its handler, which waits for it until    *)
(* one of them lets go, and it has a run from its launch on.               *)
TaskOf(p) ==
    /\ at[p] \in {"new", "locks"} => task[p] = "none"
    /\ at[p] = "begins" =>
         task[p] \in {"created", "waits", "returned", "failed", "busy", "refused"}
    /\ task[p] \in {"created", "waits"} => at[p] = "begins"
    /\ task[p] \in {"waits", "cancelling", "gathers", "returned", "failed"} =>
         run[p] \in L!Runs
    /\ task[p] \in {"none", "created", "busy", "refused"} => run[p] = 0
    /\ task[p] = "failed" => session[run[p]] = "broken"
    /\ task[p] = "gathers" => run[p] \in stopping

(* Somebody will still register, stop or report the run. *)
Reached(r, p) ==
    /\ run[p] = r
    /\ \/ at[p] = "begins" \/ task[p] = "cancelling"
       \/ p \in abandoned /\ task[p] = "returned"

Known(r) == r \in started \cup stopping \cup late \/ \E p \in Posts : Reached(r, p)

CaseInv ==
    /\ CaseTypes /\ OnlyLast /\ \A p \in Posts : TaskOf(p)
    /\ \A r \in L!Runs : session[r] \in {"opening", "live"} => Known(r)

(* A handler's step that leaves tasks and sessions alone: a run that it    *)
(* reached is registered, or has never been, or is broken.                 *)
LEMMA HandlerSteps ==
    ASSUME CaseInv, NEW p \in Posts,
           L!Asks(p) \/ L!Begun(p) \/ L!GraceOver(p) \/ L!Late(p)
    PROVE  CaseInv'
<1> USE DEF CaseInv, CaseTypes, OnlyLast, L!Runs
<1>1. CASE L!Asks(p)
  BY <1>1 DEF L!Asks, TaskOf, Known, Reached
<1>2. CASE L!Begun(p)
  <2>1. PICK status \in L!Answers : at' = [at EXCEPT ![p] = status]
    BY <1>2 DEF L!Begun, L!Answer, L!Answers
  <2>2. /\ at[p] = "begins" /\ task[p] \in L!Finished /\ started \subseteq started'
        /\ task[p] = "returned" => run[p] \in started'
        /\ UNCHANGED <<task, abandoned, run, session, stopping, late>>
    BY <1>2 DEF L!Begun
  <2>3. CaseTypes' /\ OnlyLast'
    BY <2>1, <2>2
  <2>4. \A q \in Posts : TaskOf(q)'
    BY <2>1, <2>2 DEF TaskOf, L!Answers, L!Finished
  <2>5. ASSUME NEW r \in L!Runs, session[r] \in {"opening", "live"} PROVE Known(r)'
    <3>1. r # 0
      BY <2>5
    <3>2. run[p] = r => r \in started'
      BY <2>2, <2>5, <3>1 DEF TaskOf, L!Finished
    <3>3. CASE r \in started \cup stopping \cup late
      BY <2>2, <3>3 DEF Known
    <3>4. CASE \E q \in Posts : Reached(r, q)
      BY <2>1, <2>2, <3>2, <3>4 DEF Known, Reached
    <3> QED
      BY <2>5, <3>3, <3>4 DEF Known
  <2> QED
    BY <2>2, <2>3, <2>4, <2>5
<1>3. CASE L!GraceOver(p)
  BY <1>3 DEF L!GraceOver, L!Answer, L!Answers, TaskOf, Known, Reached
<1>4. CASE L!Late(p)
  BY <1>4 DEF L!Late, TaskOf, Known, Reached
<1> QED
  BY <1>1, <1>2, <1>3, <1>4

(* A handler lets go of a task that has not finished, or will report it.   *)
LEMMA LettingGo ==
    ASSUME CaseInv, NEW p \in Posts, L!TimesOut(p) \/ L!ClientLeaves(p)
    PROVE  CaseInv'
<1> USE DEF CaseInv, CaseTypes, OnlyLast, L!Runs
<1>1. CASE L!TimesOut(p)
  BY <1>1 DEF L!TimesOut, L!Abandon, L!Finished, TaskOf, Known, Reached
<1>2. CASE L!ClientLeaves(p)
  BY <1>2 DEF L!ClientLeaves, L!Abandon, L!Answer, L!Answers, L!Finished, TaskOf, Known, Reached
<1> QED
  BY <1>1, <1>2

(* The registry drops only what has ended. *)
LEMMA Drops ==
    ASSUME CaseInv, (\E p \in Posts : L!Sweeps(p)) \/ (\E r \in L!Runs : L!Lookup(r))
    PROVE  CaseInv'
<1> USE DEF CaseInv, CaseTypes, OnlyLast, L!Runs
<1>1. CASE \E p \in Posts : L!Sweeps(p)
  BY <1>1 DEF L!Sweeps, L!HasEnded, TaskOf, Known, Reached
<1>2. CASE \E r \in L!Runs : L!Lookup(r)
  BY <1>2 DEF L!Lookup, L!HasEnded, TaskOf, Known, Reached
<1> QED
  BY <1>1, <1>2

(* A launch: the sessions before it are over, its own request reaches it.  *)
LEMMA Launching ==
    ASSUME CaseInv, NEW p \in Posts, L!Launches(p)
    PROVE  CaseInv'
<1> USE DEF CaseInv, CaseTypes, OnlyLast, L!Runs
<1>1. /\ task[p] = "created" /\ at[p] = "begins" /\ run[p] = 0
      /\ UNCHANGED <<at, lockq, abandoned, stopping, started, late>>
  BY DEF L!Launches, TaskOf
<1>2. CASE UNCHANGED <<run, session>>
  <2>1. PICK answer \in {"busy", "refused"} : task' = [task EXCEPT ![p] = answer]
    BY <1>2 DEF L!Launches
  <2>2. CaseTypes' /\ OnlyLast'
    BY <1>1, <1>2, <2>1 DEF L!Finished
  <2>3. \A q \in Posts : TaskOf(q)'
    BY <1>1, <1>2, <2>1 DEF TaskOf
  <2>4. \A r \in L!Runs : Known(r) => Known(r)'
    BY <1>1, <1>2, <2>1 DEF Known, Reached
  <2> QED
    BY <1>2, <2>2, <2>3, <2>4
<1>3. CASE /\ ~L!Busy /\ task' = [task EXCEPT ![p] = "waits"]
           /\ session' = Append(session, "opening")
           /\ run' = [run EXCEPT ![p] = Len(session) + 1]
  <2> PICK n \in Nat : n = Len(session)
    OBVIOUS
  <2>1. /\ n \in Nat /\ L!Runs = 1..n /\ L!Runs' = 1..(n + 1) /\ Len(session') = n + 1
        /\ session'[n + 1] = "opening" /\ \A r \in 1..n : session'[r] = session[r]
        /\ session' \in Seq(Phases)
    BY <1>3 DEF Phases
  <2>2. n # 0 => session[n] \in Over
    BY <1>3 DEF L!Busy, Over
  <2>3. CaseTypes'
    BY <1>1, <1>3, <2>1
  <2>4. OnlyLast'
    BY <2>1, <2>2
  <2>5. \A q \in Posts : TaskOf(q)'
    BY <1>1, <1>3, <2>1 DEF TaskOf
  <2>6. \A r \in L!Runs : Known(r) => Known(r)'
    BY <1>1, <1>3, <2>1 DEF Known, Reached
  <2>7. Known(n + 1)'
    BY <1>1, <1>3, <2>1 DEF Known, Reached
  <2>8. ASSUME NEW r \in L!Runs', session'[r] \in {"opening", "live"} PROVE Known(r)'
    <3>1. CASE r \in 1..n
      BY <2>1, <2>6, <2>8, <3>1
    <3>2. CASE r = n + 1
      BY <2>7, <3>2
    <3> QED
      BY <2>1, <2>8, <3>1, <3>2
  <2> QED
    BY <2>3, <2>4, <2>5, <2>8
<1> QED
  BY <1>2, <1>3 DEF L!Launches

(* A task's later steps. *)
LEMMA TaskSteps ==
    ASSUME CaseInv, NEW p \in Posts, L!Returns(p) \/ L!Cancelled(p) \/ L!Gathered(p)
    PROVE  CaseInv'
<1> USE DEF CaseInv, CaseTypes, OnlyLast, L!Runs, L!Finished
<1>1. CASE L!Returns(p)
  BY <1>1 DEF L!Returns, TaskOf, Known, Reached
<1>2. CASE L!Cancelled(p)
  <2>1. CaseTypes' /\ OnlyLast'
    BY <1>2 DEF L!Cancelled
  <2>2. \A q \in Posts : TaskOf(q)'
    BY <1>2 DEF L!Cancelled, TaskOf
  <2>3. \A r \in L!Runs : Known(r) => Known(r)'
    BY <1>2 DEF L!Cancelled, Known, Reached
  <2> QED
    BY <1>2, <2>1, <2>2, <2>3 DEF L!Cancelled
<1>3. CASE L!Gathered(p)
  BY <1>3 DEF L!Gathered, TaskOf, Known, Reached
<1> QED
  BY <1>1, <1>2, <1>3

LEMMA SessionMoves ==
    ASSUME CaseInv, NEW r \in L!Runs, L!SessionSteps(r)
    PROVE  CaseInv'
<1> USE DEF CaseInv, CaseTypes, OnlyLast, L!Runs
<1>1. PICK next \in Phases :
        /\ session' = [session EXCEPT ![r] = next] /\ session[r] \notin Over
        /\ next \in {"opening", "live"} => session[r] = "opening"
  BY DEF L!SessionSteps, Phases, Over
<1> QED
  BY <1>1 DEF L!SessionSteps, TaskOf, Known, Reached, Over

LEMMA CaseInvariant == L!Spec => []CaseInv
<1>1. L!Init => CaseInv
  BY DEF L!Init, CaseInv, CaseTypes, OnlyLast, TaskOf, L!Runs
<1>2. CaseInv /\ [L!Next]_L!vars => CaseInv'
  <2> SUFFICES ASSUME CaseInv, [L!Next]_L!vars PROVE CaseInv'
    OBVIOUS
  <2>1. CASE UNCHANGED L!vars
    BY <2>1 DEF L!vars, CaseInv, CaseTypes, OnlyLast, TaskOf, Known, Reached, L!Runs
  <2>2. CASE L!Next
    BY <2>2, HandlerSteps, LettingGo, Drops, Launching, TaskSteps, SessionMoves
       DEF L!Next
  <2> QED
    BY <2>1, <2>2
<1> QED
  BY <1>1, <1>2, PTL DEF L!Spec

LEMMA SameCardinality == ASSUME NEW S PROVE L!Cardinality(S) = Cardinality(S)
  BY DEF L!Cardinality, Cardinality

(* Whatever starts, times out, leaves or is cancelled in between, one      *)
(* session runs at a time, and a live one is registered, stopped, reported *)
(* or about to be (serve/start.py, kernel/web.py).                         *)
THEOREM CasesKnown == L!Spec => [](L!OneSession /\ L!NoCaseLeftRunning)
<1>1. CaseInv => L!OneSession
  <2> DEFINE running == {r \in L!Runs : session[r] \notin Over}
  <2> SUFFICES ASSUME CaseInv PROVE Cardinality(running) <= 1
    BY SameCardinality DEF L!OneSession, Over
  <2>1. running \subseteq {Len(session)}
    BY DEF CaseInv, CaseTypes, OnlyLast, L!Runs
  <2>2. IsFiniteSet({Len(session)}) /\ Cardinality({Len(session)}) = 1
    BY FS_Singleton
  <2> QED
    BY <2>1, <2>2, FS_Subset
<1>2. CaseInv => L!NoCaseLeftRunning
  BY DEF CaseInv, Known, Reached, L!NoCaseLeftRunning
<1> QED
  BY <1>1, <1>2, CaseInvariant, PTL

-----------------------------------------------------------------------------
(* The clicks. *)

Ids(q) == {q[i] : i \in DOMAIN q}

(* What is queued or decided has its slot, which nothing frees again. *)
SlotInv ==
    /\ queue \in Seq(Ids(queue)) /\ D!HandedOnce
    /\ Ids(queue) \cup decided \subseteq DOMAIN slots
    /\ \A id \in DOMAIN slots : slots[id] # "free"

LEMMA TailSlots ==
    ASSUME SlotInv, queue # <<>>, queue' = Tail(queue), UNCHANGED slots,
           decided' \in {decided, decided \cup {Head(queue)}}
    PROVE  SlotInv'
<1>1. /\ Len(queue) \in Nat /\ Len(queue) > 0 /\ DOMAIN queue = 1..Len(queue)
      /\ Len(queue') = Len(queue) - 1 /\ DOMAIN queue' = 1..Len(queue')
      /\ \A i \in 1..Len(queue') : queue'[i] = queue[i + 1]
      /\ queue' \in Seq(Ids(queue))
  BY DEF SlotInv
<1>2. Ids(queue') \subseteq Ids(queue)
  BY <1>1 DEF Ids
<1>3. Head(queue) = queue[1] /\ Head(queue) \in Ids(queue)
  BY <1>1 DEF Ids
<1>4. D!HandedOnce'
  <2>1. \A i \in DOMAIN queue' : i + 1 \in DOMAIN queue /\ queue'[i] = queue[i + 1]
    BY <1>1
  <2>2. \A i, j \in DOMAIN queue' : queue'[i] = queue'[j] => i = j
    BY <1>1, <2>1 DEF SlotInv, D!HandedOnce
  <2>3. ASSUME NEW i \in DOMAIN queue' PROVE queue'[i] \notin decided'
    <3>1. queue[i + 1] \notin decided /\ (queue[i + 1] = queue[1] => i + 1 = 1)
      BY <1>1, <2>1, <2>3 DEF SlotInv, D!HandedOnce
    <3>2. i + 1 # 1
      BY <1>1, <2>3
    <3> QED
      BY <1>3, <2>1, <2>3, <3>1, <3>2
  <2> QED
    BY <2>2, <2>3 DEF D!HandedOnce
<1>5. queue' \in Seq(Ids(queue'))
  <2> DEFINE S == Ids(queue')
  <2>1. \A i \in 1..Len(queue') : queue'[i] \in S
    BY <1>1 DEF Ids
  <2>2. queue' \in [1..Len(queue') -> Ids(queue)] /\ Len(queue') \in Nat
    BY <1>1, LenProperties
  <2> HIDE DEF S
  <2>3. queue' \in [1..Len(queue') -> S]
    BY <2>1, <2>2
  <2>4. queue' \in Seq(S)
    <3>1. PICK n \in Nat : queue' \in [1..n -> S]
      BY <2>2, <2>3
    <3> QED
      BY ONLY <3>1, SeqDef
  <2> QED
    BY <2>4 DEF S
<1> QED
  BY <1>2, <1>3, <1>4, <1>5 DEF SlotInv

LEMMA AppendSlots ==
    ASSUME SlotInv, NEW id, id \notin DOMAIN slots, queue' = Append(queue, id),
           DOMAIN slots' = DOMAIN slots \cup {id},
           \A x \in DOMAIN slots' : slots'[x] # "free", UNCHANGED decided
    PROVE  SlotInv'
<1> DEFINE n == Len(queue)
<1>1. queue \in Seq(Ids(queue) \cup {id})
  <2>1. n \in Nat /\ DOMAIN queue = 1..n /\ \A i \in 1..n : queue[i] \in Ids(queue) \cup {id}
    BY DEF SlotInv
  <2> QED
    BY <2>1 DEF SlotInv
<1>2. /\ n \in Nat /\ DOMAIN queue = 1..n /\ queue' \in Seq(Ids(queue) \cup {id})
      /\ DOMAIN queue' = 1..(n + 1) /\ queue'[n + 1] = id
      /\ \A i \in 1..n : queue'[i] = queue[i]
  BY <1>1 DEF SlotInv
<1> HIDE DEF n
<1>3. Ids(queue') = Ids(queue) \cup {id}
  BY <1>2 DEF Ids
<1>4. id \notin Ids(queue) \cup decided
  BY DEF SlotInv
<1>5. D!HandedOnce'
  BY <1>2, <1>4 DEF D!HandedOnce, SlotInv, Ids
<1> QED
  BY <1>2, <1>3, <1>5 DEF SlotInv

(* However clicks and decisions interleave, no id is queued twice, nor     *)
(* once decided: its slot is taken with the handover, in one step, and     *)
(* stays taken (serve/cases.py, hand_over).                                *)
THEOREM OneHandover == D!Spec => []D!HandedOnce
<1>1. D!Init => SlotInv
  BY DEF D!Init, SlotInv, D!HandedOnce, Ids
<1>2. ASSUME SlotInv, UNCHANGED <<queue, slots, decided>> PROVE SlotInv'
  BY <1>2 DEF SlotInv, D!HandedOnce, Ids
<1>3. ASSUME SlotInv, NEW c \in Clicks, D!HandsOver(c) PROVE SlotInv'
  <2> DEFINE id == click[c].id
  <2>1. CASE ~D!MayPost(id)
    BY <1>2, <1>3, <2>1 DEF D!HandsOver
  <2>2. CASE D!MayPost(id)
    <3>1. id \notin DOMAIN slots
      BY <1>3, <2>2 DEF D!MayPost, D!Slot, SlotInv
    <3>2. PICK end \in {"posted", "failed"} :
             /\ D!Takes(id, end)
             /\ queue' \in {queue, Append(queue, id)} /\ decided' = decided
      BY <1>3, <2>2 DEF D!HandsOver
    <3>3. /\ DOMAIN slots' = DOMAIN slots \cup {id}
          /\ \A x \in DOMAIN slots' : slots'[x] # "free"
      BY <1>3, <3>2 DEF D!Takes, SlotInv
    <3>4. CASE queue' = queue
      BY <1>3, <3>2, <3>3, <3>4 DEF SlotInv, D!HandedOnce, Ids
    <3>5. CASE queue' = Append(queue, id)
      BY <1>3, <3>1, <3>2, <3>3, <3>5, AppendSlots
    <3> QED
      BY <3>2, <3>4, <3>5
  <2> QED
    BY <2>1, <2>2
<1>4. ASSUME SlotInv, [D!Next]_D!vars PROVE SlotInv'
  <2>1. CASE D!Requests \/ D!Expires \/ D!MovesOn \/ \E c \in Clicks : D!Clicked(c) \/ D!LooksUp(c)
    BY <1>2, <1>4, <2>1 DEF D!Requests, D!Expires, D!MovesOn, D!Clicked, D!LooksUp
  <2>2. CASE D!SessionEnds
    <3>1. queue' = <<>> /\ slots' = slots /\ decided' = decided
      BY <2>2 DEF D!SessionEnds
    <3> QED
      BY <1>4, <3>1 DEF SlotInv, D!HandedOnce, Ids
  <2>3. CASE D!Decides
    BY <1>4, <2>3, TailSlots DEF D!Decides
  <2>4. CASE UNCHANGED D!vars
    BY <1>2, <1>4, <2>4 DEF D!vars
  <2> QED
    BY <1>3, <1>4, <2>1, <2>2, <2>3, <2>4 DEF D!Next
<1>5. SlotInv => D!HandedOnce
  BY DEF SlotInv
<1> QED
  BY <1>1, <1>4, <1>5, PTL DEF D!Spec

-----------------------------------------------------------------------------
(* The campaign. *)

(* A plan holds some cells, each once; an endpoint has finitely many models. *)
MatrixConstants ==
    /\ \A p \in Plans : /\ p \in Seq(M!Cell) /\ p # <<>>
                        /\ \A i, j \in DOMAIN p : p[i] = p[j] => i = j
    /\ IsFiniteSet(Echoes)

Ending == Reasons \cup {"unreadable", "stopped", "no_bundle"}
Bundle == [reason : Ending, echo : SUBSET Echoes]
CellRun == [name : Nat \X M!Cell, at : Nat, reason : Ending]

MatrixTypes ==
    /\ \A n \in DOMAIN disk : n \in Nat \X M!Cell /\ disk[n] \in Seq(Bundle)
    /\ pos \in Nat /\ seen \in SUBSET Echoes /\ served \in Echoes
    /\ busy \in {"visit", "session", "returned", "aborted"}
    /\ runs \in Seq(CellRun)

(* The folders are those of one plan, the running one if one runs.         *)
Placed ==
    /\ plan # <<>> => plan \in Plans /\ ~M!Stray(plan)
    /\ plan = <<>> /\ DOMAIN disk # {} => \E p \in Plans : ~M!Stray(p)

(* A folder has no bundle after one that is kept: what it says is its last. *)
KeptIsLast(bs) == \A i \in DOMAIN bs : M!Kept(bs[i]) => i = Len(bs)
KeptLast == \A n \in DOMAIN disk : KeptIsLast(disk[n])
Scored(bs) == bs # <<>> /\ M!Kept(bs[Len(bs)])
EndReason(bs) == IF bs = <<>> THEN "no_bundle" ELSE bs[Len(bs)].reason

(* What the process counted of a cell behind it is what its folder says.   *)
CellDone(k) ==
    LET n == <<k, plan[k]>>
    IN  /\ n \in DOMAIN disk /\ runs[k].name = n /\ M!Said(disk[n]) \subseteq seen
        /\ M!Outcome(runs[k].reason) = M!Outcome(EndReason(disk[n]))
        /\ Scored(disk[n]) => runs[k].at = Len(disk[n])

Progress ==
    plan # <<>> =>
        /\ Len(runs) = pos - 1 /\ \A k \in 1..pos - 1 : CellDone(k)
        /\ \A x, y \in seen : x = y
        /\ busy = "returned" => pos = Len(plan) + 1
        /\ busy # "returned" => pos \in DOMAIN plan
        /\ busy = "session" =>
              /\ M!Here \in DOMAIN disk /\ disk[M!Here] # <<>>
              /\ disk[M!Here][Len(disk[M!Here])].reason = "unreadable"
              /\ M!Said(disk[M!Here]) \subseteq seen

MatrixInv == MatrixTypes /\ Placed /\ KeptLast /\ Progress

LEMMA MatrixCardinality == ASSUME NEW S PROVE M!Cardinality(S) = Cardinality(S)
  BY DEF M!Cardinality, Cardinality

(* Echoes that have not changed are one at most. *)
LEMMA Unchanging ==
    ASSUME MatrixConstants, NEW S \in SUBSET Echoes
    PROVE  ~M!Changed(S) <=> \A x, y \in S : x = y
<1>1. IsFiniteSet(S) /\ Cardinality(S) \in Nat
  BY FS_Subset, FS_CardinalityType DEF MatrixConstants
<1>2. ASSUME \A x, y \in S : x = y
      PROVE  Cardinality(S) <= 1
  <2>1. CASE S = {}
    <3>1. Cardinality(S) = 0
      BY <2>1, FS_EmptySet
    <3> QED
      BY <3>1
  <2>2. CASE S # {}
    <3>1. PICK x \in S : S = {x}
      BY <1>2, <2>2
    <3>2. Cardinality({x}) = 1
      BY FS_Singleton
    <3> QED
      BY <3>1, <3>2
  <2> QED
    BY <2>1, <2>2
<1>3. ASSUME Cardinality(S) <= 1, NEW x \in S, NEW y \in S
      PROVE  x = y
  <2>1. SUFFICES ASSUME x # y PROVE FALSE
    OBVIOUS
  <2>2. IsFiniteSet(S \ {x}) /\ Cardinality(S \ {x}) = Cardinality(S) - 1
    BY <1>1, <1>3, FS_RemoveElement
  <2>3. Cardinality(S \ {x}) = 0
    <3>1. Cardinality(S \ {x}) \in Nat
      BY <2>2, FS_CardinalityType
    <3> QED
      BY <1>1, <1>3, <2>2, <3>1
  <2>4. S \ {x} = {}
    BY <2>2, <2>3, FS_EmptySet
  <2> QED
    BY <1>3, <2>1, <2>4
<1> QED
  BY <1>1, <1>2, <1>3, MatrixCardinality DEF M!Changed

LEMMA KeptOfLast ==
    ASSUME NEW bs \in Seq(Bundle), KeptIsLast(bs)
    PROVE  /\ M!KeptOf(bs) = IF Scored(bs) THEN Len(bs) ELSE 0
           /\ M!KeptOf(bs) # 0 <=> Scored(bs)
           /\ bs # <<>> => Len(bs) \in DOMAIN bs /\ Len(bs) \in Nat \ {0}
<1>1. Len(bs) \in Nat /\ DOMAIN bs = 1..Len(bs) /\ (bs = <<>> <=> Len(bs) = 0)
  BY EmptySeq, LenProperties
<1>2. CASE Scored(bs)
  <2>1. Len(bs) \in DOMAIN bs /\ M!Kept(bs[Len(bs)])
    BY <1>1, <1>2 DEF Scored
  <2> DEFINE P(i) == M!Kept(bs[i]) /\ \A j \in i + 1 .. Len(bs) : ~M!Kept(bs[j])
  <2>2. P(Len(bs)) /\ \A i \in DOMAIN bs : P(i) => i = Len(bs)
    BY <1>1, <2>1 DEF KeptIsLast
  <2>3. (CHOOSE i \in DOMAIN bs : P(i)) = Len(bs)
    <3> HIDE DEF P
    <3> QED
      BY <2>1, <2>2
  <2>4. M!KeptOf(bs) = Len(bs)
    BY <2>1, <2>3 DEF M!KeptOf
  <2> QED
    BY <1>1, <1>2, <2>1, <2>4
<1>3. CASE ~Scored(bs)
  <2>1. \A i \in DOMAIN bs : ~M!Kept(bs[i])
    BY <1>1, <1>3 DEF Scored, KeptIsLast
  <2>2. M!KeptOf(bs) = 0
    BY <2>1 DEF M!KeptOf
  <2> QED
    BY <1>1, <1>3, <2>2
<1> QED
  BY <1>2, <1>3

LEMMA SaidEchoes ==
    ASSUME NEW bs \in Seq(Bundle)
    PROVE  M!Said(bs) \in SUBSET Echoes
<1> SUFFICES ASSUME NEW e \in M!Said(bs) PROVE e \in Echoes
  OBVIOUS
<1>1. PICK b \in M!ToSet(bs) : e \in b.echo
  BY DEF M!Said
<1>2. b \in Bundle
  BY DEF M!ToSet
<1> QED
  BY <1>1, <1>2 DEF Bundle

(* A bundle without a manifest says nothing. *)
LEMMA SaidOpen ==
    ASSUME NEW bs \in Seq(Bundle), NEW b \in Bundle
    PROVE  M!Said(Append(bs, b)) =
              M!Said(bs) \cup (IF b.reason = "unreadable" THEN {} ELSE b.echo)
<1> DEFINE n == Len(bs) + 1
           c == Append(bs, b)
<1>1. /\ DOMAIN c = 1..n /\ c[n] = b /\ DOMAIN bs = 1..(n - 1) /\ n \in Nat /\ n >= 1
      /\ \A i \in 1..(n - 1) : c[i] = bs[i]
  OBVIOUS
<1> HIDE DEF n, c
<1>2. M!ToSet(c) = M!ToSet(bs) \cup {b}
  BY <1>1 DEF M!ToSet
<1>3. {x \in M!ToSet(c) : x.reason # "unreadable"} =
         {x \in M!ToSet(bs) : x.reason # "unreadable"} \cup
            (IF b.reason = "unreadable" THEN {} ELSE {b})
  BY <1>2
<1>4. M!Said(c) = M!Said(bs) \cup (IF b.reason = "unreadable" THEN {} ELSE b.echo)
  BY <1>3 DEF M!Said
<1> QED
  BY <1>4 DEF c

LEMMA LastChanges ==
    ASSUME NEW bs \in Seq(Bundle), bs # <<>>, NEW b \in Bundle
    PROVE  LET c == [bs EXCEPT ![Len(bs)] = b]
           IN  /\ c \in Seq(Bundle) /\ c # <<>> /\ Len(c) = Len(bs) /\ c[Len(bs)] = b
               /\ \A i \in DOMAIN bs : i # Len(bs) => c[i] = bs[i]
               /\ DOMAIN c = DOMAIN bs
               /\ M!Said(c) \subseteq M!Said(bs) \cup b.echo
<1> DEFINE c == [bs EXCEPT ![Len(bs)] = b]
           n == Len(bs)
<1>1. n \in Nat \ {0} /\ DOMAIN bs = 1..n
  BY EmptySeq, LenProperties
<1>2. /\ c \in Seq(Bundle) /\ Len(c) = n /\ DOMAIN c = 1..n /\ c[n] = b
      /\ \A i \in 1..n : i # n => c[i] = bs[i]
  <2>1. bs \in [1..n -> Bundle]
    BY <1>1
  <2>2. c = [i \in 1..n |-> IF i = n THEN b ELSE bs[i]]
    BY <1>1
  <2> HIDE DEF c, n
  <2>3. c \in [1..n -> Bundle]
    BY <2>1, <2>2
  <2>4. c \in Seq(Bundle) /\ Len(c) = n
    BY <1>1, <2>3
  <2> QED
    BY <1>1, <2>2, <2>4
<1>3. c # <<>>
  BY <1>1, <1>2
<1> HIDE DEF c, n
<1>4. M!ToSet(c) \subseteq M!ToSet(bs) \cup {b}
  BY <1>1, <1>2 DEF M!ToSet
<1>5. M!Said(c) \subseteq M!Said(bs) \cup b.echo
  BY <1>4 DEF M!Said
<1> QED
  BY <1>1, <1>2, <1>3, <1>5 DEF c, n

(* Only the folder of the process's cell changes, and it has no score yet. *)
LEMMA HereChanges ==
    ASSUME MatrixInv, plan # <<>>, pos \in DOMAIN plan, NEW bs \in Seq(Bundle), KeptIsLast(bs),
           MatrixConstants,
           DOMAIN disk' = DOMAIN disk \cup {M!Here}, disk'[M!Here] = bs,
           \A n \in DOMAIN disk : n # M!Here => disk'[n] = disk[n],
           M!Here \in DOMAIN disk => ~Scored(disk[M!Here])
    PROVE  /\ \A n \in DOMAIN disk' : n \in Nat \X M!Cell /\ disk'[n] \in Seq(Bundle)
           /\ KeptLast' /\ M!ScoredOnce
           /\ \A n \in DOMAIN disk' : n[1] \in DOMAIN plan /\ plan[n[1]] = n[2]
           /\ \A k \in 1..pos - 1 : <<k, plan[k]>> \in DOMAIN disk =>
                  <<k, plan[k]>> \in DOMAIN disk' /\ disk'[<<k, plan[k]>>] = disk[<<k, plan[k]>>]
<1>1. plan \in Plans /\ ~M!Stray(plan)
  BY DEF MatrixInv, Placed
<1>2. plan \in Seq(M!Cell) /\ plan[pos] \in M!Cell /\ pos \in Nat
  BY <1>1 DEF MatrixConstants, MatrixInv, MatrixTypes
<1>3. M!Here \in Nat \X M!Cell /\ M!Here[1] = pos /\ M!Here[2] = plan[pos]
  BY <1>2 DEF M!Here
<1>4. \A n \in DOMAIN disk' : n \in Nat \X M!Cell /\ disk'[n] \in Seq(Bundle)
  <2> SUFFICES ASSUME NEW n \in DOMAIN disk'
               PROVE  n \in Nat \X M!Cell /\ disk'[n] \in Seq(Bundle)
    OBVIOUS
  <2>1. CASE n = M!Here
    BY <1>3, <2>1
  <2>2. CASE n # M!Here
    BY <2>2 DEF MatrixInv, MatrixTypes
  <2> QED
    BY <2>1, <2>2
<1>5. KeptLast'
  <2> SUFFICES ASSUME NEW n \in DOMAIN disk' PROVE KeptIsLast(disk'[n])
    BY DEF KeptLast, KeptIsLast
  <2>1. CASE n = M!Here
    BY <2>1
  <2>2. CASE n # M!Here
    BY <2>2 DEF MatrixInv, KeptLast
  <2> QED
    BY <2>1, <2>2
<1>6. M!ScoredOnce
  <2> SUFFICES ASSUME NEW n \in DOMAIN disk, M!KeptOf(disk[n]) # 0 PROVE disk'[n] = disk[n]
    BY DEF M!ScoredOnce
  <2>1. Scored(disk[n])
    BY KeptOfLast DEF MatrixInv, MatrixTypes, KeptLast
  <2> QED
    BY <2>1
<1>7. \A n \in DOMAIN disk' : n[1] \in DOMAIN plan /\ plan[n[1]] = n[2]
  BY <1>1, <1>3 DEF M!Stray
<1>8. \A k \in 1..pos - 1 : <<k, plan[k]>> # M!Here
  BY <1>2 DEF M!Here
<1> QED
  BY <1>4, <1>5, <1>6, <1>7, <1>8

(* The cells behind stay as they were counted, as echoes add up.           *)
LEMMA CellsStay ==
    ASSUME plan' = plan, NEW k, CellDone(k), seen \subseteq seen', runs'[k] = runs[k],
           <<k, plan[k]>> \in DOMAIN disk', disk'[<<k, plan[k]>>] = disk[<<k, plan[k]>>]
    PROVE  CellDone(k)'
BY DEF CellDone

(* The cell is counted, and the process goes on to the next. *)
LEMMA GoesOn ==
    ASSUME MatrixConstants, MatrixInv, plan # <<>>, pos \in DOMAIN plan, plan' = plan,
           NEW made \in CellRun, M!Onward(made),
           seen \subseteq seen', \A x, y \in seen' : x = y,
           \A k \in 1..pos - 1 : <<k, plan[k]>> \in DOMAIN disk =>
               <<k, plan[k]>> \in DOMAIN disk' /\ disk'[<<k, plan[k]>>] = disk[<<k, plan[k]>>],
           M!Here \in DOMAIN disk', made.name = M!Here, M!Said(disk'[M!Here]) \subseteq seen',
           M!Outcome(made.reason) = M!Outcome(EndReason(disk'[M!Here])),
           Scored(disk'[M!Here]) => made.at = Len(disk'[M!Here])
    PROVE  /\ runs' \in Seq(CellRun) /\ pos' \in Nat /\ busy' \in {"visit", "returned"}
           /\ Progress'
<1>1. runs \in Seq(CellRun) /\ pos \in Nat /\ Len(runs) = pos - 1 /\ plan \in Seq(M!Cell)
  BY DEF MatrixInv, MatrixTypes, Progress, Placed, MatrixConstants
<1>2. DOMAIN plan = 1..Len(plan) /\ Len(plan) \in Nat /\ pos \in 1..Len(plan)
  BY <1>1
<1>3. /\ runs' = Append(runs, made) /\ pos' = pos + 1
      /\ busy' = IF pos = Len(plan) THEN "returned" ELSE "visit"
  BY DEF M!Onward
<1>4. /\ runs' \in Seq(CellRun) /\ Len(runs') = pos /\ runs'[pos] = made
      /\ \A k \in 1..pos - 1 : runs'[k] = runs[k]
  BY <1>1, <1>2, <1>3
<1>5. \A k \in 1..pos - 1 : CellDone(k)'
  <2> SUFFICES ASSUME NEW k \in 1..pos - 1 PROVE CellDone(k)'
    OBVIOUS
  <2>1. CellDone(k)
    BY DEF MatrixInv, Progress
  <2>2. <<k, plan[k]>> \in DOMAIN disk
    BY <2>1 DEF CellDone
  <2> QED
    BY <1>4, <2>1, <2>2, CellsStay
<1>6. \A k : k = pos => CellDone(k)'
  BY <1>4 DEF CellDone, M!Here
<1>7. \A k \in 1..pos' - 1 : CellDone(k)'
  <2>1. \A k \in 1..pos' - 1 : k \in 1..pos - 1 \/ k = pos
    BY <1>2, <1>3
  <2> QED
    BY <1>5, <1>6, <2>1
<1>8. Len(runs') = pos' - 1 /\ pos' \in Nat /\ busy' \in {"visit", "returned"}
  BY <1>1, <1>2, <1>3, <1>4
<1>9. busy' = "returned" => pos' = Len(plan) + 1
  BY <1>3
<1>10. busy' # "returned" => pos' \in DOMAIN plan
  BY <1>2, <1>3
<1>11. Progress'
  BY <1>3, <1>7, <1>8, <1>9, <1>10 DEF Progress
<1> QED
  BY <1>4, <1>8, <1>11

(* What the process reads at its cell. *)
CellRead ==
    /\ pos \in DOMAIN plan /\ M!Here \in Nat \X M!Cell
    /\ M!Folder \in Seq(Bundle) /\ KeptIsLast(M!Folder)
    /\ M!Folder = IF M!Here \in DOMAIN disk THEN disk[M!Here] ELSE <<>>
    /\ M!KeptOf(M!Folder) = IF Scored(M!Folder) THEN Len(M!Folder) ELSE 0
    /\ M!KeptOf(M!Folder) # 0 <=> Scored(M!Folder)
    /\ M!Said(M!Folder) \in SUBSET Echoes /\ Len(M!Folder) \in Nat
    /\ M!Folder # <<>> => Len(M!Folder) \in DOMAIN M!Folder

LEMMA AtCell ==
    ASSUME MatrixConstants, MatrixInv, plan # <<>>, busy # "returned"
    PROVE  CellRead
<1>1. pos \in DOMAIN plan /\ plan \in Seq(M!Cell) /\ pos \in Nat
  BY DEF MatrixInv, MatrixTypes, Progress, Placed, MatrixConstants
<1>2. M!Here \in Nat \X M!Cell
  BY <1>1 DEF M!Here
<1>3. M!Folder = IF M!Here \in DOMAIN disk THEN disk[M!Here] ELSE <<>>
  BY DEF M!Folder
<1>4. M!Folder \in Seq(Bundle) /\ KeptIsLast(M!Folder)
  <2>1. CASE M!Here \in DOMAIN disk
    BY <1>3, <2>1 DEF MatrixInv, MatrixTypes, KeptLast
  <2>2. CASE M!Here \notin DOMAIN disk
    BY <1>3, <2>2 DEF KeptIsLast
  <2> QED
    BY <2>1, <2>2
<1>5. M!Said(M!Folder) \in SUBSET Echoes /\ Len(M!Folder) \in Nat
  BY <1>4, SaidEchoes
<1> QED
  BY <1>1, <1>2, <1>3, <1>4, <1>5, KeptOfLast DEF CellRead

(* A process that stays at its cell, or ends. *)
LEMMA Stays ==
    ASSUME MatrixInv, MatrixConstants, plan # <<>>, busy # "returned",
           plan' = plan, pos' = pos, runs' = runs, seen \subseteq seen', \A x, y \in seen' : x = y,
           \A k \in 1..pos - 1 : <<k, plan[k]>> \in DOMAIN disk =>
               <<k, plan[k]>> \in DOMAIN disk' /\ disk'[<<k, plan[k]>>] = disk[<<k, plan[k]>>],
           busy' # "returned",
           busy' = "session" =>
               /\ M!Here \in DOMAIN disk' /\ disk'[M!Here] # <<>>
               /\ disk'[M!Here][Len(disk'[M!Here])].reason = "unreadable"
               /\ M!Said(disk'[M!Here]) \subseteq seen'
    PROVE  Progress'
<1>1. pos \in DOMAIN plan /\ Len(runs) = pos - 1
  BY DEF MatrixInv, Progress
<1>2. \A k \in 1..pos - 1 : CellDone(k)'
  <2> SUFFICES ASSUME NEW k \in 1..pos - 1 PROVE CellDone(k)'
    OBVIOUS
  <2>1. CellDone(k)
    BY DEF MatrixInv, Progress
  <2>2. <<k, plan[k]>> \in DOMAIN disk
    BY <2>1 DEF CellDone
  <2> QED
    BY <2>1, <2>2, CellsStay
<1>3. busy' = "session" =>
          /\ M!Here' \in DOMAIN disk' /\ disk'[M!Here'] # <<>>
          /\ disk'[M!Here'][Len(disk'[M!Here'])].reason = "unreadable"
          /\ M!Said(disk'[M!Here']) \subseteq seen'
  BY DEF M!Here
<1>4. M!Said(disk[M!Here])' = M!Said(disk'[M!Here'])
  BY DEF M!Said
<1> QED
  BY <1>1, <1>2, <1>3, <1>4 DEF Progress

(* What a step on the disk keeps. *)
DiskKept ==
    /\ \A n \in DOMAIN disk' : n \in Nat \X M!Cell /\ disk'[n] \in Seq(Bundle)
    /\ KeptLast' /\ M!ScoredOnce
    /\ plan # <<>> => \A n \in DOMAIN disk' : n[1] \in DOMAIN plan /\ plan[n[1]] = n[2]

LEMMA DiskSame ==
    ASSUME MatrixInv, disk' = disk
    PROVE  DiskKept
<1>1. \A n \in DOMAIN disk' : n \in Nat \X M!Cell /\ disk'[n] \in Seq(Bundle)
  BY DEF MatrixInv, MatrixTypes
<1>2. KeptLast'
  BY DEF MatrixInv, KeptLast, KeptIsLast
<1>3. M!ScoredOnce
  BY DEF M!ScoredOnce
<1>4. plan # <<>> => \A n \in DOMAIN disk' : n[1] \in DOMAIN plan /\ plan[n[1]] = n[2]
  BY DEF MatrixInv, Placed, M!Stray
<1> QED
  BY <1>1, <1>2, <1>3, <1>4 DEF DiskKept

LEMMA StaysPlaced ==
    ASSUME MatrixInv, plan # <<>>, plan' \in {plan, <<>>},
           \A n \in DOMAIN disk' : n[1] \in DOMAIN plan /\ plan[n[1]] = n[2]
    PROVE  Placed'
<1>1. plan \in Plans
  BY DEF MatrixInv, Placed
<1>2. CASE plan' = plan
  BY <1>1, <1>2 DEF Placed, M!Stray
<1>3. CASE plan' = <<>>
  <2>1. \E p \in Plans : ~(\E n \in DOMAIN disk' : ~(n[1] \in DOMAIN p /\ p[n[1]] = n[2]))
    BY <1>1
  <2> QED
    BY <1>3, <2>1 DEF Placed, M!Stray
<1> QED
  BY <1>2, <1>3

LEMMA MatrixInit ==
    ASSUME M!Init
    PROVE  MatrixInv
<1>1. /\ disk = <<>> /\ plan = <<>> /\ pos = 1 /\ busy = "visit" /\ seen = {} /\ runs = <<>>
      /\ served \in Echoes /\ DOMAIN disk = {}
  BY DEF M!Init
<1>2. MatrixTypes
  <2>1. runs \in Seq(CellRun)
    BY <1>1
  <2> QED
    BY <1>1, <2>1 DEF MatrixTypes
<1>3. Placed /\ KeptLast /\ Progress
  BY <1>1 DEF Placed, KeptLast, Progress
<1> QED
  BY <1>2, <1>3 DEF MatrixInv

LEMMA MatrixStart ==
    ASSUME MatrixConstants, MatrixInv, M!Start
    PROVE  MatrixInv' /\ M!ScoredOnce
<1>1. PICK p \in Plans : ~M!Stray(p) /\ plan' = p
  BY DEF M!Start
<1>2. /\ pos' = 1 /\ busy' = "visit" /\ seen' = {} /\ runs' = <<>> /\ disk' = disk
      /\ served' = served
  BY DEF M!Start
<1>3. KeptLast' /\ M!ScoredOnce
  BY <1>2, DiskSame DEF DiskKept
<1>4. MatrixTypes'
  <2>1. runs' \in Seq(CellRun)
    BY <1>2
  <2> QED
    BY <1>2, <2>1 DEF MatrixInv, MatrixTypes
<1>5. Placed'
  <2>1. ~M!Stray(p)'
    BY <1>1, <1>2 DEF M!Stray
  <2> QED
    BY <1>1, <2>1 DEF Placed, M!Stray, MatrixConstants
<1>6. p \in Seq(M!Cell) /\ p # <<>>
  BY DEF MatrixConstants
<1>7. 1 \in DOMAIN plan'
  BY <1>1, <1>6
<1>8. Progress'
  BY <1>2, <1>7 DEF Progress
<1> QED
  BY <1>3, <1>4, <1>5, <1>8 DEF MatrixInv

LEMMA MatrixSkip ==
    ASSUME MatrixConstants, MatrixInv, M!Skip
    PROVE  MatrixInv' /\ M!ScoredOnce
<1> DEFINE made == [name |-> M!Here, at |-> M!KeptOf(M!Folder),
                   reason |-> M!Folder[M!KeptOf(M!Folder)].reason]
<1>1. /\ plan # <<>> /\ busy = "visit" /\ ~M!Changed(seen \cup M!Said(M!Folder))
      /\ M!KeptOf(M!Folder) # 0 /\ seen' = seen \cup M!Said(M!Folder)
      /\ M!Onward(made) /\ disk' = disk /\ plan' = plan /\ served' = served
  BY DEF M!Skip, M!Running
<1>2. CellRead
  BY <1>1, AtCell
<1>3. /\ Scored(M!Folder) /\ M!Folder # <<>> /\ M!Here \in DOMAIN disk
      /\ M!Folder = disk[M!Here] /\ M!KeptOf(M!Folder) = Len(M!Folder)
  BY <1>1, <1>2 DEF Scored, CellRead
<1>4. seen' \in SUBSET Echoes /\ \A x, y \in seen' : x = y
  <2>1. seen' \in SUBSET Echoes
    BY <1>1, <1>2 DEF MatrixInv, MatrixTypes, CellRead
  <2> QED
    BY <1>1, <2>1, Unchanging
<1>5. made \in CellRun /\ made.name = M!Here /\ made.at = Len(M!Folder)
      /\ made.reason = EndReason(M!Folder)
  <2>1. M!Folder[Len(M!Folder)] \in Bundle
    BY <1>2, <1>3 DEF CellRead
  <2> QED
    BY <1>2, <1>3, <2>1 DEF CellRun, Bundle, EndReason, CellRead
<1> HIDE DEF made
<1>6. runs' \in Seq(CellRun) /\ pos' \in Nat /\ busy' \in {"visit", "returned"} /\ Progress'
  BY <1>1, <1>2, <1>3, <1>4, <1>5, GoesOn DEF CellRead
<1>7. DiskKept
  BY <1>1, DiskSame
<1>8. MatrixTypes'
  BY <1>1, <1>4, <1>6, <1>7 DEF MatrixInv, MatrixTypes, DiskKept
<1>9. Placed'
  BY <1>1, <1>7, StaysPlaced DEF DiskKept
<1> QED
  BY <1>6, <1>7, <1>8, <1>9 DEF MatrixInv, DiskKept

LEMMA MatrixReadsChanged ==
    ASSUME MatrixConstants, MatrixInv, M!ReadsChanged
    PROVE  MatrixInv' /\ M!ScoredOnce
<1>1. /\ plan # <<>> /\ busy = "visit" /\ busy' = "aborted" /\ disk' = disk /\ plan' = plan
      /\ pos' = pos /\ seen' = seen /\ runs' = runs /\ served' = served
  BY DEF M!ReadsChanged, M!Running
<1>2. \A x, y \in seen' : x = y
  BY <1>1 DEF MatrixInv, Progress
<1>3. DiskKept
  BY <1>1, DiskSame
<1>4. Progress'
  BY <1>1, <1>2, Stays
<1>5. MatrixTypes'
  BY <1>1, <1>3 DEF MatrixInv, MatrixTypes, DiskKept
<1>6. Placed'
  BY <1>1, <1>3, StaysPlaced DEF DiskKept
<1> QED
  BY <1>3, <1>4, <1>5, <1>6 DEF MatrixInv, DiskKept

(* The folder of the cell is written, while it has no score. *)
LEMMA HereHolds ==
    ASSUME MatrixConstants, MatrixInv, plan # <<>>, busy # "returned", ~Scored(M!Folder),
           NEW bs \in Seq(Bundle), KeptIsLast(bs), disk' = M!Holds(bs)
    PROVE  /\ DiskKept /\ M!Here \in DOMAIN disk' /\ disk'[M!Here] = bs
           /\ \A k \in 1..pos - 1 : <<k, plan[k]>> \in DOMAIN disk =>
                  <<k, plan[k]>> \in DOMAIN disk' /\ disk'[<<k, plan[k]>>] = disk[<<k, plan[k]>>]
<1>1. CellRead
  BY AtCell
<1>2. /\ DOMAIN disk' = DOMAIN disk \cup {M!Here} /\ disk'[M!Here] = bs
      /\ \A n \in DOMAIN disk : n # M!Here => disk'[n] = disk[n]
  BY DEF M!Holds
<1>3. M!Here \in DOMAIN disk => ~Scored(disk[M!Here])
  BY <1>1 DEF CellRead
<1>4. /\ \A n \in DOMAIN disk' : n \in Nat \X M!Cell /\ disk'[n] \in Seq(Bundle)
      /\ KeptLast' /\ M!ScoredOnce
      /\ \A n \in DOMAIN disk' : n[1] \in DOMAIN plan /\ plan[n[1]] = n[2]
      /\ \A k \in 1..pos - 1 : <<k, plan[k]>> \in DOMAIN disk =>
             <<k, plan[k]>> \in DOMAIN disk' /\ disk'[<<k, plan[k]>>] = disk[<<k, plan[k]>>]
  BY <1>1, <1>2, <1>3, HereChanges DEF CellRead
<1> QED
  BY <1>2, <1>4 DEF DiskKept

(* A folder of its own, whose bundles are not kept.                        *)
LEMMA NoneKept ==
    ASSUME NEW bs \in Seq(Bundle), KeptIsLast(bs), ~Scored(bs)
    PROVE  \A i \in DOMAIN bs : ~M!Kept(bs[i])
<1>1. Len(bs) \in Nat /\ DOMAIN bs = 1..Len(bs) /\ (bs = <<>> <=> Len(bs) = 0)
  BY EmptySeq, LenProperties
<1> QED
  BY <1>1 DEF Scored, KeptIsLast

LEMMA MatrixSession ==
    ASSUME MatrixConstants, MatrixInv, M!Session
    PROVE  MatrixInv' /\ M!ScoredOnce
<1> DEFINE blank == [reason |-> "unreadable", echo |-> {}]
           bs == Append(M!Folder, blank)
<1>1. /\ plan # <<>> /\ busy = "visit" /\ ~M!Changed(seen \cup M!Said(M!Folder))
      /\ M!KeptOf(M!Folder) = 0 /\ seen' = seen \cup M!Said(M!Folder)
      /\ busy' = "session" /\ disk' = M!Holds(bs)
      /\ plan' = plan /\ pos' = pos /\ runs' = runs /\ served' = served
  BY DEF M!Session, M!Running
<1>2. CellRead
  BY <1>1, AtCell
<1>3. ~Scored(M!Folder)
  BY <1>1, <1>2 DEF CellRead
<1>4. seen' \in SUBSET Echoes /\ \A x, y \in seen' : x = y
  <2>1. seen' \in SUBSET Echoes
    BY <1>1, <1>2 DEF MatrixInv, MatrixTypes, CellRead
  <2> QED
    BY <1>1, <2>1, Unchanging
<1>5. M!Folder \in Seq(Bundle) /\ blank \in Bundle
  BY <1>2 DEF CellRead, Bundle, Ending
<1>6. bs \in Seq(Bundle) /\ bs # <<>> /\ bs[Len(bs)] = blank /\ M!Said(bs) = M!Said(M!Folder)
  <2>1. M!Said(bs) = M!Said(M!Folder)
    BY <1>5, SaidOpen
  <2> QED
    BY <1>5, <2>1
<1>7. KeptIsLast(bs)
  <2>1. \A i \in DOMAIN M!Folder : ~M!Kept(M!Folder[i])
    BY <1>2, <1>3, NoneKept DEF CellRead
  <2>2. \A i \in DOMAIN bs : i # Len(bs) => i \in DOMAIN M!Folder /\ bs[i] = M!Folder[i]
    BY <1>5
  <2> QED
    BY <2>1, <2>2 DEF KeptIsLast
<1> HIDE DEF bs
<1>8. /\ DiskKept /\ M!Here \in DOMAIN disk' /\ disk'[M!Here] = bs
      /\ \A k \in 1..pos - 1 : <<k, plan[k]>> \in DOMAIN disk =>
             <<k, plan[k]>> \in DOMAIN disk' /\ disk'[<<k, plan[k]>>] = disk[<<k, plan[k]>>]
  BY <1>1, <1>3, <1>6, <1>7, HereHolds
<1>9. /\ disk'[M!Here] # <<>> /\ M!Said(disk'[M!Here]) \subseteq seen'
      /\ disk'[M!Here][Len(disk'[M!Here])].reason = "unreadable"
  BY <1>1, <1>6, <1>8
<1>10. Progress'
  BY <1>1, <1>4, <1>8, <1>9, Stays
<1>11. MatrixTypes'
  BY <1>1, <1>4, <1>8 DEF MatrixInv, MatrixTypes, DiskKept
<1>12. Placed'
  BY <1>1, <1>8, StaysPlaced DEF DiskKept
<1> QED
  BY <1>8, <1>10, <1>11, <1>12 DEF MatrixInv, DiskKept

LEMMA MatrixRefused ==
    ASSUME MatrixConstants, MatrixInv, M!Refused
    PROVE  MatrixInv' /\ M!ScoredOnce
<1> DEFINE made == [name |-> M!Here, at |-> 0, reason |-> "no_bundle"]
<1>1. /\ plan # <<>> /\ busy = "visit" /\ ~M!Changed(seen \cup M!Said(M!Folder))
      /\ M!KeptOf(M!Folder) = 0 /\ seen' = seen \cup M!Said(M!Folder)
      /\ disk' = M!Holds(M!Folder) /\ M!Onward(made)
      /\ plan' = plan /\ served' = served
  BY DEF M!Refused, M!Running
<1>2. CellRead
  BY <1>1, AtCell
<1>3. ~Scored(M!Folder)
  BY <1>1, <1>2 DEF CellRead
<1>4. seen' \in SUBSET Echoes /\ \A x, y \in seen' : x = y
  <2>1. seen' \in SUBSET Echoes
    BY <1>1, <1>2 DEF MatrixInv, MatrixTypes, CellRead
  <2> QED
    BY <1>1, <2>1, Unchanging
<1>5. M!Folder \in Seq(Bundle) /\ KeptIsLast(M!Folder)
  BY <1>2 DEF CellRead
<1>6. /\ DiskKept /\ M!Here \in DOMAIN disk' /\ disk'[M!Here] = M!Folder
      /\ \A k \in 1..pos - 1 : <<k, plan[k]>> \in DOMAIN disk =>
             <<k, plan[k]>> \in DOMAIN disk' /\ disk'[<<k, plan[k]>>] = disk[<<k, plan[k]>>]
  BY <1>1, <1>3, <1>5, HereHolds
<1>7. M!Outcome(made.reason) = M!Outcome(EndReason(M!Folder))
  <2>1. CASE M!Folder = <<>>
    BY <2>1 DEF EndReason
  <2>2. CASE M!Folder # <<>>
    <3>1. ~M!Kept(M!Folder[Len(M!Folder)])
      BY <1>3, <2>2 DEF Scored
    <3> QED
      BY <2>2, <3>1, Z3 DEF M!Kept, M!Rerun, M!Outcome, EndReason
  <2> QED
    BY <2>1, <2>2
<1>8. made \in CellRun /\ made.name = M!Here
  BY <1>2 DEF CellRun, Ending, CellRead
<1> HIDE DEF made
<1>9. runs' \in Seq(CellRun) /\ pos' \in Nat /\ busy' \in {"visit", "returned"} /\ Progress'
  BY <1>1, <1>2, <1>3, <1>4, <1>6, <1>7, <1>8, GoesOn DEF CellRead
<1>10. MatrixTypes'
  BY <1>1, <1>4, <1>6, <1>9 DEF MatrixInv, MatrixTypes, DiskKept
<1>11. Placed'
  BY <1>1, <1>6, StaysPlaced DEF DiskKept
<1> QED
  BY <1>6, <1>9, <1>10, <1>11 DEF MatrixInv, DiskKept

(* What the process knows of the session it runs. *)
SessionRead ==
    /\ CellRead /\ ~Scored(M!Folder)
    /\ M!Here \in DOMAIN disk /\ M!Folder = disk[M!Here] /\ M!Folder # <<>>
    /\ M!Folder[Len(M!Folder)].reason = "unreadable" /\ M!Said(M!Folder) \subseteq seen

LEMMA AtSession ==
    ASSUME MatrixConstants, MatrixInv, plan # <<>>, busy = "session"
    PROVE  SessionRead
<1>1. CellRead
  BY AtCell
<1>2. /\ M!Here \in DOMAIN disk /\ M!Folder = disk[M!Here] /\ M!Folder # <<>>
      /\ M!Folder[Len(M!Folder)].reason = "unreadable" /\ M!Said(M!Folder) \subseteq seen
  BY DEF MatrixInv, Progress, M!Folder
<1>3. ~Scored(M!Folder)
  BY <1>2 DEF Scored, M!Kept, M!Rerun
<1> QED
  BY <1>1, <1>2, <1>3 DEF SessionRead

(* The session's bundle gets its manifest. *)
LEMMA LastHere ==
    ASSUME MatrixConstants, MatrixInv, plan # <<>>, busy = "session", NEW b \in Bundle,
           disk' = [disk EXCEPT ![M!Here][Len(M!Folder)] = b]
    PROVE  /\ DiskKept /\ M!Here \in DOMAIN disk'
           /\ disk'[M!Here] = [M!Folder EXCEPT ![Len(M!Folder)] = b]
           /\ \A k \in 1..pos - 1 : <<k, plan[k]>> \in DOMAIN disk =>
                  <<k, plan[k]>> \in DOMAIN disk' /\ disk'[<<k, plan[k]>>] = disk[<<k, plan[k]>>]
<1> DEFINE c == [M!Folder EXCEPT ![Len(M!Folder)] = b]
<1>1. SessionRead
  BY AtSession
<1>2. M!Folder \in Seq(Bundle) /\ M!Folder # <<>>
  BY <1>1 DEF SessionRead, CellRead
<1>3. /\ c \in Seq(Bundle) /\ Len(c) = Len(M!Folder) /\ DOMAIN c = DOMAIN M!Folder
      /\ \A i \in DOMAIN M!Folder : i # Len(M!Folder) => c[i] = M!Folder[i]
  BY <1>2, LastChanges
<1>4. KeptIsLast(c)
  <2>1. \A i \in DOMAIN M!Folder : ~M!Kept(M!Folder[i])
    BY <1>1, NoneKept DEF SessionRead, CellRead
  <2> HIDE DEF c
  <2> QED
    BY <1>3, <2>1 DEF KeptIsLast
<1>5. /\ DOMAIN disk' = DOMAIN disk \cup {M!Here} /\ disk'[M!Here] = c
      /\ \A n \in DOMAIN disk : n # M!Here => disk'[n] = disk[n]
  BY <1>1 DEF SessionRead
<1>6. M!Here \in DOMAIN disk => ~Scored(disk[M!Here])
  BY <1>1 DEF SessionRead
<1> HIDE DEF c
<1>7. /\ \A n \in DOMAIN disk' : n \in Nat \X M!Cell /\ disk'[n] \in Seq(Bundle)
      /\ KeptLast' /\ M!ScoredOnce
      /\ \A n \in DOMAIN disk' : n[1] \in DOMAIN plan /\ plan[n[1]] = n[2]
      /\ \A k \in 1..pos - 1 : <<k, plan[k]>> \in DOMAIN disk =>
             <<k, plan[k]>> \in DOMAIN disk' /\ disk'[<<k, plan[k]>>] = disk[<<k, plan[k]>>]
  BY <1>1, <1>3, <1>4, <1>5, <1>6, HereChanges DEF SessionRead, CellRead
<1> QED
  BY <1>5, <1>7 DEF DiskKept, c

LEMMA MatrixEnds ==
    ASSUME MatrixConstants, MatrixInv, M!Ends
    PROVE  MatrixInv' /\ M!ScoredOnce
<1>1. /\ plan # <<>> /\ busy = "session" /\ plan' = plan /\ served' = served
  BY DEF M!Ends, M!Running
<1>2. PICK r \in Reasons, said \in {{}, {served}} :
         /\ disk' = [disk EXCEPT ![M!Here][Len(M!Folder)] = [reason |-> r, echo |-> said]]
         /\ IF M!Changed(seen \cup said) \/ r \in M!Abort
            THEN busy' = "aborted" /\ pos' = pos /\ runs' = runs /\ seen' = seen
            ELSE /\ M!Onward([name |-> M!Here, at |-> Len(M!Folder), reason |-> r])
                 /\ seen' = seen \cup said
  BY DEF M!Ends
<1> DEFINE b == [reason |-> r, echo |-> said]
           c == [M!Folder EXCEPT ![Len(M!Folder)] = b]
           made == [name |-> M!Here, at |-> Len(M!Folder), reason |-> r]
<1>3. SessionRead
  BY <1>1, AtSession
<1>4. b \in Bundle /\ said \in SUBSET Echoes
  BY DEF Bundle, Ending, MatrixInv, MatrixTypes
<1>5. M!Folder \in Seq(Bundle) /\ M!Folder # <<>>
  BY <1>3 DEF SessionRead, CellRead
<1>6. /\ c # <<>> /\ Len(c) = Len(M!Folder) /\ c[Len(M!Folder)] = b
      /\ M!Said(c) \subseteq M!Said(M!Folder) \cup said
  BY <1>4, <1>5, LastChanges
<1>7. /\ DiskKept /\ M!Here \in DOMAIN disk' /\ disk'[M!Here] = c
      /\ \A k \in 1..pos - 1 : <<k, plan[k]>> \in DOMAIN disk =>
             <<k, plan[k]>> \in DOMAIN disk' /\ disk'[<<k, plan[k]>>] = disk[<<k, plan[k]>>]
  BY <1>1, <1>2, <1>4, LastHere
<1>8. EndReason(c) = r
  BY <1>6 DEF EndReason
<1>9. made \in CellRun /\ made.name = M!Here /\ made.reason = r /\ made.at = Len(M!Folder)
  BY <1>3 DEF CellRun, Ending, SessionRead, CellRead
<1> HIDE DEF c, made
<1>10. /\ seen' \in SUBSET Echoes /\ runs' \in Seq(CellRun) /\ pos' \in Nat
       /\ busy' \in {"visit", "session", "returned", "aborted"} /\ Progress'
  <2>1. CASE M!Changed(seen \cup said) \/ r \in M!Abort
    <3>1. busy' = "aborted" /\ pos' = pos /\ runs' = runs /\ seen' = seen
      BY <1>2, <2>1
    <3>2. \A x, y \in seen' : x = y
      BY <1>1, <3>1 DEF MatrixInv, Progress
    <3>3. Progress'
      BY <1>1, <1>7, <3>1, <3>2, Stays
    <3> QED
      BY <3>1, <3>3 DEF MatrixInv, MatrixTypes
  <2>2. CASE ~(M!Changed(seen \cup said) \/ r \in M!Abort)
    <3>1. M!Onward(made) /\ seen' = seen \cup said /\ ~M!Changed(seen \cup said)
      BY <1>2, <2>2 DEF made
    <3>2. seen' \in SUBSET Echoes
      BY <1>4, <3>1 DEF MatrixInv, MatrixTypes
    <3>3. \A x, y \in seen' : x = y
      BY <3>1, <3>2, Unchanging
    <3>4. M!Said(disk'[M!Here]) \subseteq seen'
      BY <1>3, <1>6, <1>7, <3>1 DEF SessionRead
    <3>5. /\ M!Outcome(made.reason) = M!Outcome(EndReason(disk'[M!Here]))
          /\ Scored(disk'[M!Here]) => made.at = Len(disk'[M!Here])
      BY <1>6, <1>7, <1>8, <1>9
    <3>6. runs' \in Seq(CellRun) /\ pos' \in Nat /\ busy' \in {"visit", "returned"} /\ Progress'
      <4>1. pos \in DOMAIN plan
        BY <1>3 DEF SessionRead, CellRead
      <4> QED
        BY <1>1, <1>7, <1>9, <3>1, <3>3, <3>4, <3>5, <4>1, GoesOn
    <3> QED
      BY <3>2, <3>6
  <2> QED
    BY <2>1, <2>2
<1>11. MatrixTypes'
  BY <1>1, <1>7, <1>10 DEF MatrixInv, MatrixTypes, DiskKept
<1>12. Placed'
  BY <1>1, <1>7, StaysPlaced DEF DiskKept
<1> QED
  BY <1>7, <1>10, <1>11, <1>12 DEF MatrixInv, DiskKept

LEMMA MatrixFails ==
    ASSUME MatrixConstants, MatrixInv, M!Fails
    PROVE  MatrixInv' /\ M!ScoredOnce
<1> DEFINE made == [name |-> M!Here, at |-> Len(M!Folder), reason |-> "unreadable"]
<1>1. /\ plan # <<>> /\ busy = "session" /\ M!Onward(made) /\ disk' = disk /\ plan' = plan
      /\ seen' = seen /\ served' = served
  BY DEF M!Fails, M!Running
<1>2. SessionRead
  BY <1>1, AtSession
<1>3. DiskKept
  BY <1>1, DiskSame
<1>4. \A x, y \in seen' : x = y
  BY <1>1 DEF MatrixInv, Progress
<1>5. made \in CellRun /\ made.name = M!Here /\ made.reason = "unreadable"
  BY <1>2 DEF CellRun, Ending, SessionRead, CellRead
<1>6. EndReason(M!Folder) = "unreadable"
  BY <1>2 DEF SessionRead, EndReason
<1> HIDE DEF made
<1>7. runs' \in Seq(CellRun) /\ pos' \in Nat /\ busy' \in {"visit", "returned"} /\ Progress'
  BY <1>1, <1>2, <1>4, <1>5, <1>6, GoesOn DEF SessionRead, CellRead
<1>8. MatrixTypes'
  BY <1>1, <1>3, <1>7 DEF MatrixInv, MatrixTypes, DiskKept
<1>9. Placed'
  BY <1>1, <1>3, StaysPlaced DEF DiskKept
<1> QED
  BY <1>3, <1>7, <1>8, <1>9 DEF MatrixInv, DiskKept

LEMMA MatrixGone ==
    ASSUME MatrixConstants, MatrixInv, M!Interrupt \/ M!Exit
    PROVE  MatrixInv' /\ M!ScoredOnce
<1>1. /\ plan # <<>> /\ plan' = <<>> /\ pos' = pos /\ busy' = busy /\ seen' = seen
      /\ runs' = runs /\ served' = served
  BY DEF M!Interrupt, M!Exit, M!Running
<1>2. DiskKept
  <2>1. CASE M!Interrupt
    <3>1. [reason |-> "stopped", echo |-> {}] \in Bundle
      BY DEF Bundle, Ending
    <3>2. /\ busy = "session"
          /\ disk' = [disk EXCEPT ![M!Here][Len(M!Folder)] = [reason |-> "stopped", echo |-> {}]]
      BY <2>1 DEF M!Interrupt
    <3> QED
      BY <1>1, <3>1, <3>2, LastHere
  <2>2. CASE M!Exit
    BY <2>2, DiskSame DEF M!Exit
  <2> QED
    BY <2>1, <2>2
<1>3. MatrixTypes'
  BY <1>1, <1>2 DEF MatrixInv, MatrixTypes, DiskKept
<1>4. Placed'
  BY <1>1, <1>2, StaysPlaced DEF DiskKept
<1>5. Progress'
  BY <1>1 DEF Progress
<1> QED
  BY <1>2, <1>3, <1>4, <1>5 DEF MatrixInv, DiskKept

LEMMA MatrixRests ==
    ASSUME MatrixInv, M!Serves \/ UNCHANGED M!vars
    PROVE  MatrixInv' /\ M!ScoredOnce
<1>1. /\ disk' = disk /\ plan' = plan /\ pos' = pos /\ busy' = busy /\ seen' = seen
      /\ runs' = runs /\ served' \in Echoes
  BY DEF M!Serves, M!vars, MatrixInv, MatrixTypes
<1>2. DiskKept
  BY <1>1, DiskSame
<1>3. MatrixTypes'
  BY <1>1, <1>2 DEF MatrixInv, MatrixTypes, DiskKept
<1>4. Placed'
  BY <1>1 DEF MatrixInv, Placed, M!Stray
<1>5. Progress'
  BY <1>1 DEF MatrixInv, Progress, CellDone, M!Here, M!Said
<1> QED
  BY <1>2, <1>3, <1>4, <1>5 DEF MatrixInv, DiskKept

LEMMA MatrixNext ==
    ASSUME MatrixConstants, MatrixInv, [M!Next]_(M!vars)
    PROVE  MatrixInv' /\ M!ScoredOnce
BY MatrixStart, MatrixSkip, MatrixReadsChanged, MatrixSession, MatrixRefused, MatrixEnds,
   MatrixFails, MatrixGone, MatrixRests DEF M!Next

LEMMA MatrixOnce ==
    ASSUME MatrixConstants, MatrixInv
    PROVE  M!OneMatrix
<1> SUFFICES ASSUME NEW m \in DOMAIN disk, NEW n \in DOMAIN disk, m[2] = n[2]
             PROVE  m = n
  BY DEF M!OneMatrix, M!Twice
<1>1. PICK p \in Plans : ~M!Stray(p)
  BY DEF MatrixInv, Placed
<1>2. m[1] \in DOMAIN p /\ n[1] \in DOMAIN p /\ p[m[1]] = m[2] /\ p[n[1]] = n[2]
  BY <1>1 DEF M!Stray
<1>3. m[1] = n[1]
  BY <1>2 DEF MatrixConstants
<1>4. m = <<m[1], m[2]>> /\ n = <<n[1], n[2]>>
  BY DEF MatrixInv, MatrixTypes
<1> QED
  BY <1>3, <1>4

(* What a report reads of a folder. *)
LEMMA ReportReads ==
    ASSUME MatrixInv, NEW n \in DOMAIN disk
    PROVE  /\ M!Picked(n) = Len(disk[n]) /\ M!EndOf(n) = EndReason(disk[n])
           /\ M!KeptOf(disk[n]) # 0 <=> Scored(disk[n])
<1>1. disk[n] \in Seq(Bundle) /\ KeptIsLast(disk[n])
  BY DEF MatrixInv, MatrixTypes, KeptLast
<1>2. Len(disk[n]) = 0 <=> disk[n] = <<>>
  BY <1>1, EmptySeq
<1>3. /\ M!KeptOf(disk[n]) = IF Scored(disk[n]) THEN Len(disk[n]) ELSE 0
      /\ M!KeptOf(disk[n]) # 0 <=> Scored(disk[n])
  BY <1>1, KeptOfLast
<1>4. M!Picked(n) = Len(disk[n])
  BY <1>3 DEF M!Picked
<1> QED
  BY <1>2, <1>3, <1>4 DEF M!EndOf, EndReason

LEMMA MatrixCounted ==
    ASSUME MatrixConstants, MatrixInv
    PROVE  M!Counted
<1> SUFFICES ASSUME plan # <<>>, busy = "returned"
             PROVE  /\ M!Discovers
                    /\ DOMAIN disk = {<<k, plan[k]>> : k \in DOMAIN plan}
                    /\ \A k \in DOMAIN plan :
                          /\ runs[k].name = <<k, plan[k]>>
                          /\ M!Outcome(runs[k].reason) = M!Outcome(M!EndOf(<<k, plan[k]>>))
                          /\ M!KeptOf(disk[<<k, plan[k]>>]) # 0 =>
                                runs[k].at = M!Picked(<<k, plan[k]>>)
  BY DEF M!Counted
<1>1. plan \in Seq(M!Cell) /\ ~M!Stray(plan)
  BY DEF MatrixInv, Placed, MatrixConstants
<1>2. \A k \in DOMAIN plan : CellDone(k)
  <2>1. DOMAIN plan = 1..pos - 1
    BY <1>1 DEF MatrixInv, Progress
  <2> QED
    BY <2>1 DEF MatrixInv, Progress
<1>3. DOMAIN disk = {<<k, plan[k]>> : k \in DOMAIN plan}
  <2>1. ASSUME NEW n \in DOMAIN disk
        PROVE  n \in {<<k, plan[k]>> : k \in DOMAIN plan}
    <3>1. n = <<n[1], n[2]>> /\ n[1] \in DOMAIN plan /\ plan[n[1]] = n[2]
      BY <1>1 DEF M!Stray, MatrixInv, MatrixTypes
    <3> QED
      BY <3>1
  <2>2. ASSUME NEW k \in DOMAIN plan
        PROVE  <<k, plan[k]>> \in DOMAIN disk
    BY <1>2 DEF CellDone
  <2> QED
    BY <2>1, <2>2
<1>4. M!Discovers
  <2> DEFINE S == UNION {M!Said(disk[n]) : n \in DOMAIN disk}
  <2>1. S \subseteq seen
    <3> SUFFICES ASSUME NEW n \in DOMAIN disk PROVE M!Said(disk[n]) \subseteq seen
      OBVIOUS
    <3>1. PICK k \in DOMAIN plan : n = <<k, plan[k]>>
      BY <1>3
    <3> QED
      BY <1>2, <3>1 DEF CellDone
  <2>2. S \in SUBSET Echoes
    BY <2>1 DEF MatrixInv, MatrixTypes
  <2>3. \A x, y \in S : x = y
    BY <2>1 DEF MatrixInv, Progress
  <2> HIDE DEF S
  <2>4. ~M!Changed(S)
    BY <2>2, <2>3, Unchanging
  <2> QED
    BY <2>4, MatrixOnce DEF M!Discovers, M!OneMatrix, S
<1>5. ASSUME NEW k \in DOMAIN plan
      PROVE  /\ runs[k].name = <<k, plan[k]>>
             /\ M!Outcome(runs[k].reason) = M!Outcome(M!EndOf(<<k, plan[k]>>))
             /\ M!KeptOf(disk[<<k, plan[k]>>]) # 0 => runs[k].at = M!Picked(<<k, plan[k]>>)
  <2>1. CellDone(k) /\ <<k, plan[k]>> \in DOMAIN disk
    BY <1>2 DEF CellDone
  <2> QED
    BY <2>1, ReportReads DEF CellDone
<1> QED
  BY <1>3, <1>4, <1>5

LEMMA MatrixClaims ==
    ASSUME MatrixConstants, MatrixInv
    PROVE  M!Claims
<1> SUFFICES ASSUME M!Gate, NEW a \in M!With, NEW c \in M!With, M!Delta(a, c),
                    NEW d \in {a, c}, NEW b \in Blocks
             PROVE  \E n \in DOMAIN disk : n[2] = <<d, b>> /\ M!KeptOf(disk[n]) # 0
  BY DEF M!Claims
<1>1. b \in M!Present(a) /\ b \in M!Present(c) /\ b \in M!Present(d)
  BY DEF M!Gate
<1>2. PICK n \in DOMAIN disk : n[2][1] = d /\ n[2][2] = b
  BY <1>1 DEF M!Present
<1>3. n[2] = <<d, b>>
  BY <1>2 DEF MatrixInv, MatrixTypes, M!Cell
<1>4. n \notin M!Infra
  BY <1>1, <1>2 DEF M!Delta
<1>5. M!Outcome(EndReason(disk[n])) # "infra_error"
  BY <1>4, ReportReads DEF M!Infra
<1>6. Scored(disk[n])
  <2> SUFFICES ASSUME ~Scored(disk[n]) PROVE M!Outcome(EndReason(disk[n])) = "infra_error"
    BY <1>5
  <2>1. CASE disk[n] = <<>>
    BY <2>1, Z3 DEF EndReason, M!Outcome
  <2>2. CASE disk[n] # <<>>
    <3>1. ~M!Kept(disk[n][Len(disk[n])])
      BY <2>2 DEF Scored
    <3> QED
      BY <2>2, <3>1, Z3 DEF M!Kept, M!Rerun, M!Outcome, EndReason
  <2> QED
    BY <2>1, <2>2
<1> QED
  BY <1>3, <1>6, ReportReads

(* The campaign (eval/matrix.py, eval/benchmark.py), for any plans, blocks  *)
(* and bundles: the folders are always one matrix's, a scored episode is    *)
(* the cell's last, a finished matrix counted what the report will, and a   *)
(* report past the gate compares only where every cell of both has one.     *)
THEOREM MatrixResumes ==
    ASSUME MatrixConstants
    PROVE  M!Spec => [](M!Counted /\ M!Claims /\ M!OneMatrix) /\ [][M!ScoredOnce]_(M!vars)
<1>1. M!Init => MatrixInv
  BY MatrixInit
<1>2. MatrixInv /\ [M!Next]_(M!vars) => MatrixInv' /\ M!ScoredOnce
  BY MatrixNext
<1>3. MatrixInv => M!Counted /\ M!Claims /\ M!OneMatrix
  BY MatrixCounted, MatrixClaims, MatrixOnce
<1> QED
  BY <1>1, <1>2, <1>3, PTL DEF M!Spec

-----------------------------------------------------------------------------
(* The arm. *)

(* A number of calls a process may make; a row is never None.              *)
ArmRow == [key : Items, status : A!Final \cup {"capped", "unavailable"}]
ArmConstants == Cap \in Nat /\ None \notin ArmRow

ArmTypes ==
    /\ file \in Seq(ArmRow \cup {None}) /\ open \in BOOLEAN
    /\ up \in {"off", "run", "abort", "returned"}
    /\ todo \in SUBSET Items /\ DOMAIN in \in SUBSET Items /\ asked \in SUBSET (DOMAIN in)
    /\ calls \in Nat /\ calls <= Cap

(* An item's final row is its only one, and its last.                      *)
LastFinal ==
    \A k \in Items : \A i \in A!FinalRows(k) : \A j \in A!Rows :
        file[j].key = k => j <= i

(* A process runs on whole lines, and has yet to do just what is not done. *)
Working ==
    /\ up # "off" => ~open
    /\ up # "off" => \A k \in A!Done : k \notin todo \cup DOMAIN in
    /\ up = "off" => todo = {} /\ DOMAIN in = {}
    /\ todo \cap DOMAIN in = {}
    /\ up \in {"run", "returned"} => Items = A!Done \cup todo \cup DOMAIN in
    /\ up = "returned" => todo = {} /\ DOMAIN in = {}

ArmInv == ArmTypes /\ LastFinal /\ Working

(* The lines of a row more. *)
LEMMA RowsGrow ==
    ASSUME ArmConstants, ArmTypes, NEW row \in ArmRow \cup {None}, file' = Append(file, row)
    PROVE  LET n == Len(file) + 1
           IN  /\ file' \in Seq(ArmRow \cup {None}) /\ n \in Nat /\ \A j \in A!Rows : j < n /\ j \in Nat
               /\ A!Rows' = IF row = None THEN A!Rows ELSE A!Rows \cup {n}
               /\ \A j \in A!Rows : file'[j] = file[j]
               /\ file'[n] = row
<1> DEFINE n == Len(file) + 1
<1>1. /\ file \in Seq(ArmRow \cup {None}) /\ Len(file) \in Nat /\ DOMAIN file = 1..Len(file)
  BY DEF ArmTypes
<1>2. /\ file' \in Seq(ArmRow \cup {None}) /\ n \in Nat /\ DOMAIN file' = 1..n
      /\ file'[n] = row /\ \A j \in DOMAIN file : file'[j] = file[j]
  BY <1>1
<1>3. DOMAIN file' = DOMAIN file \cup {n} /\ n \notin DOMAIN file
  BY <1>1, <1>2
<1>4. A!Rows \subseteq DOMAIN file /\ \A j \in A!Rows : j < n /\ j \in Nat
  BY <1>1 DEF A!Rows
<1> HIDE DEF n
<1>5. A!Rows' = IF row = None THEN A!Rows ELSE A!Rows \cup {n}
  BY <1>2, <1>3 DEF A!Rows
<1> QED
  BY <1>2, <1>4, <1>5 DEF n

(* A final row of an item that had none is its last; another changes none. *)
LEMMA RowAdded ==
    ASSUME ArmConstants, ArmTypes, LastFinal, NEW row \in ArmRow, file' = Append(file, row),
           row.key \notin A!Done
    PROVE  /\ file' \in Seq(ArmRow \cup {None}) /\ LastFinal'
           /\ A!Done' = A!Done \cup (IF row.status \in A!Final THEN {row.key} ELSE {})
<1> DEFINE n == Len(file) + 1
<1>1. row # None /\ row.key \in Items
  BY DEF ArmConstants, ArmRow
<1>2. /\ file' \in Seq(ArmRow \cup {None}) /\ n \in Nat /\ \A j \in A!Rows : j < n /\ j \in Nat
      /\ A!Rows' = A!Rows \cup {n} /\ file'[n] = row
      /\ \A j \in A!Rows : file'[j] = file[j]
  BY <1>1, RowsGrow
<1> HIDE DEF n
<1>3. \A k \in Items : A!FinalRows(k)' = A!FinalRows(k) \cup
            (IF row.key = k /\ row.status \in A!Final THEN {n} ELSE {})
  BY <1>2 DEF A!FinalRows
<1>4. A!Done' = A!Done \cup (IF row.status \in A!Final THEN {row.key} ELSE {})
  BY <1>1, <1>3 DEF A!Done
<1>5. LastFinal'
  <2> SUFFICES ASSUME NEW k \in Items, NEW i \in A!FinalRows(k)', NEW j \in A!Rows',
                      file'[j].key = k
               PROVE  j <= i
    BY DEF LastFinal
  <2>1. A!FinalRows(k) \subseteq A!Rows
    BY DEF A!FinalRows
  <2>2. CASE row.key = k
    <3>1. A!FinalRows(k) = {}
      BY <2>2 DEF A!Done
    <3> QED
      BY <1>2, <1>3, <3>1
  <2>3. CASE row.key # k
    <3>1. i \in A!FinalRows(k) /\ j # n /\ j \in A!Rows /\ file[j].key = k
      BY <1>2, <1>3, <2>3
    <3> QED
      BY <3>1 DEF LastFinal
  <2> QED
    BY <2>2, <2>3
<1> QED
  BY <1>2, <1>4, <1>5

LEMMA LineCut ==
    ASSUME ArmConstants, ArmTypes, LastFinal, file' = Append(file, None)
    PROVE  file' \in Seq(ArmRow \cup {None}) /\ LastFinal' /\ A!Done' = A!Done
<1>1. /\ file' \in Seq(ArmRow \cup {None}) /\ A!Rows' = A!Rows
      /\ \A j \in A!Rows : file'[j] = file[j]
  BY RowsGrow
<1>2. \A k \in Items : A!FinalRows(k)' = A!FinalRows(k)
  BY <1>1 DEF A!FinalRows
<1>3. A!Done' = A!Done
  BY <1>2 DEF A!Done
<1>4. LastFinal'
  BY <1>1, <1>2 DEF LastFinal
<1> QED
  BY <1>1, <1>3, <1>4

LEMMA FinalKept ==
    ASSUME A!Done \subseteq A!Done'
    PROVE  A!RowsStay
BY DEF A!RowsStay

LEMMA RowStep ==
    ASSUME ArmConstants, ArmInv, A!Live, NEW i \in DOMAIN in,
           NEW status \in A!Final \cup {"capped", "unavailable"},
           A!Row(i, status), todo' = todo, calls' = calls
    PROVE  ArmInv' /\ A!RowsStay
<1> DEFINE row == [key |-> i, status |-> status]
<1>1. /\ ArmTypes /\ LastFinal /\ Working /\ up \in {"run", "abort"} /\ ~open
      /\ i \in Items /\ i \notin A!Done /\ i \notin todo
  BY DEF ArmInv, Working, A!Live, ArmTypes
<1>2. /\ file' = A!Written(row) /\ open' = FALSE /\ in' = A!Drop(i) /\ asked' = asked \ {i}
      /\ up' = IF status \in {"capped", "unavailable"} THEN "abort"
               ELSE IF up = "run" /\ todo = {} /\ DOMAIN in = {i} THEN "returned" ELSE up
  BY DEF A!Row
<1>3. file' = Append(file, row)
  BY <1>1, <1>2 DEF A!Written
<1>4. row \in ArmRow /\ row.key = i /\ row.status = status
  BY <1>1 DEF ArmRow, A!Final
<1> HIDE DEF row
<1>5. /\ file' \in Seq(ArmRow \cup {None}) /\ LastFinal'
      /\ A!Done' = A!Done \cup (IF status \in A!Final THEN {i} ELSE {})
  BY <1>1, <1>3, <1>4, RowAdded
<1>6. DOMAIN in' = DOMAIN in \ {i}
  BY <1>2 DEF A!Drop
<1>7. CASE status \in {"capped", "unavailable"}
  <2>1. up' = "abort"
    BY <1>2, <1>7
  <2>2. ArmTypes'
    BY <1>1, <1>2, <1>5, <1>6, <2>1 DEF ArmTypes
  <2>3. A!Done' = A!Done
    BY <1>5, <1>7 DEF A!Final
  <2>4. Working'
    BY <1>1, <1>2, <1>6, <2>1, <2>3 DEF Working
  <2> QED
    BY <1>5, <2>2, <2>3, <2>4, FinalKept DEF ArmInv
<1>8. CASE status \in A!Final
  <2>1. up' = IF up = "run" /\ todo = {} /\ DOMAIN in = {i} THEN "returned" ELSE up
    BY <1>2, <1>8 DEF A!Final
  <2>2. ArmTypes'
    <3>1. up' \in {"off", "run", "abort", "returned"}
      BY <1>1, <2>1
    <3> QED
      BY <1>1, <1>2, <1>5, <1>6, <3>1 DEF ArmTypes
  <2>3. A!Done' = A!Done \cup {i}
    BY <1>5, <1>8
  <2>4. Working'
    <3>1. /\ up' # "off" => ~open'
          /\ up' # "off" => \A k \in A!Done' : k \notin todo' \cup DOMAIN in'
          /\ todo' \cap DOMAIN in' = {}
          /\ up' # "off"
      BY <1>1, <1>2, <1>6, <2>1, <2>3 DEF Working
    <3>2. up' \in {"run", "returned"} => Items = A!Done' \cup todo' \cup DOMAIN in'
      BY <1>1, <1>6, <2>1, <2>3 DEF Working
    <3>3. up' = "returned" => todo' = {} /\ DOMAIN in' = {}
      BY <1>1, <1>6, <2>1
    <3> QED
      BY <3>1, <3>2, <3>3 DEF Working
  <2> QED
    BY <1>5, <2>2, <2>3, <2>4, FinalKept DEF ArmInv
<1> QED
  BY <1>7, <1>8

(* A step that writes no row. *)
LEMMA SameFile ==
    ASSUME file' = file
    PROVE  A!Rows' = A!Rows /\ A!Done' = A!Done /\ A!RowsStay /\ (LastFinal => LastFinal')
<1>1. A!Rows' = A!Rows
  BY DEF A!Rows
<1>2. \A k \in Items : A!FinalRows(k)' = A!FinalRows(k)
  BY <1>1 DEF A!FinalRows
<1>3. A!Done' = A!Done
  BY <1>2 DEF A!Done
<1>4. LastFinal => LastFinal'
  BY <1>1, <1>2 DEF LastFinal
<1> QED
  BY <1>1, <1>3, <1>4, FinalKept

LEMMA ArmInit ==
    ASSUME ArmConstants, A!Init
    PROVE  ArmInv
<1>1. /\ file = <<>> /\ open = FALSE /\ up = "off" /\ todo = {} /\ in = <<>> /\ calls = 0
      /\ asked = {}
  BY DEF A!Init
<1>2. DOMAIN in = {}
  BY <1>1
<1>3. ArmTypes
  <2>1. file \in Seq(ArmRow \cup {None})
    BY <1>1
  <2>2. calls \in Nat /\ calls <= Cap
    BY <1>1 DEF ArmConstants
  <2>3. open \in BOOLEAN
    BY <1>1
  <2> QED
    BY <1>1, <1>2, <2>1, <2>2, <2>3 DEF ArmTypes
<1>4. A!Rows = {}
  BY <1>1 DEF A!Rows
<1>5. LastFinal
  BY <1>4 DEF LastFinal
<1>6. Working
  BY <1>1, <1>2 DEF Working
<1> QED
  BY <1>3, <1>5, <1>6 DEF ArmInv

LEMMA ArmStart ==
    ASSUME ArmConstants, ArmInv, A!Start
    PROVE  ArmInv' /\ A!RowsStay
<1>1. /\ todo' = Items \ A!Done /\ open' = FALSE /\ in' = <<>> /\ calls' = 0 /\ asked' = {}
      /\ up' = IF todo' = {} THEN "returned" ELSE "run"
      /\ file' = file
  BY DEF A!Start, A!Ended
<1>2. DOMAIN in' = {}
  BY <1>1
<1>3. A!Done' = A!Done /\ LastFinal' /\ A!RowsStay /\ A!Done \subseteq Items
  BY <1>1, SameFile DEF ArmInv, A!Done
<1>4. ArmTypes'
  <2>1. up' \in {"off", "run", "abort", "returned"} /\ open' \in BOOLEAN
    BY <1>1
  <2>2. calls' \in Nat /\ calls' <= Cap
    BY <1>1 DEF ArmConstants
  <2>3. file' \in Seq(ArmRow \cup {None})
    BY <1>1 DEF ArmInv, ArmTypes
  <2> QED
    BY <1>1, <1>2, <2>1, <2>2, <2>3 DEF ArmTypes
<1>5. Working'
  BY <1>1, <1>2, <1>3 DEF Working
<1> QED
  BY <1>3, <1>4, <1>5 DEF ArmInv

LEMMA ArmBegin ==
    ASSUME ArmInv, NEW i \in Items, A!Begin(i)
    PROVE  ArmInv' /\ A!RowsStay
<1>1. /\ i \in todo /\ todo' = todo \ {i} /\ file' = file /\ open' = open /\ up' = up
      /\ calls' = calls /\ asked' = asked /\ DOMAIN in' = DOMAIN in \cup {i}
  BY DEF A!Begin
<1>2. A!Done' = A!Done /\ LastFinal' /\ A!RowsStay
  BY <1>1, SameFile DEF ArmInv
<1>3. ArmTypes'
  BY <1>1 DEF ArmInv, ArmTypes
<1>4. Working'
  BY <1>1, <1>2 DEF ArmInv, Working
<1> QED
  BY <1>2, <1>3, <1>4 DEF ArmInv

LEMMA ArmAttempt ==
    ASSUME ArmConstants, ArmInv, NEW i \in Items, A!Attempt(i)
    PROVE  ArmInv' /\ A!RowsStay
<1>1. A!Live /\ i \in DOMAIN in /\ todo' = todo
  BY DEF A!Attempt
<1>2. CASE calls >= Cap
  BY <1>1, <1>2, RowStep DEF A!Attempt
<1>3. CASE ~(calls >= Cap)
  <2>1. /\ calls' = calls + 1 /\ in' = [in EXCEPT ![i] = @ + 1]
        /\ asked' = asked \cup {i} /\ file' = file /\ open' = open /\ up' = up
    BY <1>3 DEF A!Attempt
  <2>2. DOMAIN in' = DOMAIN in
    BY <2>1
  <2>3. A!Done' = A!Done /\ LastFinal' /\ A!RowsStay
    BY <2>1, SameFile DEF ArmInv
  <2>4. ArmTypes'
    BY <1>1, <1>3, <2>1, <2>2 DEF ArmInv, ArmTypes, ArmConstants
  <2>5. Working'
    BY <1>1, <2>1, <2>2, <2>3 DEF ArmInv, Working
  <2> QED
    BY <2>3, <2>4, <2>5 DEF ArmInv
<1> QED
  BY <1>2, <1>3

LEMMA ArmInvalid ==
    ASSUME ArmConstants, ArmInv, NEW i \in Items, A!Invalid(i)
    PROVE  ArmInv' /\ A!RowsStay
<1>1. A!Live /\ i \in asked /\ i \in DOMAIN in /\ todo' = todo /\ calls' = calls
  BY DEF A!Invalid, ArmInv, ArmTypes
<1>2. CASE in[i] < Tries
  <2>1. asked' = asked \ {i} /\ file' = file /\ open' = open /\ up' = up /\ in' = in
    BY <1>2 DEF A!Invalid
  <2>2. A!Done' = A!Done /\ LastFinal' /\ A!RowsStay
    BY <2>1, SameFile DEF ArmInv
  <2>3. ArmTypes'
    BY <1>1, <2>1 DEF ArmInv, ArmTypes
  <2>4. Working'
    BY <1>1, <2>1, <2>2 DEF ArmInv, Working
  <2> QED
    BY <2>2, <2>3, <2>4 DEF ArmInv
<1>3. CASE ~(in[i] < Tries)
  <2>1. A!Row(i, "exhausted")
    BY <1>3 DEF A!Invalid
  <2>2. "exhausted" \in A!Final \cup {"capped", "unavailable"}
    BY DEF A!Final
  <2> QED
    BY <1>1, <2>1, <2>2, RowStep
<1> QED
  BY <1>2, <1>3

(* The rows of Unreplayable, Valid, Late and Dead. *)
LEMMA ArmRows ==
    ASSUME ArmConstants, ArmInv, NEW i \in Items,
           \/ A!Unreplayable(i) \/ A!Valid(i) \/ A!Late(i) \/ A!Dead(i)
    PROVE  ArmInv' /\ A!RowsStay
<1>1. A!Live /\ i \in DOMAIN in /\ todo' = todo /\ calls' = calls
  BY DEF A!Unreplayable, A!Valid, A!Late, A!Dead, ArmInv, ArmTypes
<1>2. PICK status \in {"not_replayable", "ok", "timeout", "unavailable"} : A!Row(i, status)
  BY DEF A!Unreplayable, A!Valid, A!Late, A!Dead
<1>3. status \in A!Final \cup {"capped", "unavailable"}
  BY DEF A!Final
<1> QED
  BY <1>1, <1>2, <1>3, RowStep

(* A process that is gone: aborted or done. *)
LEMMA ArmOff ==
    ASSUME ArmInv, A!Aborted \/ A!Exit
    PROVE  ArmInv' /\ A!RowsStay
<1>1. file' = file /\ open' = open /\ calls' = calls /\ up' = "off"
  BY DEF A!Aborted, A!Exit
<1>2. todo' = {} /\ DOMAIN in' = {} /\ asked' = {}
  BY DEF A!Aborted, A!Exit, ArmInv, Working, ArmTypes
<1>3. A!Done' = A!Done /\ LastFinal' /\ A!RowsStay
  BY <1>1, SameFile DEF ArmInv
<1>4. ArmTypes'
  BY <1>1, <1>2 DEF ArmInv, ArmTypes
<1>5. Working'
  BY <1>1, <1>2, <1>3 DEF Working
<1> QED
  BY <1>3, <1>4, <1>5 DEF ArmInv

(* A kill: a row of an item that had none, a line cut, or no line more.    *)
LEMMA ArmKill ==
    ASSUME ArmConstants, ArmInv, A!Kill
    PROVE  ArmInv' /\ A!RowsStay
<1>1. /\ up' = "off" /\ todo' = {} /\ in' = <<>> /\ asked' = {} /\ calls' = calls
      /\ A!Live /\ DOMAIN in' = {}
  BY DEF A!Kill
<1>2. ArmTypes /\ LastFinal /\ Working /\ ~open
  BY <1>1 DEF ArmInv, Working, A!Live
<1>3. /\ file' \in Seq(ArmRow \cup {None}) /\ LastFinal' /\ A!Done \subseteq A!Done'
      /\ open' \in BOOLEAN
  <2>1. CASE file' = file /\ open' = open
    BY <1>2, <2>1, SameFile DEF ArmTypes
  <2>2. ASSUME NEW i \in asked, open' = TRUE,
               file' \in {A!Written(r) : r \in {None, [key |-> i, status |-> "ok"]}}
        PROVE  /\ file' \in Seq(ArmRow \cup {None}) /\ LastFinal' /\ A!Done \subseteq A!Done'
               /\ open' \in BOOLEAN
    <3> DEFINE row == [key |-> i, status |-> "ok"]
    <3>1. file' = Append(file, None) \/ file' = Append(file, row)
      BY <1>2, <2>2 DEF A!Written
    <3>2. i \in Items /\ i \notin A!Done
      BY <1>1, <1>2 DEF ArmTypes, Working, A!Live
    <3>3. row \in ArmRow /\ row.key = i
      BY <3>2 DEF ArmRow, A!Final
    <3> HIDE DEF row
    <3>4. CASE file' = Append(file, None)
      BY <1>2, <2>2, <3>4, LineCut
    <3>5. CASE file' = Append(file, row)
      BY <1>2, <2>2, <3>2, <3>3, <3>5, RowAdded
    <3> QED
      BY <3>1, <3>4, <3>5
  <2> QED
    BY <2>1, <2>2 DEF A!Kill
<1>4. ArmTypes'
  BY <1>1, <1>2, <1>3 DEF ArmTypes
<1>5. Working'
  BY <1>1 DEF Working
<1> QED
  BY <1>3, <1>4, <1>5, FinalKept DEF ArmInv

LEMMA ArmStep ==
    ASSUME ArmConstants, ArmInv, [A!Next]_(A!vars)
    PROVE  ArmInv' /\ A!RowsStay
<1>1. CASE A!Start
  BY <1>1, ArmStart
<1>2. CASE A!Aborted \/ A!Exit
  BY <1>2, ArmOff
<1>3. CASE A!Kill
  BY <1>3, ArmKill
<1>4. ASSUME NEW i \in Items, A!Begin(i)
      PROVE  ArmInv' /\ A!RowsStay
  BY <1>4, ArmBegin
<1>5. ASSUME NEW i \in Items, A!Attempt(i)
      PROVE  ArmInv' /\ A!RowsStay
  BY <1>5, ArmAttempt
<1>6. ASSUME NEW i \in Items, A!Invalid(i)
      PROVE  ArmInv' /\ A!RowsStay
  BY <1>6, ArmInvalid
<1>7. ASSUME NEW i \in Items, A!Unreplayable(i) \/ A!Valid(i) \/ A!Late(i) \/ A!Dead(i)
      PROVE  ArmInv' /\ A!RowsStay
  BY <1>7, ArmRows
<1>8. CASE UNCHANGED A!vars
  <2>1. /\ file' = file /\ open' = open /\ up' = up /\ todo' = todo /\ in' = in
        /\ calls' = calls /\ asked' = asked
    BY <1>8 DEF A!vars
  <2>2. A!Done' = A!Done /\ LastFinal' /\ A!RowsStay
    BY <2>1, SameFile DEF ArmInv
  <2>3. ArmTypes' /\ Working'
    BY <2>1, <2>2 DEF ArmInv, ArmTypes, Working
  <2> QED
    BY <2>2, <2>3 DEF ArmInv
<1> QED
  BY <1>1, <1>2, <1>3, <1>4, <1>5, <1>6, <1>7, <1>8 DEF A!Next

LEMMA RowCardinality == ASSUME NEW S PROVE A!Cardinality(S) = Cardinality(S)
  BY DEF A!Cardinality, Cardinality

LEMMA OneRow == ASSUME ArmConstants, ArmInv PROVE A!OneRowEach
<1>1. \A k \in Items : Cardinality(A!FinalRows(k)) <= 1
  <2> SUFFICES ASSUME NEW k \in Items PROVE Cardinality(A!FinalRows(k)) <= 1
    OBVIOUS
  <2> DEFINE F == A!FinalRows(k)
  <2> SUFFICES Cardinality(F) <= 1
    OBVIOUS
  <2>1. F \subseteq Nat
    BY DEF A!FinalRows, A!Rows, ArmInv, ArmTypes
  <2>2. \A i, j \in F : j <= i
    BY DEF ArmInv, LastFinal, A!FinalRows
  <2> HIDE DEF F
  <2>3. \A i, j \in F : i = j
    BY <2>1, <2>2
  <2>4. CASE F = {}
    <3>1. Cardinality({}) = 0
      BY FS_EmptySet
    <3> QED
      BY <2>4, <3>1
  <2>5. CASE F # {}
    <3>1. PICK i \in F : F = {i}
      BY <2>3, <2>5
    <3>2. Cardinality({i}) = 1
      BY FS_Singleton
    <3> QED
      BY <3>1, <3>2
  <2> QED
    BY <2>4, <2>5
<1>2. up # "off" => \A k \in A!Done : k \notin todo \cup DOMAIN in
  BY DEF ArmInv, Working
<1>3. up = "returned" => A!Done = Items
  BY DEF ArmInv, Working
<1>4. ASSUME up = "returned"
      PROVE  A!Loads
  <2> SUFFICES ASSUME NEW k \in Items PROVE A!LastOf(k).status \in A!Final
    BY <1>1, RowCardinality DEF A!Loads
  <2>1. PICK i \in A!FinalRows(k) : TRUE
    BY <1>3, <1>4 DEF A!Done
  <2> DEFINE Last(j) == file[j].key = k /\ \A m \in A!Rows : file[m].key = k => m <= j
  <2>2. i \in A!Rows /\ Last(i) /\ file[i].status \in A!Final
    BY <2>1 DEF ArmInv, LastFinal, A!FinalRows
  <2>3. \A j \in A!Rows : Last(j) => j = i
    BY <2>2 DEF A!Rows, ArmInv, ArmTypes
  <2>4. (CHOOSE j \in A!Rows : Last(j)) = i
    <3> HIDE DEF Last
    <3> QED
      BY <2>2, <2>3
  <2>5. A!LastOf(k) = file[i]
    BY <2>4 DEF A!LastOf
  <2> QED
    BY <2>2, <2>5
<1>5. calls <= Cap
  BY DEF ArmInv, ArmTypes
<1> QED
  BY <1>1, <1>2, <1>3, <1>4, <1>5, RowCardinality DEF A!OneRowEach

(* However an arm is killed, aborted and resumed, for any items, tries and *)
(* cap: an item has one final row at most, is not run again once it has it, *)
(* and loses it by no write; an arm that returned has every item's, the     *)
(* last of its rows; a process makes no more calls than it may              *)
(* (scripts/mod/world_select_run.py).                                      *)
THEOREM ArmRowsExact ==
    ASSUME ArmConstants
    PROVE  A!Spec => []A!OneRowEach /\ [][A!RowsStay]_(A!vars)
<1>1. A!Init => ArmInv
  BY ArmInit
<1>2. ArmInv /\ [A!Next]_(A!vars) => ArmInv' /\ A!RowsStay
  BY ArmStep
<1>3. ArmInv => A!OneRowEach
  BY OneRow
<1>4. A!Spec => []ArmInv
  BY <1>1, <1>2, PTL DEF A!Spec
<1> QED
  BY <1>2, <1>3, <1>4, PTL DEF A!Spec

-----------------------------------------------------------------------------
(* The streams. *)

StreamConstants == Length \in Nat

(* The visible events before e, of those that h does not hide. *)
CountIn(h, e) == Cardinality({x \in 0..e - 1 : x \notin h})
Before(e) == CountIn(hidden, e)
Start == IF rep THEN conn.skip ELSE conn.from

Frames == [event : T!Events, seq : Nat]
Conns == [open : BOOLEAN, read : Nat, next : Nat, upto : Nat, from : Nat, skip : Nat,
          seq : Nat]

StreamTypes ==
    /\ rep \in BOOLEAN /\ hidden \in SUBSET T!Events /\ (rep \/ hidden = {})
    /\ written \in Nat /\ written <= 2 * Length /\ code \in Int
    /\ got \in Seq(T!Events) /\ wire \in Seq(Frames) /\ conn \in Conns

(* What was taken and what is on the way are the visible events in order,  *)
(* each at the place its frame is numbered by.                             *)
Taken == \A i \in DOMAIN got : got[i] \notin hidden /\ Before(got[i]) = i - 1
OnWire ==
    \A i \in DOMAIN wire :
        /\ wire[i].event \notin hidden
        /\ wire[i].seq = Len(got) + i - 1 /\ Before(wire[i].event) = wire[i].seq

(* A connection has sent what is visible of the lines behind it, from where *)
(* the browser was when it connected.                                      *)
Sent ==
    conn.open =>
        /\ conn.read <= written /\ conn.next <= conn.upto /\ conn.upto = conn.read \div 2
        /\ IF rep THEN conn.from = 0 /\ conn.seq = Before(conn.next) ELSE conn.skip = 0
        /\ Start <= Before(Length)
        /\ Len(got) + Len(wire) =
              IF Before(conn.next) < Start THEN Start ELSE Before(conn.next)

Proper == code # -1 /\ (code = 1000 => ~conn.open /\ Len(got) + Len(wire) = Before(Length))

StreamInv == StreamTypes /\ Taken /\ OnWire /\ Sent /\ Proper

LEMMA CountFinite ==
    ASSUME NEW h, NEW e \in Nat
    PROVE  CountIn(h, e) \in Nat /\ IsFiniteSet({x \in 0..e - 1 : x \notin h})
<1>1. IsFiniteSet(0..e - 1)
  BY FS_Interval
<1>2. IsFiniteSet({x \in 0..e - 1 : x \notin h})
  BY <1>1, FS_Subset
<1> QED
  BY <1>2, FS_CardinalityType DEF CountIn

LEMMA CountNext ==
    ASSUME NEW h, NEW e \in Nat
    PROVE  CountIn(h, e + 1) = IF e \in h THEN CountIn(h, e) ELSE CountIn(h, e) + 1
<1> DEFINE S == {x \in 0..e - 1 : x \notin h}
<1>1. IsFiniteSet(S) /\ e \notin S
  <2>1. e \notin 0..e - 1
    OBVIOUS
  <2> QED
    BY <2>1, CountFinite
<1>2. {x \in 0..(e + 1) - 1 : x \notin h} = IF e \in h THEN S ELSE S \cup {e}
  OBVIOUS
<1> QED
  BY <1>1, <1>2, FS_AddElement DEF CountIn

LEMMA CountGrows ==
    ASSUME NEW h, NEW d \in Nat, NEW e \in Nat, d <= e
    PROVE  CountIn(h, d) <= CountIn(h, e)
<1>1. {x \in 0..d - 1 : x \notin h} \in SUBSET {x \in 0..e - 1 : x \notin h}
  OBVIOUS
<1> QED
  BY <1>1, CountFinite, FS_Subset DEF CountIn

LEMMA CountAll == ASSUME NEW e \in Nat PROVE CountIn({}, e) = e
<1>1. {x \in 0..e - 1 : x \notin {}} = 0..e - 1
  OBVIOUS
<1>2. Cardinality(0..e - 1) = IF 0 > e - 1 THEN 0 ELSE (e - 1) - 0 + 1
  BY FS_Interval
<1>3. CountIn({}, e) = Cardinality(0..e - 1)
  BY <1>1, Zenon DEF CountIn
<1> HIDE DEF CountIn
<1> QED
  BY <1>2, <1>3

(* The visible events are told apart, and ordered, by how many are before. *)
LEMMA CountOrders ==
    ASSUME NEW h, NEW d \in Nat, NEW e \in Nat, d \notin h
    PROVE  /\ d < e => CountIn(h, d) < CountIn(h, e)
           /\ e \notin h /\ CountIn(h, d) = CountIn(h, e) => d = e
<1>1. \A x, y \in Nat : x < y /\ x \notin h => CountIn(h, x) < CountIn(h, y)
  <2> SUFFICES ASSUME NEW x \in Nat, NEW y \in Nat, x < y, x \notin h
               PROVE  CountIn(h, x) < CountIn(h, y)
    OBVIOUS
  <2>1. CountIn(h, x + 1) = CountIn(h, x) + 1 /\ CountIn(h, x + 1) <= CountIn(h, y)
    BY CountNext, CountGrows
  <2>2. CountIn(h, x) \in Nat /\ CountIn(h, x + 1) \in Nat /\ CountIn(h, y) \in Nat
    <3>1. \A z \in Nat : CountIn(h, z) \in Nat
      BY CountFinite
    <3> QED
      BY <3>1
  <2> QED
    BY <2>1, <2>2
<1>2. CountIn(h, d) \in Nat /\ CountIn(h, e) \in Nat
  BY CountFinite
<1> QED
  BY <1>1, <1>2

LEMMA StreamInit ==
    ASSUME StreamConstants, T!Init
    PROVE  StreamInv
<1>1. StreamTypes
  <2>1. rep \in BOOLEAN /\ hidden \in SUBSET T!Events /\ (rep \/ hidden = {})
    BY DEF T!Init
  <2> QED
    BY <2>1 DEF T!Init, T!NoConn, Conns, StreamTypes, StreamConstants
<1> QED
  BY <1>1 DEF T!Init, T!NoConn, StreamInv, Taken, OnWire, Sent, Proper

(* What was taken does not exceed what there is. *)
LEMMA TookNoMore ==
    ASSUME StreamConstants, StreamTypes, Taken
    PROVE  Len(got) \in Nat /\ Len(got) <= Before(Length) /\ Before(Length) \in Nat
<1> USE DEF StreamConstants
<1>1. Len(got) \in Nat /\ Before(Length) \in Nat
  <2>1. Len(got) \in Nat
    BY DEF StreamTypes
  <2>2. CountIn(hidden, Length) \in Nat
    BY CountFinite
  <2> QED
    BY <2>1, <2>2 DEF Before
<1>2. CASE Len(got) = 0
  BY <1>1, <1>2
<1>3. CASE Len(got) # 0
  <2> DEFINE e == got[Len(got)]
  <2>1. e \in T!Events /\ Len(got) \in DOMAIN got
    BY <1>1, <1>3 DEF StreamTypes
  <2>2. e \in Nat /\ e < Length /\ e \notin hidden /\ Before(e) = Len(got) - 1
    BY <2>1 DEF Taken, T!Events, T!Last
  <2>3. CountIn(hidden, e) < CountIn(hidden, Length)
    BY <2>2, CountOrders
  <2> QED
    BY <1>1, <2>2, <2>3 DEF Before
<1> QED
  BY <1>2, <1>3

(* A step that leaves the browser and its connection alone. *)
LEMMA StreamAside ==
    ASSUME StreamConstants, StreamInv, StreamTypes',
           UNCHANGED <<rep, hidden, conn, wire, code, got>>, written <= written'
    PROVE  StreamInv'
<1>1. Taken' /\ OnWire' /\ Proper'
  BY DEF StreamInv, Taken, OnWire, Proper, Before
<1>2. Sent'
  <2> SUFFICES ASSUME conn.open PROVE conn.read <= written'
    BY DEF StreamInv, Sent, Before, Start
  <2>1. conn.read <= written /\ conn.read \in Nat /\ written \in Nat /\ written' \in Nat
    BY DEF StreamInv, Sent, StreamTypes, Conns
  <2> QED
    BY <2>1
<1> QED
  BY <1>1, <1>2 DEF StreamInv

LEMMA ConnectsKeep ==
    ASSUME StreamConstants, StreamInv, T!Connects
    PROVE  StreamInv'
<1> USE DEF T!Connects, T!MayConnect
<1> DEFINE k == Len(got)
<1>1. k \in Nat /\ k <= Before(Length) /\ Before(Length) \in Nat
  BY TookNoMore DEF StreamInv
<1>2. /\ conn' \in Conns /\ conn'.open /\ conn'.read = 0 /\ conn'.next = 0 /\ conn'.upto = 0
      /\ conn'.seq = 0 /\ conn'.from = IF rep THEN 0 ELSE k
      /\ conn'.skip = IF rep THEN k ELSE 0
  <2>1. CASE rep
    BY <1>1, <2>1 DEF T!NoConn, Conns
  <2>2. CASE ~rep
    BY <1>1, <2>2 DEF T!NoConn, Conns
  <2> QED
    BY <2>1, <2>2
<1>3. StreamTypes' /\ written \in Nat /\ wire = <<>> /\ wire' = <<>>
  BY <1>2 DEF StreamInv, StreamTypes
<1>4. Taken' /\ OnWire' /\ Proper'
  BY <1>3 DEF StreamInv, Taken, OnWire, Proper, Before
<1>5. Before(0) = 0
  <2>1. {x \in 0..0 - 1 : x \notin hidden} = {}
    OBVIOUS
  <2> QED
    BY <2>1, FS_EmptySet DEF Before, CountIn
<1>6. Sent'
  <2>1. 0 = 0 \div 2 /\ Len(wire') = 0 /\ Start' = k
    BY <1>2, <1>3 DEF Start
  <2>2. (Before(Length))' = Before(Length) /\ (Before(conn.next))' = 0
    BY <1>2, <1>5 DEF Before
  <2>3. IF rep THEN conn'.from = 0 /\ conn'.seq = (Before(conn.next))' ELSE conn'.skip = 0
    BY <1>2, <2>2
  <2>4. Len(got) + Len(wire') = IF 0 < k THEN k ELSE 0
    BY <1>1, <2>1
  <2> QED
    BY <1>1, <1>2, <1>3, <2>1, <2>2, <2>3, <2>4 DEF Sent
<1> QED
  BY <1>3, <1>4, <1>6 DEF StreamInv

LEMMA ReadsKeep ==
    ASSUME StreamConstants, StreamInv, T!Reads
    PROVE  StreamInv'
<1>1. PICK n \in 0..Chunk :
        LET to == conn.read + n
        IN  /\ to <= written
            /\ n = 0 => moved
            /\ ~moved => n = Chunk \/ to = written
            /\ conn' = [conn EXCEPT !.read = to, !.next = T!Resumes(conn.read),
                                    !.upto = to \div 2, !.open = n # 0]
            /\ code' = IF n = 0 THEN 1011 ELSE 0
  BY DEF T!Reads
<1>0. T!AllSent /\ UNCHANGED <<rep, hidden, written, moved, wire, got>>
  BY DEF T!Reads
<1>2. /\ conn \in Conns /\ conn.open /\ conn.next >= conn.upto /\ conn.next <= conn.upto
      /\ conn.upto = conn.read \div 2 /\ n \in Nat /\ conn.read \in Nat
      /\ conn.next \in Nat /\ conn.upto \in Nat
  BY <1>0, <1>1 DEF T!AllSent, StreamInv, Sent, StreamTypes, Conns
<1>3. T!Resumes(conn.read) = conn.next /\ (n # 0) \in BOOLEAN
  BY <1>2 DEF T!Resumes
<1> DEFINE upto == (conn.read + n) \div 2
           some == n # 0
<1>31. upto \in Nat /\ some \in BOOLEAN /\ conn.read + n \in Nat
  BY <1>2
<1>32. conn' = [conn EXCEPT !.read = conn.read + n, !.next = conn.next, !.upto = upto,
                           !.open = some]
  BY <1>1, <1>3 DEF upto, some
<1> HIDE DEF upto, some
<1>4. /\ conn'.read = conn.read + n /\ conn'.next = conn.next
      /\ conn'.upto = upto /\ conn'.from = conn.from
      /\ conn'.skip = conn.skip /\ conn'.seq = conn.seq
  BY <1>2, <1>32 DEF Conns
<1>5. StreamTypes'
  <2>1. conn' \in Conns
    BY <1>2, <1>31, <1>32 DEF Conns
  <2> QED
    BY <1>0, <1>1, <2>1 DEF StreamInv, StreamTypes
<1>6. Taken' /\ OnWire' /\ Proper'
  BY <1>0, <1>1 DEF T!AllSent, StreamInv, Taken, OnWire, Proper, Before
<1>7. Sent'
  <2>1. conn.next <= upto /\ upto = (conn.read + n) \div 2
    BY <1>2 DEF upto
  <2>2. Start' = Start /\ (Before(conn.next))' = Before(conn.next)
        /\ (Before(Length))' = Before(Length)
    BY <1>0, <1>4 DEF Start, Before
  <2>3. /\ IF rep THEN conn.from = 0 /\ conn.seq = Before(conn.next) ELSE conn.skip = 0
        /\ Start <= Before(Length)
        /\ Len(got) + Len(wire) =
              IF Before(conn.next) < Start THEN Start ELSE Before(conn.next)
    BY <1>2 DEF StreamInv, Sent
  <2> QED
    BY <1>0, <1>1, <1>4, <2>1, <2>2, <2>3 DEF Sent
<1> QED
  BY <1>5, <1>6, <1>7 DEF StreamInv

(* The next line's frame, if it is sent, is the next in order. *)
LEMMA SendsKeep ==
    ASSUME StreamConstants, StreamInv, T!Sends
    PROVE  StreamInv'
<1> USE DEF T!Sends, T!Shown
<1> DEFINE e == conn.next
           frame == [event |-> e, seq |-> IF rep THEN conn.seq ELSE e]
           goes == e >= conn.from /\ e \notin hidden /\ frame.seq >= conn.skip
           all == Len(got) + Len(wire)
<1>1. /\ conn.open /\ conn \in Conns /\ e \in Nat /\ e < conn.upto /\ conn.upto \in Nat
      /\ conn.upto = conn.read \div 2 /\ conn.read \in Nat /\ conn.read <= written
      /\ written \in Nat /\ written <= 2 * Length /\ Length \in Nat
      /\ conn.from \in Nat /\ conn.skip \in Nat /\ conn.seq \in Nat
  BY DEF StreamInv, Sent, StreamTypes, Conns, StreamConstants
<1>2. e < Length /\ e \in T!Events
  <2>1. e < Length
    BY <1>1
  <2> QED
    BY <1>1, <2>1 DEF T!Events, T!Last
<1>3. /\ conn' = [conn EXCEPT !.next = e + 1,
                              !.seq = IF e >= conn.from /\ e \notin hidden THEN @ + 1 ELSE @]
      /\ wire' = IF goes THEN Append(wire, frame) ELSE wire
  OBVIOUS
<1>4. /\ conn'.open = conn.open /\ conn'.read = conn.read /\ conn'.next = e + 1
      /\ conn'.upto = conn.upto /\ conn'.from = conn.from /\ conn'.skip = conn.skip
      /\ conn'.seq = IF e >= conn.from /\ e \notin hidden THEN conn.seq + 1 ELSE conn.seq
  BY <1>1, <1>3 DEF Conns
<1>5. /\ Before(e) \in Nat /\ Before(e + 1) \in Nat /\ Before(Length) \in Nat
      /\ Before(e + 1) = IF e \in hidden THEN Before(e) ELSE Before(e) + 1
      /\ Before(e + 1) <= Before(Length)
  <2>1. \A z \in Nat : CountIn(hidden, z) \in Nat
    BY CountFinite
  <2>2. CountIn(hidden, e + 1) = IF e \in hidden THEN CountIn(hidden, e)
                                 ELSE CountIn(hidden, e) + 1
    BY <1>1, CountNext
  <2>3. CountIn(hidden, e + 1) <= CountIn(hidden, Length)
    BY <1>1, <1>2, CountGrows
  <2> QED
    BY <1>1, <2>1, <2>2, <2>3 DEF Before
<1>6. ~rep => hidden = {} /\ Before(e) = e
  BY <1>1, CountAll DEF StreamInv, StreamTypes, Before
<1>7. /\ IF rep THEN conn.from = 0 /\ conn.seq = Before(e) ELSE conn.skip = 0
      /\ Start <= Before(Length) /\ Start \in Nat /\ all \in Nat
      /\ all = IF Before(e) < Start THEN Start ELSE Before(e)
  BY <1>1 DEF StreamInv, Sent, Start, StreamTypes
<1>8. /\ frame.seq = Before(e) /\ frame.event = e
      /\ goes <=> e \notin hidden /\ Before(e) >= Start
  BY <1>1, <1>5, <1>6, <1>7 DEF Start
<1>9. /\ wire \in Seq(Frames) /\ got \in Seq(T!Events) /\ Len(wire) \in Nat /\ Len(got) \in Nat
      /\ frame \in Frames
  BY <1>1, <1>2 DEF StreamInv, StreamTypes, Frames
<1>10. /\ wire' \in Seq(Frames)
       /\ Len(wire') = IF goes THEN Len(wire) + 1 ELSE Len(wire)
       /\ \A i \in DOMAIN wire' : \/ i \in DOMAIN wire /\ wire'[i] = wire[i]
                                  \/ goes /\ i = Len(wire) + 1 /\ wire'[i] = frame
  BY <1>3, <1>9
<1> HIDE DEF frame, goes
<1>11. StreamTypes'
  <2> DEFINE q == IF e >= conn.from /\ e \notin hidden THEN conn.seq + 1 ELSE conn.seq
  <2>2. q \in Nat /\ e + 1 \in Nat
    BY <1>1
  <2>3. conn' = [conn EXCEPT !.next = e + 1, !.seq = q]
    BY <1>3
  <2> HIDE DEF q
  <2>1. conn' \in Conns
    BY <1>1, <2>2, <2>3 DEF Conns
  <2> QED
    BY <1>10, <2>1 DEF StreamInv, StreamTypes
<1>12. OnWire'
  <2> SUFFICES ASSUME NEW i \in DOMAIN wire'
               PROVE  /\ wire'[i].event \notin hidden
                      /\ wire'[i].seq = Len(got) + i - 1
                      /\ Before(wire'[i].event) = wire'[i].seq
    BY DEF OnWire, Before
  <2>1. CASE i \in DOMAIN wire /\ wire'[i] = wire[i]
    BY <2>1 DEF StreamInv, OnWire
  <2>2. CASE goes /\ i = Len(wire) + 1 /\ wire'[i] = frame
    <3>1. all = Before(e)
      BY <1>5, <1>7, <1>8, <2>2
    <3> QED
      BY <1>5, <1>8, <1>9, <2>2, <3>1
  <2> QED
    BY <1>10, <2>1, <2>2
<1>13. Sent'
  <2>1. Start' = Start /\ (Before(conn.next))' = Before(e + 1)
        /\ (Before(Length))' = Before(Length)
    BY <1>4 DEF Start, Before
  <2>2. Len(got) + Len(wire') = IF Before(e + 1) < Start THEN Start ELSE Before(e + 1)
    BY <1>5, <1>7, <1>8, <1>9, <1>10
  <2>3. IF rep THEN conn'.from = 0 /\ conn'.seq = Before(e + 1) ELSE conn'.skip = 0
    BY <1>1, <1>4, <1>5, <1>7
  <2>4. e + 1 <= conn.upto
    BY <1>1
  <2> QED
    BY <1>1, <1>4, <1>7, <2>1, <2>2, <2>3, <2>4 DEF Sent
<1>14. Taken' /\ Proper'
  BY <1>1 DEF StreamInv, Taken, Proper, Before
<1> QED
  BY <1>11, <1>12, <1>13, <1>14 DEF StreamInv

LEMMA ClosesKeep ==
    ASSUME StreamConstants, StreamInv, T!Closes
    PROVE  StreamInv'
<1> USE DEF T!Closes, T!AllSent, StreamConstants
<1>1. /\ conn \in Conns /\ conn.open /\ conn.next \in Nat /\ conn.read \in Nat
      /\ conn.next = conn.upto /\ conn.upto = conn.read \div 2 /\ conn.read = 2 * Length
      /\ conn' = [conn EXCEPT !.open = FALSE]
  BY DEF StreamInv, StreamTypes, Conns, Sent
<1>2. conn.next = Length
  BY <1>1
<1>3. Len(got) + Len(wire) = Before(Length)
  <2>1. Start <= Before(Length) /\ Before(Length) \in Nat /\ Start \in Nat
        /\ Len(got) + Len(wire) = IF Before(Length) < Start THEN Start ELSE Before(Length)
    BY <1>1, <1>2, TookNoMore DEF StreamInv, Sent, Start, Conns
  <2> QED
    BY <2>1
<1>4. conn' \in Conns /\ ~conn'.open
  BY <1>1 DEF Conns
<1>5. StreamTypes' /\ Sent'
  BY <1>4 DEF StreamInv, StreamTypes, Sent
<1>6. Taken' /\ OnWire' /\ Proper'
  BY <1>3, <1>4 DEF StreamInv, Taken, OnWire, Proper, Before
<1> QED
  BY <1>5, <1>6 DEF StreamInv

(* The first frame on the way is the one the browser waits for. *)
LEMMA ReceivesKeep ==
    ASSUME StreamConstants, StreamInv, T!Receives
    PROVE  StreamInv'
<1> DEFINE first == Head(wire)
<1>1. /\ wire # <<>> /\ wire' = Tail(wire) /\ UNCHANGED <<rep, hidden, written, moved, conn>>
      /\ wire \in Seq(Frames) /\ got \in Seq(T!Events) /\ Len(got) \in Nat
  BY DEF T!Receives, StreamInv, StreamTypes
<1>2. /\ Len(wire) \in Nat \ {0} /\ first = wire[1] /\ first \in Frames
      /\ Len(wire') = Len(wire) - 1 /\ wire' \in Seq(Frames)
      /\ \A i \in DOMAIN wire' : wire'[i] = wire[i + 1] /\ i + 1 \in DOMAIN wire
  BY <1>1
<1>3. /\ first.seq = Len(got) /\ first.event \notin hidden
      /\ Before(first.event) = Len(got) /\ first.event \in T!Events
  <2>1. 1 \in DOMAIN wire
    BY <1>1, <1>2
  <2> QED
    BY <1>1, <1>2, <2>1 DEF StreamInv, OnWire, Frames
<1>4. got' = Append(got, first.event) /\ code' = code
  <2>1. ~(first.seq > Len(got))
    BY <1>1, <1>3
  <2> QED
    BY <1>3, <2>1 DEF T!Receives
<1> HIDE DEF first
<1>5. /\ got' \in Seq(T!Events) /\ Len(got') = Len(got) + 1
      /\ \A i \in DOMAIN got' : \/ i \in DOMAIN got /\ got'[i] = got[i]
                                \/ i = Len(got) + 1 /\ got'[i] = first.event
  BY <1>1, <1>3, <1>4
<1>6. StreamTypes'
  BY <1>1, <1>2, <1>4, <1>5 DEF StreamInv, StreamTypes
<1>7. Taken'
  <2> SUFFICES ASSUME NEW i \in DOMAIN got'
               PROVE  got'[i] \notin hidden /\ Before(got'[i]) = i - 1
    BY <1>1 DEF Taken, Before
  <2>1. CASE i \in DOMAIN got /\ got'[i] = got[i]
    BY <2>1 DEF StreamInv, Taken
  <2>2. CASE i = Len(got) + 1 /\ got'[i] = first.event
    BY <1>1, <1>3, <2>2
  <2> QED
    BY <1>5, <2>1, <2>2
<1>8. OnWire'
  <2> SUFFICES ASSUME NEW i \in DOMAIN wire'
               PROVE  /\ wire'[i].event \notin hidden
                      /\ wire'[i].seq = Len(got') + i - 1
                      /\ Before(wire'[i].event) = wire'[i].seq
    BY <1>1 DEF OnWire, Before
  <2>1. /\ wire[i + 1].event \notin hidden
        /\ wire[i + 1].seq = Len(got) + (i + 1) - 1
        /\ Before(wire[i + 1].event) = wire[i + 1].seq
    BY <1>2 DEF StreamInv, OnWire
  <2>2. i \in Nat
    BY <1>2
  <2> QED
    BY <1>1, <1>2, <1>5, <2>1, <2>2
<1>9. Len(got') + Len(wire') = Len(got) + Len(wire)
  BY <1>1, <1>2, <1>5
<1>10. Sent' /\ Proper'
  BY <1>1, <1>4, <1>9 DEF StreamInv, Sent, Proper, Start, Before
<1> QED
  BY <1>6, <1>7, <1>8, <1>10 DEF StreamInv

LEMMA BreaksKeep ==
    ASSUME StreamConstants, StreamInv, T!Breaks
    PROVE  StreamInv'
<1> USE DEF T!Breaks
<1>1. ~conn'.open /\ conn' \in Conns /\ wire' = <<>> /\ wire' \in Seq(Frames) /\ code' = 1006
  BY DEF T!NoConn, Conns
<1>2. StreamTypes' /\ Taken'
  BY <1>1 DEF StreamInv, StreamTypes, Taken, Before
<1> QED
  BY <1>1, <1>2 DEF StreamInv, OnWire, Sent, Proper

LEMMA StreamStep ==
    ASSUME StreamConstants, StreamInv, [T!Next]_(T!vars)
    PROVE  StreamInv'
<1>1. CASE UNCHANGED T!vars
  <2>1. StreamTypes'
    BY <1>1 DEF T!vars, StreamInv, StreamTypes
  <2>2. written' = written /\ written \in Nat
    BY <1>1 DEF T!vars, StreamInv, StreamTypes
  <2> QED
    BY <1>1, <2>1, <2>2, StreamAside DEF T!vars
<1>2. CASE T!Writes
  <2>1. StreamTypes' /\ written <= written'
    BY <1>2 DEF T!Writes, StreamInv, StreamTypes, StreamConstants
  <2> QED
    BY <1>2, <2>1, StreamAside DEF T!Writes
<1>3. CASE T!Moves
  <2>1. StreamTypes' /\ written <= written'
    BY <1>3 DEF T!Moves, StreamInv, StreamTypes
  <2> QED
    BY <1>3, <2>1, StreamAside DEF T!Moves
<1> QED
  BY <1>1, <1>2, <1>3, ConnectsKeep, ReadsKeep, SendsKeep, ClosesKeep, ReceivesKeep,
     BreaksKeep DEF T!Next

(* A visible event whose place was taken was taken. *)
LEMMA StreamReads == ASSUME StreamConstants, StreamInv PROVE T!StreamExact
<1>0. \A e \in T!Visible : e \in Nat /\ e < Length /\ e \notin hidden /\ Before(e) \in Nat
  <2>1. \A z \in Nat : CountIn(hidden, z) \in Nat
    BY CountFinite
  <2>2. \A e \in T!Visible : e \in 0..Length - 1 /\ e \notin hidden
    BY DEF T!Visible, T!Events, T!Last
  <2> QED
    BY <2>1, <2>2 DEF Before, StreamConstants
<1>1. /\ got \in Seq(T!Events) /\ Len(got) \in Nat /\ code # -1
      /\ \A i \in DOMAIN got : /\ got[i] \in T!Visible /\ got[i] \in Nat
                               /\ got[i] \notin hidden /\ Before(got[i]) = i - 1
  <2>1. got \in Seq(T!Events) /\ Len(got) \in Nat /\ code # -1
    BY DEF StreamInv, StreamTypes, Proper
  <2>2. \A i \in DOMAIN got : got[i] \in T!Events
    BY <2>1
  <2>3. \A i \in DOMAIN got : got[i] \notin hidden /\ Before(got[i]) = i - 1
    BY DEF StreamInv, Taken
  <2>4. \A i \in DOMAIN got : got[i] \in T!Visible
    BY <2>2, <2>3 DEF T!Visible
  <2> QED
    BY <1>0, <2>1, <2>3, <2>4
<1>2. ASSUME NEW i \in DOMAIN got, NEW j \in DOMAIN got, i < j
      PROVE  got[i] < got[j]
  <2>1. Before(got[i]) < Before(got[j])
    BY <1>1, <1>2
  <2>2. got[j] \notin hidden /\ got[j] < got[i] => Before(got[j]) < Before(got[i])
    BY <1>1, CountOrders DEF Before
  <2>3. got[i] \in Nat /\ got[j] \in Nat /\ Before(got[i]) \in Nat /\ Before(got[j]) \in Nat
    BY <1>1
  <2> QED
    BY <1>1, <2>1, <2>2, <2>3
<1>3. ASSUME NEW e \in T!Visible, Before(e) < Len(got)
      PROVE  T!Took(e)
  <2>1. e \in Nat /\ e \notin hidden /\ Before(e) \in Nat
    BY <1>0
  <2>2. Before(e) + 1 \in DOMAIN got
    BY <1>1, <1>3, <2>1
  <2>3. Before(got[Before(e) + 1]) = Before(e)
    BY <1>1, <2>1, <2>2
  <2>4. got[Before(e) + 1] = e
    BY <1>1, <2>1, <2>2, <2>3, CountOrders DEF Before
  <2> QED
    BY <2>2, <2>4 DEF T!Took
<1>4. ASSUME NEW i \in DOMAIN got, NEW e \in T!Visible, e < got[i]
      PROVE  T!Took(e)
  <2>1. e \in Nat /\ e \notin hidden /\ Before(e) \in Nat
    BY <1>0
  <2>2. Before(e) < Before(got[i])
    BY <1>1, <1>4, <2>1, CountOrders DEF Before
  <2> QED
    BY <1>1, <1>3, <2>1, <2>2
<1>5. ASSUME code = 1000, wire = <<>>, NEW e \in T!Visible
      PROVE  T!Took(e)
  <2>1. e \in Nat /\ e \notin hidden /\ Before(e) \in Nat /\ e < Length
    BY <1>0
  <2>2. Before(e) < Before(Length)
    BY <2>1, CountOrders DEF Before, StreamConstants
  <2>3. Len(got) = Before(Length)
    BY <1>1, <1>5 DEF StreamInv, Proper
  <2> QED
    BY <1>3, <2>2, <2>3
<1> QED
  BY <1>1, <1>2, <1>4, <1>5 DEF T!StreamExact

(* However the log is written, cut into chunks, moved, and however the     *)
(* connection breaks and is taken up again, a browser takes every event it *)
(* may see once and in order, with none skipped, and at the proper end has *)
(* them all (serve/stream.py, serve/rep.py).                               *)
THEOREM StreamsExact == ASSUME StreamConstants PROVE T!Spec => []T!StreamExact
<1>1. T!Init => StreamInv
  BY StreamInit
<1>2. StreamInv /\ [T!Next]_(T!vars) => StreamInv'
  BY StreamStep
<1>3. StreamInv => T!StreamExact
  BY StreamReads
<1> QED
  BY <1>1, <1>2, <1>3, PTL DEF T!Spec

-----------------------------------------------------------------------------
(* A bundle's log. *)

(* The lanes are of the session, no text is of two kinds, None is none of  *)
(* them, and a text parses to lines.                                       *)
LogConstants ==
    /\ Lanes \subseteq {"user", "cp"}
    /\ E!Disclosure \notin Accepts \cup Declines /\ Accepts \cap Declines = {}
    /\ None \notin Responses
    /\ None \notin E!Verbatim \cup Lines
    /\ MaxGens \in [Lanes -> Nat]
    /\ ItemsOf \in [Responses -> Seq(Lines)]

HasEvent(evs, i, type) == i \in DOMAIN evs /\ evs[i].type = type

(* An event, and those it cites, that came before it. *)
TurnFollows(evs, i) ==
    \E q, c \in 1..(i - 1) :
        /\ evs[i].cites = {q, c}
        /\ evs[q].type = "fast.request" /\ evs[q].lane = evs[i].lane /\ evs[q].gen = evs[i].gen
        /\ evs[c].type = "llm.call" /\ evs[c].lane = evs[i].lane /\ evs[c].gen = evs[i].gen
        /\ evs[c].response \in Responses /\ evs[i].items = ItemsOf[evs[c].response]

SentenceFollows(evs, i) ==
    \E t \in 1..(i - 1) :
        /\ evs[i].cites = {t} /\ evs[t].type = "fast.turn"
        /\ evs[t].lane = evs[i].lane /\ evs[t].gen = evs[i].gen
        /\ \E n \in DOMAIN evs[t].items :
              evs[i].utt = <<evs[i].gen, n>> /\ evs[i].text = evs[t].items[n]

ReleaseFollows(evs, i) ==
    \E v \in 1..(i - 1) :
        /\ evs[i].cites = {v} /\ evs[v].type = "speak.verbatim"
        /\ evs[i].lane = "cp" /\ evs[v].lane = "cp"
        /\ IF evs[v].kind = "accept" THEN evs[v].cap # None /\ evs[i].cap = evs[v].cap
           ELSE evs[i].cap = None

OfTurn(evs, i, s) ==
    /\ evs[s].type = "fast.sentence" /\ evs[s].lane = evs[i].lane /\ evs[s].gen = evs[i].gen
    /\ evs[s].utt = evs[i].utt /\ evs[s].text = evs[i].text

OfLine(evs, i, r) ==
    /\ evs[r].type = "speak.released" /\ evs[i].lane = "cp"
    /\ \E v \in 1..(i - 1) : v \in evs[r].cites /\ evs[v].text = evs[i].text

DeliveryFollows(evs, i) ==
    \E s \in 1..(i - 1) : evs[i].cites = {s} /\ (OfTurn(evs, i, s) \/ OfLine(evs, i, s))

Follows(evs, i) ==
    /\ evs[i].type = "fast.turn" => TurnFollows(evs, i)
    /\ evs[i].type = "fast.sentence" => SentenceFollows(evs, i)
    /\ evs[i].type = "speak.released" => ReleaseFollows(evs, i)
    /\ evs[i].type = "utt.delivered" => DeliveryFollows(evs, i)

(* What is written once. *)
OneTurn(evs) ==
    \A i, j \in DOMAIN evs :
        evs[i].type = "fast.turn" /\ evs[j].type = "fast.turn"
        /\ evs[i].lane = evs[j].lane /\ evs[i].gen = evs[j].gen => i = j
OneSentence(evs) ==
    \A i, j \in DOMAIN evs :
        evs[i].type = "fast.sentence" /\ evs[j].type = "fast.sentence"
        /\ evs[i].lane = evs[j].lane /\ evs[i].utt = evs[j].utt => i = j
OneOf(evs, type) ==
    \A i, j \in DOMAIN evs :
        evs[i].type = type /\ evs[j].type = type
        /\ evs[i].cites \cap evs[j].cites # {} => i = j

LogInv(evs) ==
    /\ \A i \in DOMAIN evs : Follows(evs, i)
    /\ OneTurn(evs) /\ OneSentence(evs)
    /\ OneOf(evs, "speak.released") /\ OneOf(evs, "utt.delivered")

(* A generation's events are not those of one to come. *)
GensPast ==
    \A i \in DOMAIN log :
        log[i].type \in {"fast.turn", "fast.sentence"} =>
            log[i].lane \in Lanes /\ log[i].gen <= gens[log[i].lane]

Undelivered(s) ==
    \A i \in DOMAIN log : log[i].type = "utt.delivered" => s \notin log[i].cites

Asks(l) ==
    /\ HasEvent(log, job[l].request, "fast.request")
    /\ log[job[l].request].lane = l /\ log[job[l].request].gen = gens[l]
    /\ \A i \in DOMAIN log :
          log[i].type \in {"fast.turn", "fast.sentence"} /\ log[i].lane = l
            => log[i].gen # gens[l]

Tells(l) ==
    LET q == job[l].lines
    IN  /\ q # <<>>
        /\ \A n \in DOMAIN q :
              /\ HasEvent(log, q[n], "fast.sentence") /\ log[q[n]].lane = l
              /\ log[q[n]].gen = gens[l] /\ Undelivered(q[n])
        /\ \A m, n \in DOMAIN q : q[m] = q[n] => m = n

JobInv(l) ==
    /\ job[l].phase = "asked" => Asks(l)
    /\ job[l].phase \in {"floor", "speaking"} => Tells(l)

IsLine(i, v) == HasEvent(log, i, "speak.verbatim") /\ log[i].text = v

LineInv(v) ==
    /\ line[v].stage = "asked" =>
         /\ IsLine(line[v].last, v) /\ log[line[v].last].lane = "cp"
         /\ log[line[v].last].kind = E!Kind(v) /\ log[line[v].last].cap = E!CapHeld(v)
         /\ \A i \in DOMAIN log :
               log[i].type = "speak.released" => line[v].last \notin log[i].cites
    /\ line[v].stage \in {"released", "speaking"} =>
         /\ HasEvent(log, line[v].last, "speak.released") /\ Undelivered(line[v].last)
         /\ \E i \in DOMAIN log : log[line[v].last].cites = {i} /\ IsLine(i, v)

JobTypes == [phase : {"idle", "asked", "floor", "speaking"},
         request : Nat, call : Nat, tries : Nat, lines : Seq(Nat)]

LineTypes == [stage : {"none", "asked", "released", "speaking", "done"}, last : Nat]

LogTypes ==
    /\ log \in Seq(E!Event)
    /\ gens \in [Lanes -> Nat]
    /\ job \in [Lanes -> JobTypes]
    /\ line \in [E!Verbatim -> LineTypes]

ChainInv ==
    /\ LogTypes /\ LogInv(log) /\ GensPast
    /\ \A l \in Lanes : JobInv(l)
    /\ \A v \in E!Verbatim : LineInv(v)

(* What is longer is not what was written. *)
Fresh(evs, e) ==
    \A i \in DOMAIN evs :
        /\ e.type = "fast.turn" /\ evs[i].type = "fast.turn" /\ evs[i].lane = e.lane
             => evs[i].gen # e.gen
        /\ e.type = "fast.sentence" /\ evs[i].type = "fast.sentence" /\ evs[i].lane = e.lane
             => evs[i].utt # e.utt
        /\ e.type \in {"speak.released", "utt.delivered"} /\ evs[i].type = e.type
             => evs[i].cites \cap e.cites = {}

-----------------------------------------------------------------------------
LEMMA LogExtends ==
    ASSUME NEW evs \in Seq(E!Event), NEW more \in Seq(E!Event)
    PROVE  LET longer == evs \o more
           IN  /\ longer \in Seq(E!Event) /\ Len(longer) = Len(evs) + Len(more)
               /\ DOMAIN longer = 1..(Len(evs) + Len(more)) /\ DOMAIN evs = 1..Len(evs)
               /\ DOMAIN more = 1..Len(more)
               /\ Len(evs) \in Nat /\ Len(more) \in Nat
               /\ \A i \in DOMAIN evs : longer[i] = evs[i] /\ i \in DOMAIN longer
               /\ \A k \in DOMAIN more : longer[Len(evs) + k] = more[k] /\ Len(evs) + k \in DOMAIN longer
               /\ \A i \in DOMAIN longer : i \in DOMAIN evs \/
                     \E k \in DOMAIN more : i = Len(evs) + k
<1>1. /\ evs \o more \in Seq(E!Event) /\ Len(evs \o more) = Len(evs) + Len(more)
      /\ Len(evs) \in Nat /\ Len(more) \in Nat
      /\ DOMAIN (evs \o more) = 1..(Len(evs) + Len(more)) /\ DOMAIN evs = 1..Len(evs)
      /\ DOMAIN more = 1..Len(more)
  OBVIOUS
<1>2. \A i \in DOMAIN evs : (evs \o more)[i] = evs[i] /\ i \in DOMAIN (evs \o more)
  BY <1>1
<1>3. \A k \in DOMAIN more : (evs \o more)[Len(evs) + k] = more[k] /\ Len(evs) + k \in DOMAIN (evs \o more)
  BY <1>1
<1>4. \A i \in DOMAIN (evs \o more) : i \in DOMAIN evs \/ \E k \in DOMAIN more : i = Len(evs) + k
  <2> TAKE i \in DOMAIN (evs \o more)
  <2>1. CASE i \in DOMAIN evs
    BY <2>1
  <2>2. CASE i \notin DOMAIN evs
    <3>1. i - Len(evs) \in DOMAIN more /\ i = Len(evs) + (i - Len(evs))
      BY <1>1, <2>2
    <3> QED
      BY <3>1
  <2> QED
    BY <2>1, <2>2
<1> QED
  BY <1>1, <1>2, <1>3, <1>4

(* What an event follows from is before it. *)
LEMMA FollowsOn ==
    ASSUME NEW evs, NEW longer, NEW i \in Nat \ {0}, \A j \in 1..i : longer[j] = evs[j], Follows(evs, i)
    PROVE  Follows(longer, i)
<1>1. longer[i] = evs[i] /\ \A j \in 1..(i - 1) : longer[j] = evs[j]
  OBVIOUS
<1>2. evs[i].type = "fast.turn" => TurnFollows(longer, i)
  BY <1>1 DEF Follows, TurnFollows
<1>3. evs[i].type = "fast.sentence" => SentenceFollows(longer, i)
  BY <1>1 DEF Follows, SentenceFollows
<1>4. evs[i].type = "speak.released" => ReleaseFollows(longer, i)
  BY <1>1 DEF Follows, ReleaseFollows
<1>5. evs[i].type = "utt.delivered" => DeliveryFollows(longer, i)
  BY <1>1 DEF Follows, DeliveryFollows, OfTurn, OfLine
<1> QED
  BY <1>1, <1>2, <1>3, <1>4, <1>5 DEF Follows

LEMMA LogGrows ==
    ASSUME NEW evs \in Seq(E!Event), NEW more \in Seq(E!Event), LogInv(evs),
           \A k \in DOMAIN more : Follows(evs \o more, Len(evs) + k) /\ Fresh(evs, more[k]),
           OneTurn(more), OneSentence(more), OneOf(more, "speak.released"), OneOf(more, "utt.delivered")
    PROVE  LogInv(evs \o more)
<1> DEFINE longer == evs \o more
<1>1. /\ DOMAIN evs = 1..Len(evs) /\ Len(evs) \in Nat
      /\ \A i \in DOMAIN evs : longer[i] = evs[i]
      /\ \A k \in DOMAIN more : longer[Len(evs) + k] = more[k]
      /\ \A i \in DOMAIN longer : i \in DOMAIN evs \/ \E k \in DOMAIN more : i = Len(evs) + k
  BY LogExtends
<1> HIDE DEF longer
<1>2. \A i \in DOMAIN longer : Follows(longer, i)
  <2> TAKE i \in DOMAIN longer
  <2>1. CASE i \in DOMAIN evs
    <3>1. i \in Nat \ {0} /\ \A j \in 1..i : longer[j] = evs[j]
      BY <1>1, <2>1
    <3> QED
      BY <3>1, <2>1, FollowsOn DEF LogInv
  <2> QED
    BY <1>1, <2>1 DEF longer
<1>3. ASSUME NEW i \in DOMAIN evs, NEW k \in DOMAIN more PROVE Fresh(evs, more[k])
  OBVIOUS
<1>4. OneTurn(longer)
  <2> SUFFICES ASSUME NEW i \in DOMAIN longer, NEW j \in DOMAIN longer,
                      longer[i].type = "fast.turn", longer[j].type = "fast.turn",
                      longer[i].lane = longer[j].lane, longer[i].gen = longer[j].gen
               PROVE  i = j
    BY DEF OneTurn
  <2>1. CASE i \in DOMAIN evs /\ j \in DOMAIN evs
    BY <1>1, <2>1 DEF LogInv, OneTurn
  <2>2. CASE i \in DOMAIN evs /\ \E k \in DOMAIN more : j = Len(evs) + k
    BY <1>1, <1>3, <2>2 DEF Fresh
  <2>3. CASE j \in DOMAIN evs /\ \E k \in DOMAIN more : i = Len(evs) + k
    BY <1>1, <1>3, <2>3 DEF Fresh
  <2>4. CASE (\E k \in DOMAIN more : i = Len(evs) + k) /\ \E k \in DOMAIN more : j = Len(evs) + k
    BY <1>1, <2>4 DEF OneTurn
  <2> QED
    BY <1>1, <2>1, <2>2, <2>3, <2>4
<1>5. OneSentence(longer)
  <2> SUFFICES ASSUME NEW i \in DOMAIN longer, NEW j \in DOMAIN longer,
                      longer[i].type = "fast.sentence", longer[j].type = "fast.sentence",
                      longer[i].lane = longer[j].lane, longer[i].utt = longer[j].utt
               PROVE  i = j
    BY DEF OneSentence
  <2>1. CASE i \in DOMAIN evs /\ j \in DOMAIN evs
    BY <1>1, <2>1 DEF LogInv, OneSentence
  <2>2. CASE i \in DOMAIN evs /\ \E k \in DOMAIN more : j = Len(evs) + k
    BY <1>1, <1>3, <2>2 DEF Fresh
  <2>3. CASE j \in DOMAIN evs /\ \E k \in DOMAIN more : i = Len(evs) + k
    BY <1>1, <1>3, <2>3 DEF Fresh
  <2>4. CASE (\E k \in DOMAIN more : i = Len(evs) + k) /\ \E k \in DOMAIN more : j = Len(evs) + k
    BY <1>1, <2>4 DEF OneSentence
  <2> QED
    BY <1>1, <2>1, <2>2, <2>3, <2>4
<1>6. ASSUME NEW type \in {"speak.released", "utt.delivered"} PROVE OneOf(longer, type)
  <2>0. OneOf(evs, type) /\ OneOf(more, type)
    BY DEF LogInv
  <2> SUFFICES ASSUME NEW i \in DOMAIN longer, NEW j \in DOMAIN longer,
                      longer[i].type = type, longer[j].type = type, longer[i].cites \cap longer[j].cites # {}
               PROVE  i = j
    BY DEF OneOf
  <2>1. CASE i \in DOMAIN evs /\ j \in DOMAIN evs
    BY <1>1, <2>0, <2>1 DEF OneOf
  <2>2. CASE i \in DOMAIN evs /\ \E k \in DOMAIN more : j = Len(evs) + k
    BY <1>1, <1>3, <2>2 DEF Fresh
  <2>3. CASE j \in DOMAIN evs /\ \E k \in DOMAIN more : i = Len(evs) + k
    BY <1>1, <1>3, <2>3 DEF Fresh
  <2>4. CASE (\E k \in DOMAIN more : i = Len(evs) + k) /\ \E k \in DOMAIN more : j = Len(evs) + k
    BY <1>1, <2>0, <2>4 DEF OneOf
  <2> QED
    BY <1>1, <2>1, <2>2, <2>3, <2>4
<1> QED
  BY <1>2, <1>4, <1>5, <1>6 DEF LogInv, longer

-----------------------------------------------------------------------------
(* The events a step writes. *)

LEMMA BlankEvent ==
    ASSUME NEW type \in {"fast.request", "llm.call", "fast.turn", "fast.sentence",
                         "speak.verbatim", "speak.released", "utt.delivered"},
           NEW lane \in {"user", "cp"}, NEW gen \in Nat, NEW cites \in SUBSET (Nat \ {0})
    PROVE  /\ E!Blank(type, lane, gen, cites) \in E!Event
           /\ E!Blank(type, lane, gen, cites).type = type
           /\ E!Blank(type, lane, gen, cites).lane = lane
           /\ E!Blank(type, lane, gen, cites).gen = gen
           /\ E!Blank(type, lane, gen, cites).cites = cites
<1>1. <<>> \in Seq(E!Texts) /\ <<0, 0>> \in Nat \X Nat
  OBVIOUS
<1> QED
  BY <1>1 DEF E!Blank, E!Event

LEMMA RecordEvent ==
    ASSUME LogConstants, LogTypes, NEW l \in Lanes, job[l].request # 0, NEW r \in Responses \cup {None}
    PROVE  /\ E!Recorded(l, r) \in E!Event /\ E!Recorded(l, r).type = "llm.call"
           /\ E!Recorded(l, r).lane = l /\ E!Recorded(l, r).gen = gens[l]
           /\ E!Recorded(l, r).response = r
<1>0. job[l] \in JobTypes /\ gens[l] \in Nat
  BY DEF LogTypes
<1>1. /\ l \in {"user", "cp"} /\ gens[l] \in Nat
      /\ {job[l].request} \in SUBSET (Nat \ {0})
  BY <1>0 DEF JobTypes, LogConstants
<1>2. E!Recorded(l, r) \in E!Event /\ E!Recorded(l, r).type = "llm.call"
      /\ E!Recorded(l, r).lane = l /\ E!Recorded(l, r).gen = gens[l]
      /\ E!Recorded(l, r).response = r
  <2> DEFINE b == E!Blank("llm.call", l, gens[l], {job[l].request})
  <2>1. b \in E!Event /\ b.type = "llm.call" /\ b.lane = l /\ b.gen = gens[l]
    BY <1>1, BlankEvent
  <2> HIDE DEF b
  <2>2. E!Recorded(l, r) = [b EXCEPT !.response = r]
    BY DEF E!Recorded, b
  <2> QED
    BY <2>1, <2>2 DEF E!Event
<1> QED
  BY <1>2

IsTurn(t, l, q) ==
    /\ t \in E!Event /\ t.type = "fast.turn" /\ t.lane = l /\ t.gen = gens[l]
    /\ t.items = q /\ t.cites = {job[l].request, E!Last + 1}

LEMMA TurnEvent ==
    ASSUME LogConstants, LogTypes, NEW l \in Lanes, job[l].request # 0, NEW q \in Seq(E!Texts)
    PROVE  IsTurn([E!Blank("fast.turn", l, gens[l], {job[l].request, E!Last + 1})
                     EXCEPT !.items = q], l, q)
<1> DEFINE c == E!Last + 1
<1>0. c \in Nat \ {0}
  BY DEF LogTypes, E!Last
<1> HIDE DEF c
<1>1. job[l] \in JobTypes /\ gens[l] \in Nat /\ l \in {"user", "cp"}
  BY DEF LogTypes, LogConstants
<1>2. {job[l].request, c} \in SUBSET (Nat \ {0})
  BY <1>0, <1>1 DEF JobTypes
<1> DEFINE b == E!Blank("fast.turn", l, gens[l], {job[l].request, c})
<1>3. b \in E!Event /\ b.type = "fast.turn" /\ b.lane = l /\ b.gen = gens[l]
      /\ b.cites = {job[l].request, c}
  BY <1>1, <1>2, BlankEvent
<1> HIDE DEF b
<1>4. LET t == [b EXCEPT !.items = q]
      IN  /\ t \in E!Event /\ t.type = "fast.turn" /\ t.lane = l /\ t.gen = gens[l]
          /\ t.items = q /\ t.cites = {job[l].request, c}
  BY <1>3 DEF E!Event
<1> QED
  BY <1>4 DEF b, c, IsTurn

LEMMA SentenceEvent ==
    ASSUME LogConstants, LogTypes, NEW l \in Lanes, NEW s \in Nat \ {0}, NEW n \in Nat, NEW x \in E!Texts
    PROVE  /\ E!Sentence(l, s, n, x) \in E!Event /\ E!Sentence(l, s, n, x).type = "fast.sentence"
           /\ E!Sentence(l, s, n, x).lane = l /\ E!Sentence(l, s, n, x).gen = gens[l]
           /\ E!Sentence(l, s, n, x).cites = {s} /\ E!Sentence(l, s, n, x).text = x
           /\ E!Sentence(l, s, n, x).utt = <<gens[l], n>>
<1>1. gens[l] \in Nat /\ l \in {"user", "cp"} /\ x \in E!Texts \cup {None}
  BY DEF LogTypes, LogConstants
<1> DEFINE b == E!Blank("fast.sentence", l, gens[l], {s})
<1>2. b \in E!Event /\ b.type = "fast.sentence" /\ b.lane = l /\ b.gen = gens[l]
      /\ b.cites = {s}
  BY <1>1, BlankEvent
<1> HIDE DEF b
<1>3. E!Sentence(l, s, n, x) = [b EXCEPT !.utt = <<gens[l], n>>, !.text = x]
  BY DEF E!Sentence, b
<1>4. <<gens[l], n>> \in Nat \X Nat
  BY <1>1
<1> QED
  BY <1>1, <1>2, <1>3, <1>4 DEF E!Event

IsSaid(d, lane, gen, s, u, x) ==
    /\ d \in E!Event /\ d.type = "utt.delivered" /\ d.lane = lane
    /\ d.gen = gen /\ d.cites = {s} /\ d.utt = u /\ d.text = x

LEMMA SaidEvent ==
    ASSUME NEW lane \in {"user", "cp"}, NEW gen \in Nat, NEW s \in Nat \ {0},
           NEW whole \in BOOLEAN, NEW x \in E!Texts \cup {None}, NEW u \in Nat \X Nat
    PROVE  IsSaid(E!Delivered(lane, gen, s, u, x, whole), lane, gen, s, u, x)
<1> DEFINE b == E!Blank("utt.delivered", lane, gen, {s})
<1>1. b \in E!Event /\ b.type = "utt.delivered" /\ b.lane = lane /\ b.gen = gen
      /\ b.cites = {s}
  BY BlankEvent
<1> HIDE DEF b
<1>2. E!Delivered(lane, gen, s, u, x, whole)
        = [b EXCEPT !.utt = u, !.text = x, !.whole = whole]
  BY DEF E!Delivered, b
<1> QED
  BY <1>1, <1>2 DEF E!Event, IsSaid

LEMMA SpokenEvent ==
    ASSUME NEW v \in E!Verbatim
    PROVE  /\ E!Spoken(v) \in E!Event /\ E!Spoken(v).type = "speak.verbatim"
           /\ E!Spoken(v).lane = "cp" /\ E!Spoken(v).text = v /\ E!Spoken(v).cap = E!CapHeld(v)
           /\ E!Spoken(v).kind = E!Kind(v)
<1>1. v \in E!Texts \cup {None} /\ E!CapHeld(v) \in Accepts \cup {None}
      /\ E!Kind(v) \in {"accept", "decline", "disclosure", None}
  BY DEF E!Texts, E!CapHeld, E!Kind
<1> DEFINE b == E!Blank("speak.verbatim", "cp", 0, {})
<1>2. b \in E!Event /\ b.type = "speak.verbatim" /\ b.lane = "cp"
  BY BlankEvent
<1> HIDE DEF b
<1>3. E!Spoken(v) = [b EXCEPT !.kind = E!Kind(v), !.text = v, !.cap = E!CapHeld(v)]
  BY DEF E!Spoken, b
<1> QED
  BY <1>1, <1>2, <1>3 DEF E!Event

LEMMA ReleaseEvent ==
    ASSUME NEW v \in E!Verbatim, NEW s \in Nat \ {0}
    PROVE  /\ E!Release(v, s) \in E!Event /\ E!Release(v, s).type = "speak.released"
           /\ E!Release(v, s).lane = "cp" /\ E!Release(v, s).cites = {s}
           /\ E!Release(v, s).cap = E!CapHeld(v)
<1>1. E!CapHeld(v) \in Accepts \cup {None}
  BY DEF E!CapHeld
<1> DEFINE b == E!Blank("speak.released", "cp", 0, {s})
<1>2. b \in E!Event /\ b.type = "speak.released" /\ b.lane = "cp" /\ b.cites = {s}
  BY BlankEvent
<1> HIDE DEF b
<1>3. E!Release(v, s) = [b EXCEPT !.cap = E!CapHeld(v)]
  BY DEF E!Release, b
<1> QED
  BY <1>1, <1>2, <1>3 DEF E!Event

LEMMA KindCap ==
    ASSUME LogConstants, NEW v \in E!Verbatim
    PROVE  IF E!Kind(v) = "accept" THEN E!CapHeld(v) # None ELSE E!CapHeld(v) = None
<1>1. E!Kind(v) = "accept" => v \in Accepts
  BY DEF E!Kind
<1>2. v \in Accepts => E!Kind(v) = "accept"
  BY DEF E!Kind, LogConstants
<1>3. v \in Accepts => v # None
  BY DEF E!Verbatim, LogConstants
<1> QED
  BY <1>1, <1>2, <1>3 DEF E!CapHeld

-----------------------------------------------------------------------------
(* What a longer log leaves as it was. *)

(* The log goes on with events of the set E. *)
Grown(more) ==
    /\ \A i \in DOMAIN log : i \in DOMAIN log' /\ log'[i] = log[i]
    /\ \A i \in DOMAIN log' : i \in DOMAIN log \/ log'[i] \in more

LEMMA LogOnward ==
    ASSUME LogTypes, NEW more \in Seq(E!Event), log' = log \o more
    PROVE  Grown({more[k] : k \in DOMAIN more})
BY LogExtends DEF LogTypes, Grown

LEMMA JobGrows ==
    ASSUME NEW l \in Lanes, NEW more, Grown(more),
           job'[l] = job[l], gens'[l] = gens[l], JobInv(l),
           \A e \in more :
              /\ e.type \in {"fast.turn", "fast.sentence"} => e.lane # l
              /\ e.type = "utt.delivered" /\ job[l].phase \in {"floor", "speaking"} =>
                   \A n \in DOMAIN job[l].lines : job[l].lines[n] \notin e.cites
    PROVE  JobInv(l)'
<1>1. job[l].phase = "asked" => Asks(l)'
  BY DEF JobInv, Asks, HasEvent, Grown
<1>2. ASSUME job[l].phase \in {"floor", "speaking"} PROVE Tells(l)'
  <2> DEFINE q == job[l].lines
  <2>1. Tells(l) /\ job'[l].lines = q
    BY <1>2 DEF JobInv
  <2>2. ASSUME NEW n \in DOMAIN q PROVE Undelivered(q[n])'
    BY <1>2, <2>1, <2>2 DEF Undelivered, Tells, Grown
  <2> QED
    BY <2>1, <2>2 DEF Tells, HasEvent, Grown
<1> QED
  BY <1>1, <1>2 DEF JobInv

LEMMA LineGrows ==
    ASSUME NEW v \in E!Verbatim, NEW more, Grown(more), line'[v] = line[v], LineInv(v),
           \A e \in more :
              /\ e.type = "speak.released" /\ line[v].stage = "asked" =>
                   line[v].last \notin e.cites
              /\ e.type = "utt.delivered" /\ line[v].stage \in {"released", "speaking"} =>
                   line[v].last \notin e.cites
    PROVE  LineInv(v)'
<1>1. ASSUME line[v].stage = "asked"
      PROVE  /\ IsLine(line[v].last, v)' /\ log'[line[v].last].lane = "cp"
             /\ log'[line[v].last].kind = E!Kind(v) /\ log'[line[v].last].cap = E!CapHeld(v)
             /\ \A i \in DOMAIN log' :
                   log'[i].type = "speak.released" => line[v].last \notin log'[i].cites
  BY <1>1 DEF LineInv, IsLine, HasEvent, Grown
<1>2. ASSUME line[v].stage \in {"released", "speaking"}
      PROVE  /\ HasEvent(log', line[v].last, "speak.released") /\ Undelivered(line[v].last)'
             /\ \E i \in DOMAIN log' : log'[line[v].last].cites = {i} /\ IsLine(i, v)'
  <2>1. HasEvent(log', line[v].last, "speak.released") /\ Undelivered(line[v].last)'
    BY <1>2 DEF LineInv, HasEvent, Undelivered, Grown
  <2>2. \E i \in DOMAIN log' : log'[line[v].last].cites = {i} /\ IsLine(i, v)'
    BY <1>2 DEF LineInv, HasEvent, IsLine, Grown
  <2> QED
    BY <2>1, <2>2
<1> QED
  BY <1>1, <1>2 DEF LineInv

LEMMA PastGrows ==
    ASSUME LogTypes, GensPast, NEW more, Grown(more),
           \A l \in Lanes : gens[l] <= gens'[l] /\ gens'[l] \in Nat,
           \A e \in more :
              e.type \in {"fast.turn", "fast.sentence"} =>
                 e.lane \in Lanes /\ e.gen <= gens'[e.lane]
    PROVE  GensPast'
<1> SUFFICES ASSUME NEW i \in DOMAIN log', log'[i].type \in {"fast.turn", "fast.sentence"}
             PROVE  log'[i].lane \in Lanes /\ log'[i].gen <= gens'[log'[i].lane]
  BY DEF GensPast
<1>1. CASE i \in DOMAIN log
  <2>1. log'[i] = log[i] /\ log[i] \in E!Event
    BY <1>1 DEF Grown, LogTypes
  <2>2. log[i].gen \in Nat
    BY <2>1 DEF E!Event
  <2>3. log[i].lane \in Lanes /\ log[i].gen <= gens[log[i].lane] /\ gens[log[i].lane] \in Nat
    BY <1>1, <2>1 DEF GensPast, LogTypes
  <2> QED
    BY <2>1, <2>2, <2>3
<1>2. CASE i \notin DOMAIN log
  BY <1>2 DEF Grown
<1> QED
  BY <1>1, <1>2

LEMMA JobRests ==
    ASSUME NEW l \in Lanes, log' = log, job'[l] = job[l], gens'[l] = gens[l], JobInv(l)
    PROVE  JobInv(l)'
BY DEF JobInv, Asks, Tells, HasEvent, Undelivered

LEMMA LineRests ==
    ASSUME NEW v \in E!Verbatim, log' = log, line'[v] = line[v], LineInv(v)
    PROVE  LineInv(v)'
BY DEF LineInv, IsLine, HasEvent, Undelivered

(* One event. *)
LEMMA LogAppends ==
    ASSUME LogTypes, LogInv(log), NEW e \in E!Event, Fresh(log, e), log' = Append(log, e),
           Follows(Append(log, e), Len(log) + 1)
    PROVE  /\ LogInv(log') /\ Grown({e}) /\ log' \in Seq(E!Event)
           /\ Len(log) + 1 \in DOMAIN log' /\ log'[Len(log) + 1] = e
<1>1. /\ <<e>> \in Seq(E!Event) /\ DOMAIN <<e>> = {1} /\ <<e>>[1] = e
      /\ log' = log \o <<e>> /\ log \in Seq(E!Event)
  BY DEF LogTypes
<1>2. /\ OneTurn(<<e>>) /\ OneSentence(<<e>>)
      /\ OneOf(<<e>>, "speak.released") /\ OneOf(<<e>>, "utt.delivered")
  BY <1>1 DEF OneTurn, OneSentence, OneOf
<1>3. LogInv(log')
  BY <1>1, <1>2, LogGrows
<1>4. log' \in Seq(E!Event) /\ Len(log) + 1 \in DOMAIN log' /\ log'[Len(log) + 1] = e
  BY <1>1
<1>5. Grown({e})
  <2>1. {<<e>>[k] : k \in DOMAIN <<e>>} = {e}
    BY <1>1
  <2> QED
    BY <1>1, <2>1, LogOnward
<1> QED
  BY <1>3, <1>4, <1>5

LEMMA AtTheEnd == LogTypes => Len(log) \in Nat /\ \A e : Append(log, e)[Len(log) + 1] = e
BY DEF LogTypes

-----------------------------------------------------------------------------
(* A lane's steps. *)

LEMMA IdleWork == E!NoJob \in JobTypes /\ E!NoJob.phase = "idle"
<1>1. <<>> \in Seq(Nat)
  OBVIOUS
<1> QED
  BY <1>1 DEF E!NoJob, JobTypes

LEMMA AskedWork ==
    ASSUME NEW n \in Nat
    PROVE  LET a == [E!NoJob EXCEPT !.phase = "asked", !.request = n]
           IN  a \in JobTypes /\ a.phase = "asked" /\ a.request = n
BY IdleWork DEF JobTypes

LEMMA RetryWork ==
    ASSUME NEW n \in Nat, NEW j \in JobTypes
    PROVE  LET a == [[j EXCEPT !.tries = 1] EXCEPT !.call = n]
           IN  a \in JobTypes /\ a.phase = j.phase /\ a.request = j.request
BY DEF JobTypes

LEMMA ChainInit == E!Init => ChainInv
<1> SUFFICES ASSUME E!Init PROVE ChainInv
  OBVIOUS
<1>1. LogTypes
  BY IdleWork DEF E!Init, LogTypes, LineTypes
<1>2. DOMAIN log = {}
  BY DEF E!Init
<1>3. LogInv(log) /\ GensPast
  BY <1>2 DEF LogInv, OneTurn, OneSentence, OneOf, GensPast
<1>4. \A l \in Lanes : JobInv(l)
  BY IdleWork DEF E!Init, JobInv
<1>5. \A v \in E!Verbatim : LineInv(v)
  BY DEF E!Init, LineInv
<1> QED
  BY <1>1, <1>3, <1>4, <1>5 DEF ChainInv

LEMMA RequestStep ==
    ASSUME LogConstants, ChainInv, NEW l \in Lanes, E!Request(l)
    PROVE  ChainInv'
<1> DEFINE e == E!Blank("fast.request", l, gens'[l], {})
           begun == [E!NoJob EXCEPT !.phase = "asked", !.request = E!Last + 1]
<1>1. /\ LogTypes /\ LogInv(log) /\ log' = Append(log, e) /\ line' = line
      /\ job' = [job EXCEPT ![l] = begun] /\ gens' = [gens EXCEPT ![l] = @ + 1]
  BY DEF ChainInv, E!Request
<1>2. begun \in JobTypes /\ begun.phase = "asked" /\ begun.request = Len(log) + 1
  <2>1. E!Last + 1 \in Nat /\ E!Last = Len(log)
    BY <1>1, AtTheEnd DEF E!Last
  <2> QED
    BY <2>1, AskedWork
<1> HIDE DEF begun
<1>3. /\ gens[l] \in Nat /\ gens'[l] = gens[l] + 1 /\ gens'[l] \in Nat
      /\ gens' \in [Lanes -> Nat]
      /\ \A m \in Lanes : m # l => gens'[m] = gens[m] /\ job'[m] = job[m]
      /\ \A m \in Lanes : gens[m] <= gens'[m] /\ gens'[m] \in Nat
      /\ job'[l] = begun
  BY <1>1 DEF LogTypes
<1>4. /\ e \in E!Event /\ e.type = "fast.request" /\ e.lane = l /\ e.gen = gens'[l]
  BY <1>3, BlankEvent DEF LogConstants
<1> HIDE DEF e
<1>5. Fresh(log, e)
  BY <1>4 DEF Fresh
<1>6. Follows(Append(log, e), Len(log) + 1)
  BY <1>1, <1>4, AtTheEnd DEF Follows
<1>7. /\ LogInv(log') /\ Grown({e}) /\ log' \in Seq(E!Event)
      /\ Len(log) + 1 \in DOMAIN log' /\ log'[Len(log) + 1] = e
  BY <1>1, <1>4, <1>5, <1>6, LogAppends
<1>8. LogTypes'
  BY <1>1, <1>2, <1>3, <1>7 DEF LogTypes
<1>9. GensPast'
  BY <1>1, <1>3, <1>4, <1>7, PastGrows DEF ChainInv
<1>10. ASSUME NEW m \in Lanes PROVE JobInv(m)'
  <2>1. CASE m # l
    <3>1. JobInv(m) /\ job'[m] = job[m] /\ gens'[m] = gens[m]
      BY <1>3, <2>1 DEF ChainInv
    <3> QED
      BY <1>4, <1>7, <3>1, JobGrows
  <2>2. CASE m = l
    <3>1. \A i \in DOMAIN log :
             log[i].type \in {"fast.turn", "fast.sentence"} /\ log[i].lane = l
               => log[i].gen # gens'[l]
      <4> TAKE i \in DOMAIN log
      <4>1. log[i].gen \in Nat
        <5>1. log[i] \in E!Event
          BY <1>1 DEF LogTypes
        <5> QED
          BY <5>1 DEF E!Event
      <4> QED
        BY <1>3, <4>1 DEF ChainInv, GensPast
    <3>2. Asks(l)'
      BY <1>2, <1>3, <1>4, <1>7, <3>1 DEF Asks, HasEvent, Grown
    <3> QED
      BY <1>2, <1>3, <2>2, <3>2 DEF JobInv
  <2> QED
    BY <2>1, <2>2
<1>11. ASSUME NEW v \in E!Verbatim PROVE LineInv(v)'
  <2>1. LineInv(v) /\ line'[v] = line[v]
    BY <1>1 DEF ChainInv
  <2> QED
    BY <1>4, <1>7, <2>1, LineGrows
<1> QED
  BY <1>7, <1>8, <1>9, <1>10, <1>11 DEF ChainInv

(* The record of an attempt, with which the generation goes on or ends. *)
LEMMA RecordStep ==
    ASSUME LogConstants, ChainInv, NEW l \in Lanes, NEW r \in Responses \cup {None}, NEW j,
           job[l].phase = "asked", log' = Append(log, E!Recorded(l, r)),
           job' = [job EXCEPT ![l] = j], gens' = gens, line' = line,
           j = E!NoJob \/ j = [[job[l] EXCEPT !.tries = 1] EXCEPT !.call = E!Last + 1]
    PROVE  ChainInv'
<1> DEFINE e == E!Recorded(l, r)
<1>1. LogTypes /\ LogInv(log) /\ Asks(l) /\ JobInv(l) /\ job[l] \in JobTypes /\ GensPast
  BY DEF ChainInv, JobInv, LogTypes
<1>2. job[l].request # 0
  BY <1>1 DEF Asks, HasEvent, LogTypes
<1>3. e \in E!Event /\ e.type = "llm.call" /\ log' = Append(log, e)
  BY <1>1, <1>2, RecordEvent
<1> HIDE DEF e
<1>4. Fresh(log, e)
  BY <1>3 DEF Fresh
<1>5. Follows(Append(log, e), Len(log) + 1)
  BY <1>1, <1>3, AtTheEnd DEF Follows
<1>6. LogInv(log') /\ Grown({e}) /\ log' \in Seq(E!Event)
  BY <1>1, <1>3, <1>4, <1>5, LogAppends
<1>7. /\ j \in JobTypes
      /\ j.phase = "idle" \/ (j.phase = "asked" /\ j.request = job[l].request)
  <2>1. CASE j = E!NoJob
    BY <2>1, IdleWork
  <2>2. CASE j = [[job[l] EXCEPT !.tries = 1] EXCEPT !.call = E!Last + 1]
    <3>1. E!Last + 1 \in Nat
      BY <1>1, AtTheEnd DEF E!Last
    <3> QED
      BY <1>1, <2>2, <3>1, RetryWork
  <2> QED
    BY <2>1, <2>2
<1>8. job'[l] = j /\ \A m \in Lanes : m # l => job'[m] = job[m]
  BY <1>1 DEF LogTypes
<1>9. LogTypes'
  BY <1>1, <1>6, <1>7 DEF LogTypes
<1>10. GensPast'
  <2>1. \A m \in Lanes : gens[m] <= gens'[m] /\ gens'[m] \in Nat
    BY <1>1 DEF LogTypes
  <2> QED
    BY <1>1, <1>3, <1>6, <2>1, PastGrows
<1>11. ASSUME NEW m \in Lanes PROVE JobInv(m)'
  <2>1. CASE m # l
    <3>1. JobInv(m) /\ job'[m] = job[m] /\ gens'[m] = gens[m]
      BY <1>8, <2>1 DEF ChainInv
    <3> QED
      BY <1>3, <1>6, <3>1, JobGrows
  <2>2. CASE m = l
    <3>1. j.request = job[l].request => Asks(l)'
      BY <1>1, <1>3, <1>6, <1>8 DEF Asks, HasEvent, Grown
    <3> QED
      BY <1>7, <1>8, <2>2, <3>1 DEF JobInv
  <2> QED
    BY <2>1, <2>2
<1>12. ASSUME NEW v \in E!Verbatim PROVE LineInv(v)'
  <2>1. LineInv(v) /\ line'[v] = line[v]
    BY DEF ChainInv
  <2> QED
    BY <1>3, <1>6, <2>1, LineGrows
<1> QED
  BY <1>6, <1>9, <1>10, <1>11, <1>12 DEF ChainInv

(* A step of a lane that writes nothing. *)
LEMMA QuietStep ==
    ASSUME ChainInv, NEW l \in Lanes, NEW j \in JobTypes, log' = log, gens' = gens, line' = line,
           job' = [job EXCEPT ![l] = j],
           \/ j.phase = "idle"
           \/ /\ job[l].phase \in {"floor", "speaking"} /\ j.phase \in {"floor", "speaking"}
              /\ j.lines = job[l].lines
    PROVE  ChainInv'
<1>1. LogTypes /\ LogInv(log) /\ JobInv(l) /\ GensPast
  BY DEF ChainInv
<1>2. job'[l] = j /\ \A m \in Lanes : m # l => job'[m] = job[m]
  BY <1>1 DEF LogTypes
<1>3. LogTypes' /\ LogInv(log') /\ GensPast'
  BY <1>1 DEF LogTypes, GensPast
<1>4. ASSUME NEW m \in Lanes PROVE JobInv(m)'
  <2>1. CASE m # l
    <3>1. JobInv(m) /\ job'[m] = job[m] /\ gens'[m] = gens[m]
      BY <1>2, <2>1 DEF ChainInv
    <3> QED
      BY <3>1, JobRests
  <2>2. CASE m = l /\ j.phase = "idle"
    BY <1>2, <2>2 DEF JobInv
  <2>3. CASE m = l /\ j.phase \in {"floor", "speaking"}
    BY <1>1, <1>2, <2>3 DEF JobInv, Tells, HasEvent, Undelivered
  <2> QED
    BY <2>1, <2>2, <2>3
<1>5. ASSUME NEW v \in E!Verbatim PROVE LineInv(v)'
  <2>1. LineInv(v) /\ line'[v] = line[v]
    BY DEF ChainInv
  <2> QED
    BY <2>1, LineRests
<1> QED
  BY <1>3, <1>4, <1>5 DEF ChainInv

(* What a step adds is cited by nothing that was delivered before. *)
LEMMA NewUndelivered ==
    ASSUME LogTypes, LogInv(log), NEW s \in Nat, s > Len(log), NEW i \in DOMAIN log,
           log[i].type = "utt.delivered"
    PROVE  s \notin log[i].cites
<1>1. i \in 1..Len(log) /\ Len(log) \in Nat /\ DeliveryFollows(log, i)
  BY DEF LogTypes, LogInv, Follows
<1> QED
  BY <1>1 DEF DeliveryFollows

IsAnswer(e, l, r) ==
    /\ e \in E!Event /\ e.type = "llm.call" /\ e.lane = l /\ e.gen = gens[l]
    /\ e.response = r

AreLines(lines, l, q) ==
    /\ lines \in Seq(E!Event) /\ DOMAIN lines = DOMAIN q
    /\ \A n \in DOMAIN q :
          /\ lines[n].type = "fast.sentence" /\ lines[n].lane = l
          /\ lines[n].gen = gens[l] /\ lines[n].cites = {E!Last + 2}
          /\ lines[n].text = q[n] /\ lines[n].utt = <<gens[l], n>>

(* The answer, the turn and its sentences follow each other in the log. *)
TurnWritten(l, r, e, t, lines, adds) ==
    /\ ItemsOf[r] \in Seq(E!Texts)
    /\ IsAnswer(e, l, r) /\ IsTurn(t, l, ItemsOf[r]) /\ AreLines(lines, l, ItemsOf[r])
    /\ log' = (log \o <<e, t>>) \o lines
    /\ e \in adds /\ t \in adds /\ \A n \in DOMAIN ItemsOf[r] : lines[n] \in adds

LEMMA TurnLog ==
    ASSUME LogTypes, LogInv(log), NEW l \in Lanes, Asks(l), NEW r \in Responses,
           NEW e, NEW t, NEW lines, NEW adds, TurnWritten(l, r, e, t, lines, adds)
    PROVE  /\ LogInv(log') /\ log' \in Seq(E!Event) /\ Grown(adds)
           /\ \A n \in DOMAIN ItemsOf[r] :
                 Len(log) + 2 + n \in DOMAIN log' /\ log'[Len(log) + 2 + n] = lines[n]
<1> DEFINE q == ItemsOf[r]
<1> /\ q \in Seq(E!Texts) /\ log' = (log \o <<e, t>>) \o lines
    /\ e \in adds /\ t \in adds /\ \A n \in DOMAIN q : lines[n] \in adds
    /\ gens[l] \in Nat /\ Len(log) \in Nat
  BY DEF TurnWritten, LogTypes
<1> DEFINE pair == <<e, t>>
           more == pair \o lines
           longer == log \o more
           size == Len(log)
<1>0. /\ e \in E!Event /\ e.type = "llm.call" /\ e.lane = l /\ e.gen = gens[l]
      /\ e.response = r
      /\ t \in E!Event /\ t.type = "fast.turn" /\ t.lane = l /\ t.gen = gens[l]
      /\ t.items = q /\ t.cites = {job[l].request, Len(log) + 1}
      /\ lines \in Seq(E!Event) /\ DOMAIN lines = DOMAIN q
      /\ \A n \in DOMAIN q :
            /\ lines[n].type = "fast.sentence" /\ lines[n].lane = l
            /\ lines[n].gen = gens[l] /\ lines[n].cites = {Len(log) + 2}
            /\ lines[n].text = q[n] /\ lines[n].utt = <<gens[l], n>>
  BY DEF TurnWritten, IsAnswer, IsTurn, AreLines, E!Last
<1>00. q = ItemsOf[r]
  OBVIOUS
<1> HIDE DEF q
<1>1. /\ pair \in Seq(E!Event) /\ Len(pair) = 2 /\ DOMAIN pair = {1, 2}
      /\ pair[1] = e /\ pair[2] = t /\ log \in Seq(E!Event)
  BY <1>0 DEF LogTypes
<1>2. /\ more \in Seq(E!Event) /\ more[1] = e /\ more[2] = t /\ 1 \in DOMAIN more /\ 2 \in DOMAIN more
      /\ \A n \in DOMAIN q : 2 + n \in DOMAIN more /\ more[2 + n] = lines[n]
      /\ \A k \in DOMAIN more : k = 1 \/ k = 2 \/ \E n \in DOMAIN q : k = 2 + n
  <2> HIDE DEF pair
  <2>1. /\ more \in Seq(E!Event)
        /\ \A i \in DOMAIN pair : more[i] = pair[i] /\ i \in DOMAIN more
        /\ \A n \in DOMAIN lines : more[Len(pair) + n] = lines[n] /\ Len(pair) + n \in DOMAIN more
        /\ \A k \in DOMAIN more : k \in DOMAIN pair \/ \E n \in DOMAIN lines : k = Len(pair) + n
    BY <1>0, <1>1, LogExtends
  <2> HIDE DEF more
  <2> QED
    BY <1>0, <1>1, <2>1
<1>3. log' = longer
  BY <1>0, <1>1, ConcatAssociative
<1> HIDE DEF more, pair
<1>4. /\ longer \in Seq(E!Event) /\ DOMAIN log = 1..Len(log)
      /\ \A i \in DOMAIN log : longer[i] = log[i] /\ i \in DOMAIN longer
      /\ \A k \in DOMAIN more : longer[Len(log) + k] = more[k] /\ Len(log) + k \in DOMAIN longer
      /\ \A i \in DOMAIN longer : i \in DOMAIN log \/ \E k \in DOMAIN more : i = Len(log) + k
  BY <1>1, <1>2, LogExtends
<1> HIDE DEF longer
<1>5. size \in Nat /\ \A n \in DOMAIN q : n \in Nat /\ n > 0
  <2>1. DOMAIN q = 1..Len(q) /\ Len(q) \in Nat
    OBVIOUS
  <2> QED
    BY <2>1
<1>6. /\ job[l].request \in 1..Len(log) /\ longer[job[l].request] = log[job[l].request]
      /\ log[job[l].request].type = "fast.request"
      /\ log[job[l].request].lane = l /\ log[job[l].request].gen = gens[l]
  BY <1>4 DEF Asks, HasEvent
<1>7. /\ longer[Len(log) + 1] = e /\ longer[Len(log) + 2] = t
      /\ \A n \in DOMAIN q : longer[Len(log) + 2 + n] = lines[n]
                             /\ Len(log) + 2 + n \in DOMAIN longer
  <2>1. longer[Len(log) + 1] = e /\ longer[Len(log) + 2] = t
    BY <1>2, <1>4
  <2>2. ASSUME NEW n \in DOMAIN q
        PROVE  longer[Len(log) + 2 + n] = lines[n] /\ Len(log) + 2 + n \in DOMAIN longer
    <3>1. Len(log) + (2 + n) = Len(log) + 2 + n
      <4> n \in Nat /\ Len(log) \in Nat
        BY <1>5
      <4> QED
        OBVIOUS
    <3>2. 2 + n \in DOMAIN more /\ more[2 + n] = lines[n]
      BY <1>2
    <3> QED
      BY <1>4, <3>1, <3>2
  <2> QED
    BY <2>1, <2>2
<1>8. Follows(longer, Len(log) + 1)
  BY <1>0, <1>7 DEF Follows
<1>9. Follows(longer, Len(log) + 2)
  <2>1. /\ job[l].request \in 1..(Len(log) + 2 - 1)
        /\ Len(log) + 1 \in 1..(Len(log) + 2 - 1)
    BY <1>6
  <2>2. /\ longer[Len(log) + 2].cites = {job[l].request, Len(log) + 1}
        /\ longer[Len(log) + 2].lane = l /\ longer[Len(log) + 2].gen = gens[l]
        /\ longer[Len(log) + 2].items = q
        /\ longer[Len(log) + 1].type = "llm.call" /\ longer[Len(log) + 1].lane = l
        /\ longer[Len(log) + 1].gen = gens[l] /\ longer[Len(log) + 1].response = r
    BY <1>0, <1>7
  <2>3. TurnFollows(longer, Len(log) + 2)
    <3> DEFINE i == Len(log) + 2
               a == job[l].request
               c == Len(log) + 1
    <3>1. /\ a \in 1..(i - 1) /\ c \in 1..(i - 1) /\ longer[i].cites = {a, c}
          /\ longer[a].type = "fast.request" /\ longer[a].lane = longer[i].lane /\ longer[a].gen = longer[i].gen
          /\ longer[c].type = "llm.call" /\ longer[c].lane = longer[i].lane /\ longer[c].gen = longer[i].gen
          /\ longer[c].response \in Responses /\ longer[i].items = ItemsOf[longer[c].response]
      BY <1>00, <1>6, <2>1, <2>2
    <3> HIDE DEF i, a, c
    <3>2. TurnFollows(longer, i)
      BY <3>1 DEF TurnFollows
    <3> QED
      BY <3>2 DEF i
  <2> QED
    BY <1>0, <1>7, <2>3 DEF Follows
<1>10. ASSUME NEW n \in DOMAIN q PROVE Follows(longer, Len(log) + 2 + n)
  <2>1. Len(log) + 2 \in 1..(Len(log) + 2 + n - 1)
    <3> n \in Nat /\ n > 0 /\ Len(log) \in Nat
      BY <1>5
    <3> QED
      OBVIOUS
  <2>2. /\ longer[Len(log) + 2 + n].cites = {Len(log) + 2}
        /\ longer[Len(log) + 2 + n].type = "fast.sentence"
        /\ longer[Len(log) + 2 + n].lane = l /\ longer[Len(log) + 2 + n].gen = gens[l]
        /\ longer[Len(log) + 2 + n].utt = <<gens[l], n>>
        /\ longer[Len(log) + 2 + n].text = q[n]
        /\ longer[Len(log) + 2].type = "fast.turn" /\ longer[Len(log) + 2].lane = l
        /\ longer[Len(log) + 2].gen = gens[l] /\ longer[Len(log) + 2].items = q
    BY <1>0, <1>7
  <2>3. SentenceFollows(longer, Len(log) + 2 + n)
    BY <2>1, <2>2 DEF SentenceFollows
  <2> QED
    BY <2>2, <2>3 DEF Follows
<1>11. Fresh(log, e)
  BY <1>0 DEF Fresh
<1>12. Fresh(log, t)
  BY <1>0 DEF Fresh, Asks
<1>13. ASSUME NEW n \in DOMAIN q PROVE Fresh(log, lines[n])
  <2> SUFFICES ASSUME NEW i \in DOMAIN log, log[i].type = "fast.sentence", log[i].lane = l
               PROVE  log[i].utt # <<gens[l], n>>
    BY <1>0 DEF Fresh
  <2>1. log[i].gen # gens[l]
    BY DEF Asks
  <2>2. SentenceFollows(log, i)
    BY DEF LogInv, Follows
  <2>3. PICK k : log[i].utt = <<log[i].gen, k>>
    BY <2>2 DEF SentenceFollows
  <2> QED
    BY <2>1, <2>3
<1>14. \A k \in DOMAIN more : Follows(log \o more, Len(log) + k) /\ Fresh(log, more[k])
  <2> TAKE k \in DOMAIN more
  <2>1. CASE k = 1
    BY <1>2, <1>8, <1>11, <2>1 DEF longer
  <2>2. CASE k = 2
    BY <1>2, <1>9, <1>12, <2>2 DEF longer
  <2>3. ASSUME NEW n \in DOMAIN q, k = 2 + n
        PROVE  Follows(log \o more, Len(log) + k) /\ Fresh(log, more[k])
    <3>1. Len(log) + k = Len(log) + 2 + n
      <4> n \in Nat /\ Len(log) \in Nat
        BY <1>5
      <4> QED
        BY <2>3
    <3>2. more[k] = lines[n]
      BY <1>0, <1>2, <2>3
    <3> QED
      BY <1>10, <1>13, <3>1, <3>2 DEF longer
  <2> QED
    BY <1>2, <2>1, <2>2, <2>3
<1>15. /\ \A k \in DOMAIN more : more[k].type = "fast.turn" => k = 2
       /\ \A k \in DOMAIN more : more[k].type \notin {"speak.released", "utt.delivered"}
       /\ \A k \in DOMAIN more : more[k].type = "fast.sentence" =>
             \E n \in DOMAIN q : k = 2 + n /\ more[k].utt = <<gens[l], n>>
  <2> SUFFICES ASSUME NEW k \in DOMAIN more
               PROVE  /\ more[k].type = "fast.turn" => k = 2
                      /\ more[k].type \notin {"speak.released", "utt.delivered"}
                      /\ more[k].type = "fast.sentence" =>
                            \E n \in DOMAIN q : k = 2 + n /\ more[k].utt = <<gens[l], n>>
    OBVIOUS
  <2>1. CASE k = 1
    BY <1>0, <1>2, <2>1
  <2>2. CASE k = 2
    BY <1>0, <1>2, <2>2
  <2>3. ASSUME NEW n \in DOMAIN q, k = 2 + n
        PROVE  more[k].type = "fast.sentence" /\ more[k].utt = <<gens[l], n>>
    BY <1>0, <1>2, <2>3
  <2> QED
    BY <1>2, <2>1, <2>2, <2>3
<1>16. OneTurn(more)
  BY <1>15 DEF OneTurn
<1>17. OneSentence(more)
  <2> SUFFICES ASSUME NEW i \in DOMAIN more, NEW k \in DOMAIN more,
                      more[i].type = "fast.sentence", more[k].type = "fast.sentence",
                      more[i].utt = more[k].utt
               PROVE  i = k
    BY DEF OneSentence
  <2>1. PICK m \in DOMAIN q : i = 2 + m /\ more[i].utt = <<gens[l], m>>
    BY <1>15
  <2>2. PICK n \in DOMAIN q : k = 2 + n /\ more[k].utt = <<gens[l], n>>
    BY <1>15
  <2> QED
    BY <2>1, <2>2
<1>18. OneOf(more, "speak.released") /\ OneOf(more, "utt.delivered")
  BY <1>15 DEF OneOf
<1>19. LogInv(longer)
  BY <1>1, <1>2, <1>14, <1>16, <1>17, <1>18, LogGrows DEF longer
<1>20. Grown(adds)
  <2>1. Grown({more[k] : k \in DOMAIN more})
    BY <1>2, <1>3, LogOnward DEF longer
  <2>2. \A k \in DOMAIN more : more[k] \in adds
    <3> TAKE k \in DOMAIN more
    <3>1. CASE k = 1 \/ k = 2
      BY <1>2, <3>1
    <3>2. ASSUME NEW n \in DOMAIN q, k = 2 + n
          PROVE  more[k] = lines[n]
      BY <1>2, <3>2
    <3> QED
      BY <1>2, <3>1, <3>2
  <2> QED
    BY <2>1, <2>2 DEF Grown
<1> QED
  BY <1>00, <1>3, <1>4, <1>7, <1>19, <1>20

(* The answer, its turn and the turn's sentences. *)
LEMMA TurnStep ==
    ASSUME LogConstants, ChainInv, NEW l \in Lanes, NEW r \in Responses, E!Turn(l, r)
    PROVE  ChainInv'
<1> DEFINE e == E!Recorded(l, r)
           q == ItemsOf[r]
           t == [E!Blank("fast.turn", l, gens[l], {job[l].request, E!Last + 1})
                   EXCEPT !.items = q]
           lines == [n \in DOMAIN q |-> E!Sentence(l, E!Last + 2, n, q[n])]
           toSay == [n \in DOMAIN lines |-> E!Last + 2 + n]
           j == IF lines = <<>> THEN E!NoJob
                ELSE [job[l] EXCEPT !.phase = "floor", !.lines = toSay]
           more == {e, t} \cup {lines[n] : n \in DOMAIN q}
<1>1. /\ LogTypes /\ LogInv(log) /\ Asks(l) /\ JobInv(l) /\ job[l] \in JobTypes /\ GensPast
      /\ Len(log) \in Nat /\ E!Last = Len(log) /\ gens[l] \in Nat /\ log \in Seq(E!Event)
  BY DEF ChainInv, JobInv, LogTypes, E!Turn, E!Last
<1>2. /\ log' = (log \o <<e, t>>) \o lines /\ job' = [job EXCEPT ![l] = j]
      /\ gens' = gens /\ line' = line
  BY DEF E!Turn, E!CallEvent
<1>3. job[l].request # 0
  BY <1>1 DEF Asks, HasEvent
<1>4. q \in Seq(E!Texts) /\ Len(q) \in Nat /\ DOMAIN q = 1..Len(q)
      /\ \A n \in DOMAIN q : q[n] \in E!Texts /\ n \in Nat
  <2>1. q \in Seq(Lines)
    BY DEF LogConstants
  <2> HIDE DEF q
  <2>2. q \in Seq(E!Texts)
    BY <2>1 DEF E!Texts
  <2> QED
    BY <2>2
<1>5. /\ e \in E!Event /\ e.type = "llm.call" /\ e.lane = l /\ e.gen = gens[l]
      /\ e.response = r
  BY <1>1, <1>3, RecordEvent
<1>6. IsTurn(t, l, q)
  <2> HIDE DEF q
  <2>1. job[l].request # 0 /\ q \in Seq(E!Texts) /\ LogTypes
    BY <1>1, <1>3, <1>4
  <2> QED
    BY <2>1, TurnEvent
<1>7. ASSUME NEW n \in DOMAIN q
      PROVE  /\ lines[n] \in E!Event /\ lines[n].type = "fast.sentence"
             /\ lines[n].lane = l /\ lines[n].gen = gens[l]
             /\ lines[n].cites = {E!Last + 2} /\ lines[n].text = q[n]
             /\ lines[n].utt = <<gens[l], n>>
  <2>1. lines[n] = E!Sentence(l, E!Last + 2, n, q[n])
    OBVIOUS
  <2>2. E!Last + 2 \in Nat \ {0}
    BY <1>1
  <2> HIDE DEF lines, q
  <2> QED
    BY <1>1, <1>4, <1>7, <2>1, <2>2, SentenceEvent
<1>8. /\ DOMAIN lines = DOMAIN q /\ lines \in Seq(E!Event)
      /\ lines = <<>> \/ \E n \in Nat : n \in DOMAIN lines
  <2>1. DOMAIN lines = DOMAIN q
    OBVIOUS
  <2>2. lines \in [1..Len(q) -> E!Event]
    BY <1>4, <1>7
  <2> HIDE DEF lines
  <2>3. lines \in Seq(E!Event)
    BY <1>4, <2>2
  <2>4. lines = <<>> \/ 1 \in DOMAIN lines
    BY <2>3
  <2> QED
    BY <2>1, <2>3, <2>4
<1>9. DOMAIN toSay = DOMAIN q /\ \A n \in DOMAIN q : toSay[n] = E!Last + 2 + n
  BY <1>8
<1>10. toSay \in Seq(Nat)
  <2>1. toSay \in [1..Len(q) -> Nat]
    BY <1>1, <1>4, <1>8
  <2> QED
    BY <1>4, <2>1
<1> HIDE DEF e, t, q, lines, toSay
<1>11. /\ j \in JobTypes
       /\ \/ j.phase = "idle"
          \/ j.phase = "floor" /\ j.lines = toSay /\ toSay # <<>>
  <2>1. CASE lines = <<>>
    BY <2>1, IdleWork
  <2>2. CASE lines # <<>>
    <3>1. toSay # <<>>
      BY <1>8, <1>9, <2>2
    <3> QED
      BY <1>1, <1>10, <2>2, <3>1 DEF JobTypes
  <2> QED
    BY <2>1, <2>2
<1> HIDE DEF j
<1>12. /\ LogInv(log') /\ log' \in Seq(E!Event) /\ Grown(more)
       /\ \A n \in DOMAIN q :
             Len(log) + 2 + n \in DOMAIN log' /\ log'[Len(log) + 2 + n] = lines[n]
  <2>1. q = ItemsOf[r] /\ q \in Seq(E!Texts)
    BY <1>4 DEF q
  <2>2. IsAnswer(e, l, r)
    BY <1>5 DEF IsAnswer
  <2>3. AreLines(lines, l, q)
    BY <1>7, <1>8 DEF AreLines
  <2>4. e \in more /\ t \in more /\ \A n \in DOMAIN q : lines[n] \in more
    OBVIOUS
  <2>5. TurnWritten(l, r, e, t, lines, more)
    BY <1>2, <1>6, <2>1, <2>2, <2>3, <2>4 DEF TurnWritten
  <2> HIDE DEF more
  <2> QED
    BY <1>1, <2>1, <2>5, TurnLog
<1>13. \A x \in more : /\ x.type \in {"llm.call", "fast.turn", "fast.sentence"}
                    /\ x.lane = l /\ x.gen = gens[l]
  BY <1>5, <1>6, <1>7 DEF IsTurn
<1> HIDE DEF more
<1>14. job'[l] = j /\ \A m \in Lanes : m # l => job'[m] = job[m]
  BY <1>1, <1>2 DEF LogTypes
<1>15. LogTypes'
  BY <1>1, <1>2, <1>11, <1>12 DEF LogTypes
<1>16. GensPast'
  <2>1. \A m \in Lanes : gens[m] <= gens'[m] /\ gens'[m] \in Nat
    BY <1>1, <1>2 DEF LogTypes
  <2>2. \A x \in more : x.type \in {"fast.turn", "fast.sentence"} =>
                        x.lane \in Lanes /\ x.gen <= gens'[x.lane]
    BY <1>1, <1>2, <1>13
  <2> QED
    BY <1>1, <1>12, <2>1, <2>2, PastGrows
<1>17. ASSUME NEW m \in Lanes PROVE JobInv(m)'
  <2>1. CASE m # l
    <3>1. JobInv(m) /\ job'[m] = job[m] /\ gens'[m] = gens[m]
      BY <1>2, <1>14, <2>1 DEF ChainInv
    <3> QED
      BY <1>12, <1>13, <2>1, <3>1, JobGrows
  <2>2. CASE m = l /\ j.phase = "idle"
    BY <1>14, <2>2 DEF JobInv
  <2>3. CASE m = l /\ j.phase = "floor" /\ j.lines = toSay /\ toSay # <<>>
    <3>1. ASSUME NEW n \in DOMAIN q
          PROVE  /\ HasEvent(log', toSay[n], "fast.sentence") /\ log'[toSay[n]].lane = l
                 /\ log'[toSay[n]].gen = gens[l]
                 /\ \A i \in DOMAIN log' :
                       log'[i].type = "utt.delivered" => toSay[n] \notin log'[i].cites
      <4>1. /\ toSay[n] \in DOMAIN log' /\ log'[toSay[n]] = lines[n]
            /\ toSay[n] \in Nat /\ toSay[n] > Len(log)
        BY <1>1, <1>4, <1>9, <1>12
      <4>2. ASSUME NEW i \in DOMAIN log', log'[i].type = "utt.delivered"
            PROVE  toSay[n] \notin log'[i].cites
        <5>1. i \in DOMAIN log /\ log'[i] = log[i]
          BY <1>12, <1>13, <4>2 DEF Grown
        <5> QED
          BY <1>1, <4>1, <4>2, <5>1, NewUndelivered
      <4> QED
        BY <1>7, <4>1, <4>2 DEF HasEvent
    <3>2. ASSUME NEW m1 \in DOMAIN q, NEW n \in DOMAIN q, toSay[m1] = toSay[n]
          PROVE  m1 = n
      <4>1. E!Last + 2 + m1 = E!Last + 2 + n /\ m1 \in Nat /\ n \in Nat /\ E!Last \in Nat
        BY <1>1, <1>4, <1>9, <3>2
      <4> QED
        BY <4>1
    <3>3. Tells(l)'
      BY <1>2, <1>9, <1>14, <2>3, <3>1, <3>2 DEF Tells, Undelivered
    <3> QED
      BY <1>14, <2>3, <3>3 DEF JobInv
  <2> QED
    BY <1>11, <2>1, <2>2, <2>3
<1>18. ASSUME NEW v \in E!Verbatim PROVE LineInv(v)'
  <2>1. LineInv(v) /\ line'[v] = line[v]
    BY <1>2 DEF ChainInv
  <2> QED
    BY <1>12, <1>13, <2>1, LineGrows
<1> QED
  BY <1>12, <1>15, <1>16, <1>17, <1>18 DEF ChainInv

(* A line of the turn is said. *)
LEMMA SayStep ==
    ASSUME LogConstants, ChainInv, NEW l \in Lanes, NEW whole \in BOOLEAN, E!Say(l, whole)
    PROVE  ChainInv'
<1> DEFINE q == job[l].lines
           s == Head(q)
           d == E!Delivered(l, gens[l], s, log[s].utt, log[s].text, whole)
           j == IF Tail(q) = <<>> \/ ~whole THEN E!NoJob ELSE [job[l] EXCEPT !.lines = Tail(job[l].lines)]
<1>1. /\ LogTypes /\ LogInv(log) /\ Tells(l) /\ JobInv(l) /\ job[l] \in JobTypes /\ GensPast
      /\ Len(log) \in Nat /\ log \in Seq(E!Event) /\ q \in Seq(Nat) /\ DOMAIN log = 1..Len(log)
      /\ job[l].phase = "speaking"
  BY DEF ChainInv, JobInv, LogTypes, E!Say, JobTypes
<1>2. /\ log' = Append(log, d) /\ job' = [job EXCEPT ![l] = j]
      /\ gens' = gens /\ line' = line
  <2>1. log' = Append(log, d) /\ gens' = gens /\ line' = line
    BY DEF E!Say
  <2>2. job' = [job EXCEPT ![l] = j]
    BY DEF E!Say
  <2> QED
    BY <2>1, <2>2
<1>3. /\ q # <<>> /\ Len(q) \in Nat \ {0} /\ DOMAIN q = 1..Len(q) /\ s = q[1] /\ 1 \in DOMAIN q
      /\ Tail(q) \in Seq(Nat) /\ DOMAIN Tail(q) = 1..(Len(q) - 1)
      /\ \A n \in DOMAIN Tail(q) : Tail(q)[n] = q[n + 1] /\ n + 1 \in DOMAIN q /\ n + 1 # 1
  BY <1>1 DEF Tells
<1> DEFINE rest == Tail(q)
<1> HIDE DEF rest
<1>4. /\ s \in DOMAIN log /\ log[s].type = "fast.sentence" /\ log[s].lane = l
      /\ log[s].gen = gens[l] /\ Undelivered(s) /\ log[s] \in E!Event /\ s \in Nat \ {0}
      /\ s \in 1..Len(log)
  BY <1>1, <1>3 DEF Tells, HasEvent
<1>5. log[s].utt \in Nat \X Nat /\ log[s].text \in E!Texts \cup {None}
  BY <1>4 DEF E!Event
<1> HIDE DEF s
<1>6. /\ d \in E!Event /\ d.type = "utt.delivered" /\ d.lane = l /\ d.gen = gens[l]
      /\ d.cites = {s} /\ d.utt = log[s].utt /\ d.text = log[s].text
  <2>1. gens[l] \in Nat /\ l \in {"user", "cp"}
    BY <1>1 DEF LogTypes, LogConstants
  <2>2. IsSaid(d, l, gens[l], s, log[s].utt, log[s].text)
    BY <1>4, <1>5, <2>1, SaidEvent
  <2> QED
    BY <2>2 DEF IsSaid
<1> HIDE DEF d
<1>7. Fresh(log, d)
  BY <1>4, <1>6 DEF Fresh, Undelivered
<1>8. Follows(Append(log, d), Len(log) + 1)
  <2> DEFINE longer == Append(log, d)
  <2>1. longer[Len(log) + 1] = d /\ longer[s] = log[s] /\ s \in 1..(Len(log) + 1 - 1)
    BY <1>1, <1>4, <1>6
  <2> HIDE DEF longer
  <2>2. DeliveryFollows(longer, Len(log) + 1)
    BY <1>4, <1>6, <2>1 DEF DeliveryFollows, OfTurn
  <2> QED
    BY <1>6, <2>1, <2>2 DEF Follows, longer
<1>9. LogInv(log') /\ Grown({d}) /\ log' \in Seq(E!Event)
  BY <1>1, <1>2, <1>6, <1>7, <1>8, LogAppends
<1>10. /\ j \in JobTypes
       /\ \/ j.phase = "idle"
          \/ j.phase = "speaking" /\ j.lines = rest /\ rest # <<>>
  <2>1. CASE Tail(q) = <<>> \/ ~whole
    BY <2>1, IdleWork
  <2>2. CASE ~(Tail(q) = <<>> \/ ~whole)
    BY <1>1, <1>3, <2>2 DEF JobTypes, rest
  <2> QED
    BY <2>1, <2>2
<1> HIDE DEF j
<1>11. job'[l] = j /\ \A m \in Lanes : m # l => job'[m] = job[m]
  BY <1>1, <1>2 DEF LogTypes
<1>12. LogTypes'
  BY <1>1, <1>2, <1>9, <1>10 DEF LogTypes
<1>13. GensPast'
  <2>1. \A m \in Lanes : gens[m] <= gens'[m] /\ gens'[m] \in Nat
    BY <1>1, <1>2 DEF LogTypes
  <2> QED
    BY <1>1, <1>6, <1>9, <2>1, PastGrows
<1>14. ASSUME NEW m \in Lanes PROVE JobInv(m)'
  <2>1. CASE m # l
    <3>1. JobInv(m) /\ job'[m] = job[m] /\ gens'[m] = gens[m]
      BY <1>2, <1>11, <2>1 DEF ChainInv
    <3>2. job[m].phase \in {"floor", "speaking"} =>
             \A n \in DOMAIN job[m].lines : job[m].lines[n] # s
      BY <1>4, <2>1, <3>1 DEF JobInv, Tells
    <3> QED
      BY <1>6, <1>9, <3>1, <3>2, JobGrows
  <2>2. CASE m = l /\ j.phase = "idle"
    BY <1>11, <2>2 DEF JobInv
  <2>3. CASE m = l /\ j.phase = "speaking" /\ j.lines = rest /\ rest # <<>>
    <3>1. ASSUME NEW n \in DOMAIN rest
          PROVE  /\ HasEvent(log', rest[n], "fast.sentence") /\ log'[rest[n]].lane = l
                 /\ log'[rest[n]].gen = gens[l]
                 /\ \A i \in DOMAIN log' :
                       log'[i].type = "utt.delivered" => rest[n] \notin log'[i].cites
      <4>1. rest[n] = q[n + 1] /\ n + 1 \in DOMAIN q /\ n + 1 # 1
        BY <1>3, <3>1 DEF rest
      <4>2. /\ HasEvent(log, rest[n], "fast.sentence") /\ log[rest[n]].lane = l
            /\ log[rest[n]].gen = gens[l] /\ Undelivered(rest[n])
        BY <1>1, <4>1 DEF Tells
      <4>3. rest[n] # s
        BY <1>1, <1>3, <4>1 DEF Tells
      <4> QED
        BY <1>6, <1>9, <4>2, <4>3 DEF HasEvent, Grown, Undelivered
    <3>2. ASSUME NEW m1 \in DOMAIN rest, NEW n \in DOMAIN rest, rest[m1] = rest[n]
          PROVE  m1 = n
      <4>1. m1 \in Nat /\ n \in Nat /\ q[m1 + 1] = q[n + 1]
            /\ m1 + 1 \in DOMAIN q /\ n + 1 \in DOMAIN q
        BY <1>3, <3>2 DEF rest
      <4>2. m1 + 1 = n + 1
        BY <1>1, <4>1 DEF Tells
      <4> QED
        BY <4>1, <4>2
    <3>3. job'[l].lines = rest /\ gens'[l] = gens[l]
      BY <1>2, <1>11, <2>3
    <3>4. Tells(l)'
      BY <2>3, <3>1, <3>2, <3>3 DEF Tells, Undelivered
    <3> QED
      BY <1>11, <2>3, <3>4 DEF JobInv
  <2> QED
    BY <1>10, <2>1, <2>2, <2>3
<1>15. ASSUME NEW v \in E!Verbatim PROVE LineInv(v)'
  <2>1. LineInv(v) /\ line'[v] = line[v]
    BY <1>2 DEF ChainInv
  <2>2. line[v].stage \in {"released", "speaking"} => line[v].last # s
    BY <1>4, <2>1 DEF LineInv, HasEvent
  <2> QED
    BY <1>6, <1>9, <2>1, <2>2, LineGrows
<1> QED
  BY <1>9, <1>12, <1>13, <1>14, <1>15 DEF ChainInv

-----------------------------------------------------------------------------
(* The steps of the Guard's lines. *)

LEMMA LineOnward ==
    ASSUME ChainInv, NEW v \in E!Verbatim, NEW x \in LineTypes, NEW more, Grown(more),
           LogInv(log'), log' \in Seq(E!Event), job' = job, gens' = gens,
           line' = [line EXCEPT ![v] = x], LineInv(v)',
           \A e \in more :
              /\ e.type \notin {"fast.turn", "fast.sentence"}
              /\ e.type = "utt.delivered" =>
                   \A s \in e.cites : HasEvent(log, s, "speak.released")
              /\ \A w \in E!Verbatim :
                    /\ w # v /\ e.type = "speak.released" /\ line[w].stage = "asked" =>
                         line[w].last \notin e.cites
                    /\ w # v /\ e.type = "utt.delivered"
                         /\ line[w].stage \in {"released", "speaking"} =>
                         line[w].last \notin e.cites
    PROVE  ChainInv'
<1>1. LogTypes /\ GensPast /\ \A w \in E!Verbatim : w # v => line'[w] = line[w]
  BY DEF ChainInv, LogTypes
<1>2. LogTypes'
  BY <1>1 DEF LogTypes
<1>3. GensPast'
  <2>1. \A m \in Lanes : gens[m] <= gens'[m] /\ gens'[m] \in Nat
    BY <1>1 DEF LogTypes
  <2> QED
    BY <1>1, <2>1, PastGrows
<1>4. ASSUME NEW l \in Lanes PROVE JobInv(l)'
  <2>1. JobInv(l)
    BY DEF ChainInv
  <2>2. job[l].phase \in {"floor", "speaking"} =>
           \A n \in DOMAIN job[l].lines : HasEvent(log, job[l].lines[n], "fast.sentence")
    BY <2>1 DEF JobInv, Tells
  <2>3. ASSUME NEW e \in more, e.type = "utt.delivered", job[l].phase \in {"floor", "speaking"},
               NEW n \in DOMAIN job[l].lines
        PROVE  job[l].lines[n] \notin e.cites
    BY <2>2, <2>3 DEF HasEvent
  <2> QED
    BY <2>1, <2>3, JobGrows
<1>5. ASSUME NEW w \in E!Verbatim PROVE LineInv(w)'
  <2>1. CASE w # v
    <3>1. LineInv(w) /\ line'[w] = line[w]
      BY <1>1, <2>1 DEF ChainInv
    <3> QED
      BY <2>1, <3>1, LineGrows
  <2>2. CASE w = v
    BY <2>2
  <2> QED
    BY <2>1, <2>2
<1> QED
  BY <1>2, <1>3, <1>4, <1>5 DEF ChainInv

(* A line's step that writes nothing. *)
LEMMA QuietLine ==
    ASSUME ChainInv, NEW v \in E!Verbatim, NEW x \in LineTypes, log' = log, job' = job,
           gens' = gens, line' = [line EXCEPT ![v] = x],
           \/ x.stage = "done"
           \/ x.stage = "speaking" /\ x.last = line[v].last /\ line[v].stage = "released"
    PROVE  ChainInv'
<1>1. LogTypes /\ LineInv(v) /\ line'[v] = x /\ LogInv(log') /\ log' \in Seq(E!Event)
  BY DEF ChainInv, LogTypes
<1>2. Grown({})
  BY DEF Grown
<1>3. LineInv(v)'
  BY <1>1 DEF LineInv, IsLine, HasEvent, Undelivered
<1> QED
  BY <1>1, <1>2, <1>3, LineOnward

LEMMA AskedStep ==
    ASSUME ChainInv, NEW v \in E!Verbatim, E!Asked(v)
    PROVE  ChainInv'
<1> DEFINE e == E!Spoken(v)
           x == [stage |-> "asked", last |-> E!Last + 1]
<1>1. /\ LogTypes /\ LogInv(log) /\ log' = Append(log, e) /\ job' = job /\ gens' = gens
      /\ line' = [line EXCEPT ![v] = x] /\ Len(log) \in Nat /\ DOMAIN log = 1..Len(log)
  BY DEF ChainInv, E!Asked, LogTypes
<1>2. /\ e \in E!Event /\ e.type = "speak.verbatim" /\ e.lane = "cp" /\ e.text = v
      /\ e.cap = E!CapHeld(v) /\ e.kind = E!Kind(v)
  BY SpokenEvent
<1> HIDE DEF e
<1>3. Fresh(log, e)
  BY <1>2 DEF Fresh
<1>4. Follows(Append(log, e), Len(log) + 1)
  BY <1>1, <1>2, AtTheEnd DEF Follows
<1>5. /\ LogInv(log') /\ Grown({e}) /\ log' \in Seq(E!Event)
      /\ Len(log) + 1 \in DOMAIN log' /\ log'[Len(log) + 1] = e
  BY <1>1, <1>2, <1>3, <1>4, LogAppends
<1>6. x \in LineTypes /\ x.stage = "asked" /\ x.last = Len(log) + 1
  BY <1>1 DEF LineTypes, E!Last
<1> HIDE DEF x
<1>7. line'[v] = x
  BY <1>1 DEF LogTypes
<1>8. ASSUME NEW i \in DOMAIN log', log'[i].type = "speak.released"
      PROVE  x.last \notin log'[i].cites
  <2>1. i \in DOMAIN log /\ log'[i] = log[i]
    BY <1>2, <1>5, <1>8 DEF Grown
  <2>2. ReleaseFollows(log, i)
    BY <1>1, <1>8, <2>1 DEF LogInv, Follows
  <2> QED
    BY <1>1, <1>6, <2>1, <2>2 DEF ReleaseFollows
<1>9. LineInv(v)'
  BY <1>2, <1>5, <1>6, <1>7, <1>8 DEF LineInv, IsLine, HasEvent
<1> QED
  BY <1>1, <1>2, <1>5, <1>6, <1>9, LineOnward

LEMMA ReleasedStep ==
    ASSUME LogConstants, ChainInv, NEW v \in E!Verbatim, E!Released(v)
    PROVE  ChainInv'
<1> DEFINE s == line[v].last
           e == E!Release(v, s)
           x == [stage |-> "speaking", last |-> E!Last + 1]
<1>1. /\ LogTypes /\ LogInv(log) /\ log' = Append(log, e) /\ job' = job /\ gens' = gens
      /\ line' = [line EXCEPT ![v] = x] /\ Len(log) \in Nat /\ DOMAIN log = 1..Len(log)
      /\ LineInv(v) /\ line[v].stage = "asked" /\ log \in Seq(E!Event)
  BY DEF ChainInv, E!Released, LogTypes
<1>2. /\ s \in DOMAIN log /\ log[s].type = "speak.verbatim" /\ log[s].text = v
      /\ log[s].lane = "cp" /\ log[s].kind = E!Kind(v) /\ log[s].cap = E!CapHeld(v)
      /\ \A i \in DOMAIN log : log[i].type = "speak.released" => s \notin log[i].cites
      /\ s \in Nat \ {0} /\ s \in 1..Len(log)
  BY <1>1 DEF LineInv, IsLine, HasEvent
<1> HIDE DEF s
<1>3. /\ e \in E!Event /\ e.type = "speak.released" /\ e.lane = "cp" /\ e.cites = {s}
      /\ e.cap = E!CapHeld(v)
      /\ IF E!Kind(v) = "accept" THEN E!CapHeld(v) # None ELSE E!CapHeld(v) = None
  BY <1>2, ReleaseEvent, KindCap
<1> HIDE DEF e
<1>4. Fresh(log, e)
  BY <1>2, <1>3 DEF Fresh
<1>5. Follows(Append(log, e), Len(log) + 1)
  <2> DEFINE longer == Append(log, e)
  <2>1. longer[Len(log) + 1] = e /\ longer[s] = log[s] /\ s \in 1..(Len(log) + 1 - 1)
    BY <1>1, <1>2, <1>3
  <2> HIDE DEF longer
  <2>2. ReleaseFollows(longer, Len(log) + 1)
    BY <1>2, <1>3, <2>1 DEF ReleaseFollows
  <2> QED
    BY <1>3, <2>1, <2>2 DEF Follows, longer
<1>6. /\ LogInv(log') /\ Grown({e}) /\ log' \in Seq(E!Event)
      /\ Len(log) + 1 \in DOMAIN log' /\ log'[Len(log) + 1] = e
  BY <1>1, <1>3, <1>4, <1>5, LogAppends
<1>7. x \in LineTypes /\ x.stage = "speaking" /\ x.last = Len(log) + 1
  BY <1>1 DEF LineTypes, E!Last
<1> HIDE DEF x
<1>8. line'[v] = x
  BY <1>1 DEF LogTypes
<1>9. ASSUME NEW i \in DOMAIN log', log'[i].type = "utt.delivered"
      PROVE  x.last \notin log'[i].cites
  <2>1. i \in DOMAIN log /\ log'[i] = log[i]
    BY <1>3, <1>6, <1>9 DEF Grown
  <2> QED
    BY <1>1, <1>7, <1>9, <2>1, NewUndelivered
<1>10. s \in DOMAIN log' /\ log'[s] = log[s]
  BY <1>2, <1>6 DEF Grown
<1>11. LineInv(v)'
  <2>1. log'[x.last].cites = {s} /\ HasEvent(log', s, "speak.verbatim") /\ log'[s].text = v
    BY <1>2, <1>3, <1>6, <1>7, <1>10 DEF HasEvent
  <2>2. HasEvent(log', x.last, "speak.released")
    BY <1>3, <1>6, <1>7 DEF HasEvent
  <2> QED
    BY <1>7, <1>8, <1>9, <1>10, <2>1, <2>2 DEF LineInv, Undelivered, IsLine
<1>12. ASSUME NEW w \in E!Verbatim, w # v, line[w].stage = "asked"
       PROVE  line[w].last \notin e.cites
  <2>1. LineInv(w)
    BY DEF ChainInv
  <2> QED
    BY <1>2, <1>3, <1>12, <2>1 DEF LineInv, IsLine
<1> QED
  BY <1>1, <1>3, <1>6, <1>7, <1>11, <1>12, LineOnward

LEMMA HeardStep ==
    ASSUME ChainInv, NEW v \in E!Verbatim, NEW whole \in BOOLEAN, E!Heard(v, whole)
    PROVE  ChainInv'
<1> DEFINE s == line[v].last
           e == E!Delivered("cp", 0, s, <<0, s>>, v, whole)
           x == [line[v] EXCEPT !.stage = "done"]
<1>1. /\ LogTypes /\ LogInv(log) /\ log' = Append(log, e) /\ job' = job /\ gens' = gens
      /\ line' = [line EXCEPT ![v] = x] /\ Len(log) \in Nat /\ DOMAIN log = 1..Len(log)
      /\ LineInv(v) /\ line[v].stage = "speaking" /\ log \in Seq(E!Event)
      /\ line[v] \in LineTypes
  BY DEF ChainInv, E!Heard, LogTypes
<1>2. /\ s \in DOMAIN log /\ log[s].type = "speak.released" /\ Undelivered(s)
      /\ s \in Nat \ {0} /\ s \in 1..Len(log)
  BY <1>1 DEF LineInv, HasEvent
<1>3. PICK u \in DOMAIN log : log[s].cites = {u} /\ IsLine(u, v)
  BY <1>1 DEF LineInv
<1>4. /\ log[u].type = "speak.verbatim" /\ log[u].text = v /\ u \in 1..Len(log)
  BY <1>1, <1>3 DEF IsLine, HasEvent
<1> HIDE DEF s
<1>5. /\ e \in E!Event /\ e.type = "utt.delivered" /\ e.lane = "cp" /\ e.cites = {s}
      /\ e.text = v
  <2>1. 0 \in Nat /\ <<0, s>> \in Nat \X Nat /\ v \in E!Texts \cup {None}
    BY <1>2 DEF E!Texts
  <2>2. IsSaid(e, "cp", 0, s, <<0, s>>, v)
    BY <1>2, <2>1, SaidEvent
  <2> QED
    BY <2>2 DEF IsSaid
<1> HIDE DEF e
<1>6. Fresh(log, e)
  BY <1>2, <1>5 DEF Fresh, Undelivered
<1>7. Follows(Append(log, e), Len(log) + 1)
  <2> DEFINE longer == Append(log, e)
  <2>1. /\ longer[Len(log) + 1] = e /\ longer[s] = log[s] /\ s \in 1..(Len(log) + 1 - 1)
        /\ longer[u] = log[u] /\ u \in 1..(Len(log) + 1 - 1)
    BY <1>1, <1>2, <1>4, <1>5
  <2> HIDE DEF longer
  <2>2. DeliveryFollows(longer, Len(log) + 1)
    BY <1>2, <1>3, <1>4, <1>5, <2>1 DEF DeliveryFollows, OfLine
  <2> QED
    BY <1>5, <2>1, <2>2 DEF Follows, longer
<1>8. LogInv(log') /\ Grown({e}) /\ log' \in Seq(E!Event)
  BY <1>1, <1>5, <1>6, <1>7, LogAppends
<1>9. x \in LineTypes /\ x.stage = "done"
  BY <1>1 DEF LineTypes
<1> HIDE DEF x
<1>10. LineInv(v)'
  <2>1. line'[v] = x
    BY <1>1 DEF LogTypes
  <2> QED
    BY <1>9, <2>1 DEF LineInv
<1>11. ASSUME NEW w \in E!Verbatim, w # v, line[w].stage \in {"released", "speaking"}
       PROVE  line[w].last \notin e.cites
  <2>1. LineInv(w)
    BY DEF ChainInv
  <2> QED
    BY <1>3, <1>4, <1>5, <1>11, <2>1 DEF LineInv, IsLine
<1>12. \A t \in e.cites : HasEvent(log, t, "speak.released")
  BY <1>2, <1>5 DEF HasEvent
<1> QED
  BY <1>1, <1>5, <1>8, <1>9, <1>10, <1>11, <1>12, LineOnward

LEMMA OpensStep ==
    ASSUME LogConstants, ChainInv, E!CallOpens
    PROVE  ChainInv'
<1> DEFINE first == E!Disclosure
           a == E!Spoken(first)
           b == E!Release(first, E!Last + 1)
           pair == <<a, b>>
           longer == log \o pair
           x == [stage |-> "released", last |-> E!Last + 2]
<1>1. /\ LogTypes /\ LogInv(log) /\ log' = log \o pair /\ job' = job /\ gens' = gens
      /\ line' = [line EXCEPT ![first] = x] /\ Len(log) \in Nat /\ DOMAIN log = 1..Len(log)
      /\ log \in Seq(E!Event) /\ E!Last = Len(log) /\ first \in E!Verbatim
  BY DEF ChainInv, E!CallOpens, LogTypes, E!Last, E!Verbatim
<1>2. /\ a \in E!Event /\ a.type = "speak.verbatim" /\ a.lane = "cp" /\ a.text = first
      /\ a.cap = E!CapHeld(first) /\ a.kind = E!Kind(first)
  BY <1>1, SpokenEvent
<1>3. /\ b \in E!Event /\ b.type = "speak.released" /\ b.lane = "cp"
      /\ b.cites = {Len(log) + 1} /\ b.cap = E!CapHeld(first)
  <2>1. E!Last + 1 \in Nat \ {0}
    BY <1>1
  <2> QED
    BY <1>1, <2>1, ReleaseEvent
<1> HIDE DEF a, b
<1>4. /\ pair \in Seq(E!Event) /\ DOMAIN pair = {1, 2} /\ pair[1] = a /\ pair[2] = b
  BY <1>2, <1>3
<1> HIDE DEF pair
<1>5. /\ longer \in Seq(E!Event) /\ \A i \in DOMAIN log : longer[i] = log[i]
      /\ longer[Len(log) + 1] = a /\ longer[Len(log) + 2] = b
      /\ Len(log) + 1 \in DOMAIN longer /\ Len(log) + 2 \in DOMAIN longer
  <2>1. /\ longer \in Seq(E!Event) /\ \A i \in DOMAIN log : longer[i] = log[i]
        /\ \A k \in DOMAIN pair : longer[Len(log) + k] = pair[k] /\ Len(log) + k \in DOMAIN longer
    BY <1>1, <1>4, LogExtends
  <2> QED
    BY <1>4, <2>1
<1> HIDE DEF longer
<1>6. Follows(longer, Len(log) + 1)
  BY <1>2, <1>5 DEF Follows
<1>7. Follows(longer, Len(log) + 2)
  <2>1. Len(log) + 1 \in 1..(Len(log) + 2 - 1)
    BY <1>1
  <2>2. ReleaseFollows(longer, Len(log) + 2)
    BY <1>1, <1>2, <1>3, <1>5, <2>1, KindCap DEF ReleaseFollows
  <2> QED
    BY <1>3, <1>5, <2>2 DEF Follows
<1>8. Fresh(log, a)
  BY <1>2 DEF Fresh
<1>9. Fresh(log, b)
  <2> SUFFICES ASSUME NEW i \in DOMAIN log, log[i].type = "speak.released"
               PROVE  Len(log) + 1 \notin log[i].cites
    BY <1>3 DEF Fresh
  <2>1. ReleaseFollows(log, i)
    BY <1>1 DEF LogInv, Follows
  <2> QED
    BY <1>1, <2>1 DEF ReleaseFollows
<1>10. LogInv(longer)
  <2>1. \A k \in DOMAIN pair : Follows(log \o pair, Len(log) + k) /\ Fresh(log, pair[k])
    BY <1>4, <1>6, <1>7, <1>8, <1>9 DEF longer
  <2>2. /\ OneTurn(pair) /\ OneSentence(pair)
        /\ OneOf(pair, "speak.released") /\ OneOf(pair, "utt.delivered")
    BY <1>2, <1>3, <1>4 DEF OneTurn, OneSentence, OneOf
  <2> QED
    BY <1>1, <1>4, <2>1, <2>2, LogGrows DEF longer
<1>11. log' = longer
  BY <1>1 DEF longer
<1>12. Grown({a, b})
  <2>1. Grown({pair[k] : k \in DOMAIN pair})
    BY <1>1, <1>4, LogOnward
  <2>2. \A k \in DOMAIN pair : pair[k] \in {a, b}
    BY <1>4
  <2> QED
    BY <2>1, <2>2 DEF Grown
<1>13. x \in LineTypes /\ x.stage = "released" /\ x.last = Len(log) + 2
  BY <1>1 DEF LineTypes
<1> HIDE DEF x
<1>14. line'[first] = x
  BY <1>1 DEF LogTypes
<1>15. ASSUME NEW i \in DOMAIN log', log'[i].type = "utt.delivered"
       PROVE  x.last \notin log'[i].cites
  <2>1. i \in DOMAIN log /\ log'[i] = log[i]
    BY <1>2, <1>3, <1>12, <1>15 DEF Grown
  <2>2. x.last \in Nat /\ x.last > Len(log)
    BY <1>1, <1>13
  <2>3. log[i].type = "utt.delivered"
    BY <1>15, <2>1
  <2> QED
    BY <1>1, <2>1, <2>2, <2>3, NewUndelivered
<1>16. LineInv(first)'
  <2>1. /\ log'[x.last].cites = {Len(log) + 1} /\ Len(log) + 1 \in DOMAIN log'
        /\ log'[Len(log) + 1].type = "speak.verbatim" /\ log'[Len(log) + 1].text = first
    BY <1>2, <1>3, <1>5, <1>11, <1>13
  <2>2. HasEvent(log', x.last, "speak.released")
    BY <1>3, <1>5, <1>11, <1>13 DEF HasEvent
  <2> QED
    BY <1>13, <1>14, <1>15, <2>1, <2>2 DEF LineInv, Undelivered, IsLine, HasEvent
<1>17. ASSUME NEW w \in E!Verbatim, line[w].stage = "asked"
       PROVE  line[w].last \notin b.cites
  <2>1. LineInv(w)
    BY DEF ChainInv
  <2> QED
    BY <1>1, <1>3, <1>17, <2>1 DEF LineInv, IsLine, HasEvent
<1>18. /\ LogInv(log') /\ log' \in Seq(E!Event)
  BY <1>5, <1>10, <1>11
<1> QED
  BY <1>1, <1>2, <1>3, <1>12, <1>13, <1>16, <1>17, <1>18, LineOnward

LEMMA ChainNext ==
    ASSUME LogConstants, ChainInv, [E!Next]_(E!vars)
    PROVE  ChainInv'
<1>1. ASSUME NEW l \in Lanes, E!LaneStep(l) PROVE ChainInv'
  <2>1. CASE E!Request(l)
    BY <2>1, RequestStep
  <2>2. CASE E!Retry(l)
    BY <2>2, RecordStep DEF E!Retry, E!CallEvent
  <2>3. CASE E!Fail(l)
    BY <2>3, RecordStep DEF E!Fail
  <2>4. CASE E!LateRecord(l)
    BY <2>4, RecordStep DEF E!LateRecord
  <2>5. ASSUME NEW r \in Responses, E!Turn(l, r) PROVE ChainInv'
    BY <2>5, TurnStep
  <2>6. ASSUME NEW r \in Responses, E!NoTurn(l, r) PROVE ChainInv'
    BY <2>6, RecordStep DEF E!NoTurn
  <2>7. CASE E!Unsaid(l) \/ E!HangUp(l)
    BY <2>7, QuietStep, IdleWork DEF E!Unsaid, E!HangUp
  <2>8. CASE E!TakesFloor(l)
    <3>1. job[l] \in JobTypes
      BY DEF ChainInv, LogTypes
    <3>2. [job[l] EXCEPT !.phase = "speaking"] \in JobTypes
      BY <3>1 DEF JobTypes
    <3>3. /\ [job[l] EXCEPT !.phase = "speaking"].phase = "speaking"
          /\ [job[l] EXCEPT !.phase = "speaking"].lines = job[l].lines
      BY <3>1 DEF JobTypes
    <3> QED
      BY <2>8, <3>2, <3>3, QuietStep DEF E!TakesFloor
  <2>9. ASSUME NEW whole \in BOOLEAN, E!Say(l, whole) PROVE ChainInv'
    BY <2>9, SayStep
  <2> QED
    BY <1>1, <2>1, <2>2, <2>3, <2>4, <2>5, <2>6, <2>7, <2>8, <2>9 DEF E!LaneStep
<1>2. ASSUME NEW v \in E!Verbatim PROVE line[v] \in LineTypes
  BY DEF ChainInv, LogTypes
<1>3. ASSUME NEW v \in E!Verbatim, NEW stage \in {"speaking", "done"}
      PROVE  LET x == [line[v] EXCEPT !.stage = stage]
             IN  x \in LineTypes /\ x.stage = stage /\ x.last = line[v].last
  BY <1>2 DEF LineTypes
<1>4. ASSUME NEW v \in E!Verbatim, E!LineStep(v) PROVE ChainInv'
  <2>1. CASE E!Asked(v)
    BY <2>1, AskedStep
  <2>2. CASE E!Released(v)
    BY <2>2, ReleasedStep
  <2>3. CASE E!Revoked(v)
    BY <1>3, <2>3, QuietLine DEF E!Revoked
  <2>4. ASSUME NEW whole \in BOOLEAN, E!Heard(v, whole) PROVE ChainInv'
    BY <2>4, HeardStep
  <2> QED
    BY <1>4, <2>1, <2>2, <2>3, <2>4 DEF E!LineStep
<1>5. CASE E!CallOpens
  BY <1>5, OpensStep
<1>6. CASE E!Discloses
  <2>1. E!Disclosure \in E!Verbatim
    BY DEF E!Verbatim
  <2>2. line[E!Disclosure].stage = "released"
    BY <1>6 DEF E!Discloses
  <2>3. CASE call = "closed"
    BY <1>3, <1>6, <2>1, <2>3, QuietLine DEF E!Discloses
  <2>4. CASE call # "closed"
    BY <1>3, <1>6, <2>1, <2>2, <2>4, QuietLine DEF E!Discloses
  <2> QED
    BY <2>3, <2>4
<1>7. CASE E!CallCloses \/ E!Ends \/ UNCHANGED E!vars
  <2>1. log' = log /\ gens' = gens /\ job' = job /\ line' = line
    BY <1>7 DEF E!CallCloses, E!Ends, E!vars
  <2>2. LogTypes' /\ LogInv(log') /\ GensPast'
    BY <2>1 DEF ChainInv, LogTypes, GensPast
  <2>3. \A l \in Lanes : JobInv(l)'
    BY <2>1, JobRests DEF ChainInv
  <2>4. \A v \in E!Verbatim : LineInv(v)'
    BY <2>1, LineRests DEF ChainInv
  <2> QED
    BY <2>2, <2>3, <2>4 DEF ChainInv
<1> QED
  BY <1>1, <1>4, <1>5, <1>6, <1>7 DEF E!Next

-----------------------------------------------------------------------------
(* A log that follows passes the check. *)

LEMMA Backed ==
    ASSUME LogConstants, LogInv(log), log \in Seq(E!Event), NEW i \in E!Of("fast.turn")
    PROVE  E!TurnBacked(i) /\ E!OneTurnPerCall(i)
<1>1. DOMAIN log = 1..Len(log) /\ Len(log) \in Nat /\ i \in DOMAIN log
  BY DEF E!Of
<1>2. TurnFollows(log, i)
  BY DEF E!Of, LogInv, Follows
<1>3. PICK q, c \in 1..(i - 1) :
        /\ log[i].cites = {q, c}
        /\ log[q].type = "fast.request" /\ log[q].lane = log[i].lane /\ log[q].gen = log[i].gen
        /\ log[c].type = "llm.call" /\ log[c].lane = log[i].lane /\ log[c].gen = log[i].gen
        /\ log[c].response \in Responses /\ log[i].items = ItemsOf[log[c].response]
  BY <1>2 DEF TurnFollows
<1>4. q \in DOMAIN log /\ c \in DOMAIN log
  BY <1>1
<1>5. E!CitedBy(i, "fast.request") = {q} /\ E!CitedBy(i, "llm.call") = {c}
  BY <1>3, <1>4 DEF E!CitedBy, E!Of
<1>6. log[c].response # None
  BY <1>3 DEF LogConstants
<1>7. E!TurnBacked(i)
  BY <1>3, <1>5, <1>6 DEF E!TurnBacked, E!SameGen
<1>8. E!OneTurnPerCall(i)
  BY DEF E!OneTurnPerCall, LogInv, OneTurn, E!Of, E!SameGen
<1> QED
  BY <1>7, <1>8

LEMMA ReleaseTraced ==
    ASSUME LogInv(log), log \in Seq(E!Event), NEW r \in E!Of("speak.released")
    PROVE  \E v \in E!Of("speak.verbatim") :
              /\ log[r].cites = {v} /\ E!CitedBy(r, "speak.verbatim") = {v}
              /\ log[v].lane = "cp" /\ E!ReleaseCarriesCap(r)
<1>1. DOMAIN log = 1..Len(log) /\ Len(log) \in Nat /\ r \in DOMAIN log
  BY DEF E!Of
<1>2. ReleaseFollows(log, r)
  BY DEF E!Of, LogInv, Follows
<1>3. PICK v \in 1..(r - 1) :
        /\ log[r].cites = {v} /\ log[v].type = "speak.verbatim" /\ log[v].lane = "cp"
        /\ IF log[v].kind = "accept" THEN log[v].cap # None /\ log[r].cap = log[v].cap
           ELSE log[r].cap = None
  BY <1>2 DEF ReleaseFollows
<1>4. v \in E!Of("speak.verbatim") /\ E!CitedBy(r, "speak.verbatim") = {v}
  BY <1>1, <1>3 DEF E!Of, E!CitedBy
<1>5. E!ReleaseCarriesCap(r)
  BY <1>3, <1>4 DEF E!ReleaseCarriesCap
<1> QED
  BY <1>3, <1>4, <1>5

(* A sentence, its turn and its item. *)
LEMMA SentenceTraced ==
    ASSUME LogInv(log), log \in Seq(E!Event), NEW s \in E!Of("fast.sentence")
    PROVE  \E t \in E!Of("fast.turn") :
              /\ log[s].cites = {t} /\ E!CitedBy(s, "fast.turn") = {t} /\ E!SameGen(s, t)
              /\ \E n \in DOMAIN log[t].items :
                    log[s].utt = <<log[s].gen, n>> /\ log[s].text = log[t].items[n]
<1>1. DOMAIN log = 1..Len(log) /\ Len(log) \in Nat /\ s \in DOMAIN log
  BY DEF E!Of
<1>2. SentenceFollows(log, s)
  BY DEF E!Of, LogInv, Follows
<1>3. PICK t \in 1..(s - 1) :
        /\ log[s].cites = {t} /\ log[t].type = "fast.turn"
        /\ log[t].lane = log[s].lane /\ log[t].gen = log[s].gen
        /\ \E n \in DOMAIN log[t].items :
              log[s].utt = <<log[s].gen, n>> /\ log[s].text = log[t].items[n]
  BY <1>2 DEF SentenceFollows
<1>4. t \in E!Of("fast.turn") /\ E!CitedBy(s, "fast.turn") = {t} /\ E!SameGen(s, t)
  BY <1>1, <1>3 DEF E!Of, E!CitedBy, E!SameGen
<1> QED
  BY <1>3, <1>4

LEMMA Traced ==
    ASSUME LogInv(log), log \in Seq(E!Event), NEW i \in E!Of("utt.delivered")
    PROVE  E!DeliveredFrom(i)
<1>1. DOMAIN log = 1..Len(log) /\ Len(log) \in Nat /\ i \in DOMAIN log
  BY DEF E!Of
<1>2. DeliveryFollows(log, i)
  BY DEF E!Of, LogInv, Follows
<1>3. PICK s \in 1..(i - 1) : log[i].cites = {s} /\ (OfTurn(log, i, s) \/ OfLine(log, i, s))
  BY <1>2 DEF DeliveryFollows
<1>4. s \in DOMAIN log
  BY <1>1
<1>5. \A j \in E!Of("utt.delivered") : s \in log[j].cites => i = j
  BY <1>3 DEF LogInv, OneOf, E!Of
<1>6. CASE OfTurn(log, i, s)
  <2>1. s \in E!Of("fast.sentence") /\ log[s].lane = log[i].lane /\ log[s].gen = log[i].gen
        /\ log[s].utt = log[i].utt /\ log[s].text = log[i].text
    BY <1>4, <1>6 DEF OfTurn, E!Of
  <2>2. E!CitedBy(i, "fast.sentence") = {s} /\ E!CitedBy(i, "speak.released") = {}
    BY <1>3, <2>1 DEF E!CitedBy, E!Of
  <2>3. E!Sources(i) = {s}
    BY <2>2 DEF E!Sources
  <2>4. E!FromTurn(i, s)
    BY <2>1, SentenceTraced DEF E!FromTurn, E!SameGen
  <2>5. ASSUME NEW j \in E!Of("utt.delivered"), s \in E!Sources(j) PROVE i = j
    <3>1. s \notin E!Of("speak.verbatim")
      BY <2>1 DEF E!Of
    <3>2. s \in log[j].cites
      BY <2>5, <3>1 DEF E!Sources, E!CitedBy
    <3> QED
      BY <1>5, <3>2
  <2> QED
    BY <2>1, <2>3, <2>4, <2>5 DEF E!DeliveredFrom
<1>7. CASE OfLine(log, i, s)
  <2>1. s \in E!Of("speak.released") /\ log[i].lane = "cp"
    BY <1>4, <1>7 DEF OfLine, E!Of
  <2>2. PICK v \in E!Of("speak.verbatim") :
          /\ log[s].cites = {v} /\ E!CitedBy(s, "speak.verbatim") = {v} /\ log[v].lane = "cp"
    BY <2>1, ReleaseTraced
  <2>3. log[v].text = log[i].text
    BY <1>7, <2>2 DEF OfLine
  <2>4. E!CitedBy(i, "fast.sentence") = {} /\ E!CitedBy(i, "speak.released") = {s}
    BY <1>3, <2>1 DEF E!CitedBy, E!Of
  <2>5. E!Sources(i) = {v}
    BY <2>2, <2>4 DEF E!Sources
  <2>6. log[v].type # "fast.sentence"
    BY DEF E!Of
  <2>7. ASSUME NEW j \in E!Of("utt.delivered"), v \in E!Sources(j) PROVE i = j
    <3>1. v \notin E!Of("fast.sentence")
      BY DEF E!Of
    <3>2. PICK r \in E!CitedBy(j, "speak.released") : v \in E!CitedBy(r, "speak.verbatim")
      BY <2>7, <3>1 DEF E!Sources, E!CitedBy
    <3>3. r \in E!Of("speak.released") /\ v \in log[r].cites /\ r \in log[j].cites
      BY <3>2 DEF E!CitedBy
    <3>4. r = s
      BY <2>1, <2>2, <3>3 DEF LogInv, OneOf, E!Of
    <3> QED
      BY <1>5, <3>3, <3>4
  <2> QED
    BY <2>1, <2>2, <2>3, <2>5, <2>6, <2>7 DEF E!DeliveredFrom
<1> QED
  BY <1>3, <1>6, <1>7

LEMMA LogCardinality == ASSUME NEW S PROVE E!Cardinality(S) = Cardinality(S)
  BY DEF E!Cardinality, Cardinality

(* Each delivery of a turn has its own item. *)
LEMMA SaidOnce ==
    ASSUME LogInv(log), log \in Seq(E!Event), NEW t \in E!Of("fast.turn")
    PROVE  E!ItemsSaidOnce(t)
<1> SUFFICES ASSUME NEW x \in E!Texts
             PROVE  Cardinality(E!DeliveredOf(t, x))
                      <= Cardinality({n \in DOMAIN log[t].items : log[t].items[n] = x})
  BY LogCardinality DEF E!ItemsSaidOnce
<1> DEFINE heard == E!DeliveredOf(t, x)
           its == {n \in DOMAIN log[t].items : log[t].items[n] = x}
           f == [i \in heard |-> log[i].utt[2]]
<1>1. IsFiniteSet(its)
  <2>1. log[t] \in E!Event
    BY DEF E!Of
  <2>2. log[t].items \in Seq(E!Texts)
    BY <2>1 DEF E!Event
  <2>3. DOMAIN log[t].items = 1..Len(log[t].items) /\ Len(log[t].items) \in Nat
    BY <2>2
  <2>4. IsFiniteSet(1..Len(log[t].items))
    <3>1. 1 \in Int /\ Len(log[t].items) \in Int
      BY <2>3
    <3> QED
      BY <3>1, FS_Interval
  <2>5. its \subseteq 1..Len(log[t].items)
    BY <2>3
  <2> QED
    BY <2>4, <2>5, FS_Subset
<1>2. ASSUME NEW i \in heard
      PROVE  \E s \in E!Of("fast.sentence"), n \in its :
                /\ i \in E!Of("utt.delivered") /\ log[i].cites = {s}
                /\ log[s].lane = log[t].lane
                /\ log[s].utt = <<log[t].gen, n>> /\ log[i].utt = <<log[t].gen, n>>
  <2>1. i \in E!Of("utt.delivered") /\ log[i].text = x
    BY <1>2 DEF E!DeliveredOf
  <2>2. PICK s \in E!CitedBy(i, "fast.sentence") : t \in log[s].cites
    BY <1>2 DEF E!DeliveredOf
  <2>3. s \in E!Of("fast.sentence") /\ s \in log[i].cites
    BY <2>2 DEF E!CitedBy
  <2>4. DeliveryFollows(log, i)
    BY <2>1 DEF E!Of, LogInv, Follows
  <2>5. log[i].cites = {s} /\ OfTurn(log, i, s)
    BY <2>3, <2>4 DEF DeliveryFollows, OfLine, E!Of
  <2>6. PICK n \in DOMAIN log[t].items :
          /\ log[s].utt = <<log[s].gen, n>> /\ log[s].text = log[t].items[n] /\ E!SameGen(s, t)
    BY <2>2, <2>3, SentenceTraced
  <2>7. n \in its
    BY <2>1, <2>5, <2>6 DEF OfTurn
  <2> QED
    BY <2>1, <2>3, <2>5, <2>6, <2>7 DEF OfTurn, E!SameGen
<1>3. ASSUME NEW i \in heard, NEW j \in heard, f[i] = f[j] PROVE i = j
  <2>1. PICK s \in E!Of("fast.sentence"), n \in its :
          /\ i \in E!Of("utt.delivered") /\ log[i].cites = {s} /\ log[s].lane = log[t].lane
          /\ log[s].utt = <<log[t].gen, n>> /\ log[i].utt = <<log[t].gen, n>>
    BY <1>2
  <2>2. PICK u \in E!Of("fast.sentence"), m \in its :
          /\ j \in E!Of("utt.delivered") /\ log[j].cites = {u} /\ log[u].lane = log[t].lane
          /\ log[u].utt = <<log[t].gen, m>> /\ log[j].utt = <<log[t].gen, m>>
    BY <1>2
  <2>3. n = m
    BY <1>3, <2>1, <2>2
  <2>4. s = u
    BY <2>1, <2>2, <2>3 DEF LogInv, OneSentence, E!Of
  <2> QED
    BY <2>1, <2>2, <2>4 DEF LogInv, OneOf, E!Of
<1>4. f \in [heard -> its]
  <2>1. ASSUME NEW i \in heard PROVE log[i].utt[2] \in its
    <3>1. PICK n \in its : log[i].utt = <<log[t].gen, n>>
      BY <1>2
    <3> QED
      BY <3>1
  <2> QED
    BY <2>1
<1>5. f \in Injection(heard, its)
  BY <1>3, <1>4 DEF Injection, IsInjective
<1> HIDE DEF heard, its, f
<1> QED
  BY <1>1, <1>5, FS_Injection DEF heard, its

(* Every log passes the check, wherever its session ends: a turn has one    *)
(* request and one successful call, that no other turn has; what is        *)
(* delivered comes of one sentence or one line released, once; and an      *)
(* accept goes out under its capability (evidence/chain.py).               *)
THEOREM EveryLogPasses == ASSUME LogConstants PROVE E!Spec => []E!LogPasses
<1>1. E!Init => ChainInv
  BY ChainInit
<1>2. ChainInv /\ [E!Next]_(E!vars) => ChainInv'
  BY ChainNext
<1>3. ChainInv => E!LogPasses
  <2> SUFFICES ASSUME ChainInv PROVE E!LogPasses
    OBVIOUS
  <2>1. LogInv(log) /\ log \in Seq(E!Event)
    BY DEF ChainInv, LogTypes
  <2> QED
    BY <2>1, Backed, SaidOnce, Traced, ReleaseTraced DEF E!LogPasses
<1> QED
  BY <1>1, <1>2, <1>3, PTL DEF E!Spec
=============================================================================
