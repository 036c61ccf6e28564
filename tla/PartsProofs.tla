---------------------------- MODULE PartsProofs ----------------------------
(***************************************************************************)
(* What the run of the parts checks, for every value of their constants.  *)
(* A part's theorem is proved in its group's module, over variables of its *)
(* own: that module is instantiated here with the part's variables, and    *)
(* its instance of the part and MCParts's are the same definitions.        *)
(***************************************************************************)
EXTENDS MCParts, TLAPS

HP == INSTANCE HostProofs WITH
        Gate <- ArmGate,
        at <- x1, lockq <- x2, task <- x3, abandoned <- x4, run <- x5,
        session <- x6, stopping <- x7, started <- x8, late <- x9,
        caseSession <- x1, stem <- x2, cards <- x3, card <- x4, decided <- x5,
        click <- x6, slots <- x7, queue <- x8,
        disk <- x1, plan <- x2, pos <- x3, busy <- x4, seen <- x5, runs <- x6,
        served <- x7,
        file <- x1, open <- x2, up <- x3, todo <- x4, in <- x5, calls <- x6,
        asked <- x7,
        Length <- LogLength, Chunk <- ReadChunk, rep <- x1, hidden <- x2,
        written <- x3, moved <- x4, conn <- x5, wire <- x6, code <- x7, got <- x8,
        Lanes <- LogLanes, Lines <- Speeches, MaxGens <- LogGens, log <- x1,
        state <- x2, call <- x3, gens <- x4, job <- x5, line <- x6

-----------------------------------------------------------------------------
LEMMA SamePosts ==
    /\ D!Init => HP!D!Init
    /\ D!Next => HP!D!Next
    /\ D!HandedOnce <=> HP!D!HandedOnce
<1>1. D!Init => HP!D!Init
  BY DEF D!NoCard, HP!D!NoCard, D!NewClick, HP!D!NewClick, D!Init, HP!D!Init
<1>2. D!Next => HP!D!Next
  BY DEF D!NoCard, HP!D!NoCard, D!Requests, HP!D!Requests, D!Expires,
     HP!D!Expires, D!MovesOn, HP!D!MovesOn, D!SessionEnds, HP!D!SessionEnds,
     D!Decidable, HP!D!Decidable, D!Decides, HP!D!Decides, D!Clicked,
     HP!D!Clicked, D!LooksUp, HP!D!LooksUp, D!Slot, HP!D!Slot, D!Takes,
     HP!D!Takes, D!MayPost, HP!D!MayPost, D!HandsOver, HP!D!HandsOver, D!Next,
     HP!D!Next, D!Cardinality, HP!D!Cardinality
<1>3. D!HandedOnce <=> HP!D!HandedOnce
  BY DEF D!HandedOnce, HP!D!HandedOnce
<1> QED
  BY <1>1, <1>2, <1>3

(* Two clicks on one card are handed over once, and none once decided       *)
(* (serve/cases.py).                                                        *)
THEOREM PostsHandedOnce == Spec => [](part = "live posts" => D!HandedOnce)
<1>1. Init /\ part = "live posts" => HP!D!Init
  BY SamePosts DEF Init
<1>2. part = "live posts" /\ [Next]_vars => [HP!D!Next]_(HP!D!vars)
  BY SamePosts DEF Next, vars, HP!D!vars
<1>3. (part = "live posts" /\ [Next]_vars => (part = "live posts")')
      /\ (~(part = "live posts") /\ [Next]_vars => ~(part = "live posts")')
  BY DEF Next, vars
<1>4. HP!D!Spec => []HP!D!HandedOnce
  BY HP!OneHandover
<1> QED
  BY <1>1, <1>2, <1>3, <1>4, SamePosts, PTL DEF Spec, HP!D!Spec

-----------------------------------------------------------------------------
LEMMA SameCases ==
    /\ L!Init => HP!L!Init
    /\ L!Next => HP!L!Next
    /\ L!OneSession <=> HP!L!OneSession
    /\ L!NoCaseLeftRunning <=> HP!L!NoCaseLeftRunning
<1>1. L!Init => HP!L!Init
  BY DEF L!Init, HP!L!Init
<1>2. L!Next => HP!L!Next
  BY DEF L!Runs, HP!L!Runs, L!Finished, HP!L!Finished, L!Asks, HP!L!Asks,
     L!HasEnded, HP!L!HasEnded, L!Sweeps, HP!L!Sweeps, L!Lookup, HP!L!Lookup,
     L!Answer, HP!L!Answer, L!Begun, HP!L!Begun, L!Abandon, HP!L!Abandon,
     L!TimesOut, HP!L!TimesOut, L!GraceOver, HP!L!GraceOver, L!ClientLeaves,
     HP!L!ClientLeaves, L!Late, HP!L!Late, L!Busy, HP!L!Busy, L!Launches,
     HP!L!Launches, L!Returns, HP!L!Returns, L!Cancelled, HP!L!Cancelled,
     L!Gathered, HP!L!Gathered, L!SessionSteps, HP!L!SessionSteps, L!Next,
     HP!L!Next
<1>3. L!OneSession <=> HP!L!OneSession
  BY DEF L!Runs, HP!L!Runs, L!OneSession, HP!L!OneSession, L!Cardinality,
     HP!L!Cardinality
<1>4. L!NoCaseLeftRunning <=> HP!L!NoCaseLeftRunning
  BY DEF L!Runs, HP!L!Runs, L!NoCaseLeftRunning, HP!L!NoCaseLeftRunning
<1> QED
  BY <1>1, <1>2, <1>3, <1>4

(* One session at a time, and a session that runs is known to somebody     *)
(* who stops or reports it (serve/start.py, kernel/web.py).                *)
THEOREM CasesAreKnown ==
    Spec => [](part = "live cases" => L!OneSession /\ L!NoCaseLeftRunning)
<1>1. Init /\ part = "live cases" => HP!L!Init
  BY SameCases DEF Init
<1>2. part = "live cases" /\ [Next]_vars => [HP!L!Next]_(HP!L!vars)
  BY SameCases DEF Next, vars, HP!L!vars
<1>3. (part = "live cases" /\ [Next]_vars => (part = "live cases")')
      /\ (~(part = "live cases") /\ [Next]_vars => ~(part = "live cases")')
  BY DEF Next, vars
<1>4. HP!L!Spec => [](HP!L!OneSession /\ HP!L!NoCaseLeftRunning)
  BY HP!CasesKnown
<1> QED
  BY <1>1, <1>2, <1>3, <1>4, SameCases, PTL DEF Spec, HP!L!Spec

(* Both halves of the live server's promise about its cases (serve/).      *)
THEOREM LiveCasesAreExact == Spec => []LiveCasesExact
BY PostsHandedOnce, CasesAreKnown, PTL DEF LiveCasesExact

-----------------------------------------------------------------------------
LEMMA SameMatrix ==
    /\ M!Init => HP!M!Init
    /\ M!Next => HP!M!Next
    /\ M!Counted <=> HP!M!Counted
    /\ M!Claims <=> HP!M!Claims
    /\ M!OneMatrix <=> HP!M!OneMatrix
    /\ M!ScoredOnce <=> HP!M!ScoredOnce
<1>1. M!Init => HP!M!Init
  BY DEF M!Init, HP!M!Init
<1>2. M!Next => HP!M!Next
  <2>1. M!Start => HP!M!Start
    BY DEF M!Stray, HP!M!Stray, M!Start, HP!M!Start
  <2>2. M!Skip => HP!M!Skip
    BY DEF M!Rerun, HP!M!Rerun, M!Kept, HP!M!Kept, M!Said, HP!M!Said,
       M!KeptOf, HP!M!KeptOf, M!Changed, HP!M!Changed, M!Here, HP!M!Here,
       M!Folder, HP!M!Folder, M!Running, HP!M!Running, M!Onward, HP!M!Onward,
       M!Skip, HP!M!Skip, M!Cardinality, HP!M!Cardinality, M!ToSet, HP!M!ToSet
  <2>3. M!ReadsChanged => HP!M!ReadsChanged
    BY DEF M!Said, HP!M!Said, M!Changed, HP!M!Changed, M!Here, HP!M!Here,
       M!Folder, HP!M!Folder, M!Running, HP!M!Running, M!ReadsChanged,
       HP!M!ReadsChanged, M!Cardinality, HP!M!Cardinality, M!ToSet, HP!M!ToSet
  <2>4. M!Session => HP!M!Session
    BY DEF M!Rerun, HP!M!Rerun, M!Kept, HP!M!Kept, M!Said, HP!M!Said,
       M!KeptOf, HP!M!KeptOf, M!Changed, HP!M!Changed, M!Here, HP!M!Here,
       M!Folder, HP!M!Folder, M!Running, HP!M!Running, M!Bundles,
       HP!M!Bundles, M!Holds, HP!M!Holds, M!Session, HP!M!Session,
       M!Cardinality, HP!M!Cardinality, M!ToSet, HP!M!ToSet
  <2>5. M!Refused => HP!M!Refused
    BY DEF M!Rerun, HP!M!Rerun, M!Kept, HP!M!Kept, M!Said, HP!M!Said,
       M!KeptOf, HP!M!KeptOf, M!Changed, HP!M!Changed, M!Here, HP!M!Here,
       M!Folder, HP!M!Folder, M!Running, HP!M!Running, M!Onward, HP!M!Onward,
       M!Holds, HP!M!Holds, M!Refused, HP!M!Refused, M!Cardinality,
       HP!M!Cardinality, M!ToSet, HP!M!ToSet
  <2>6. M!Ends => HP!M!Ends
    BY DEF M!Abort, HP!M!Abort, M!Changed, HP!M!Changed, M!Here, HP!M!Here,
       M!Folder, HP!M!Folder, M!Running, HP!M!Running, M!Onward, HP!M!Onward,
       M!Ends, HP!M!Ends, M!Cardinality, HP!M!Cardinality
  <2>7. M!Fails => HP!M!Fails
    BY DEF M!Here, HP!M!Here, M!Folder, HP!M!Folder, M!Running, HP!M!Running,
       M!Onward, HP!M!Onward, M!Fails, HP!M!Fails
  <2>8. M!Interrupt => HP!M!Interrupt
    BY DEF M!Here, HP!M!Here, M!Folder, HP!M!Folder, M!Running, HP!M!Running,
       M!Interrupt, HP!M!Interrupt
  <2>9. M!Exit => HP!M!Exit
    BY DEF M!Exit, HP!M!Exit
  <2>10. M!Serves => HP!M!Serves
    BY DEF M!Serves, HP!M!Serves
  <2> QED
    BY <2>1, <2>2, <2>3, <2>4, <2>5, <2>6, <2>7, <2>8, <2>9, <2>10 DEF M!Next, HP!M!Next
<1>3. M!Counted <=> HP!M!Counted
  BY DEF M!Rerun, HP!M!Rerun, M!Kept, HP!M!Kept, M!Said, HP!M!Said, M!KeptOf,
     HP!M!KeptOf, M!Changed, HP!M!Changed, M!Outcome, HP!M!Outcome, M!Picked,
     HP!M!Picked, M!EndOf, HP!M!EndOf, M!Twice, HP!M!Twice, M!Discovers,
     HP!M!Discovers, M!Counted, HP!M!Counted, M!Cardinality, HP!M!Cardinality,
     M!ToSet, HP!M!ToSet
<1>4. M!Claims <=> HP!M!Claims
  BY DEF M!Rerun, HP!M!Rerun, M!Kept, HP!M!Kept, M!Said, HP!M!Said, M!KeptOf,
     HP!M!KeptOf, M!Changed, HP!M!Changed, M!Outcome, HP!M!Outcome, M!Picked,
     HP!M!Picked, M!EndOf, HP!M!EndOf, M!Twice, HP!M!Twice, M!Discovers,
     HP!M!Discovers, M!Present, HP!M!Present, M!With, HP!M!With, M!Paired,
     HP!M!Paired, M!Infra, HP!M!Infra, M!Gate, HP!M!Gate, M!Delta, HP!M!Delta,
     M!Claims, HP!M!Claims, M!Cardinality, HP!M!Cardinality, M!ToSet,
     HP!M!ToSet
<1>5. M!OneMatrix <=> HP!M!OneMatrix
  BY DEF M!Twice, HP!M!Twice, M!OneMatrix, HP!M!OneMatrix
<1>6. M!ScoredOnce <=> HP!M!ScoredOnce
  BY DEF M!Rerun, HP!M!Rerun, M!Kept, HP!M!Kept, M!KeptOf, HP!M!KeptOf,
     M!ScoredOnce, HP!M!ScoredOnce
<1> QED
  BY <1>1, <1>2, <1>3, <1>4, <1>5, <1>6

LEMMA SameArm ==
    /\ A!Init => HP!A!Init
    /\ A!Next => HP!A!Next
    /\ A!OneRowEach <=> HP!A!OneRowEach
    /\ A!RowsStay <=> HP!A!RowsStay
<1>1. A!Init => HP!A!Init
  BY DEF A!Init, HP!A!Init
<1>2. A!Next => HP!A!Next
  <2>1. A!Start => HP!A!Start
    BY DEF A!Final, HP!A!Final, A!Rows, HP!A!Rows, A!FinalRows,
       HP!A!FinalRows, A!Done, HP!A!Done, A!Ended, HP!A!Ended, A!Start,
       HP!A!Start
  <2>2. A!Aborted => HP!A!Aborted
    BY DEF A!Aborted, HP!A!Aborted
  <2>3. A!Exit => HP!A!Exit
    BY DEF A!Exit, HP!A!Exit
  <2>4. A!Kill => HP!A!Kill
    BY DEF A!Written, HP!A!Written, A!Live, HP!A!Live, A!Kill, HP!A!Kill,
       A!Front, HP!A!Front
  <2>5. \A i : A!Begin(i) => HP!A!Begin(i)
    BY DEF A!Live, HP!A!Live, A!Begin, HP!A!Begin, A!Cardinality,
       HP!A!Cardinality
  <2>6. \A i : A!Unreplayable(i) => HP!A!Unreplayable(i)
    BY DEF A!Written, HP!A!Written, A!Live, HP!A!Live, A!Drop, HP!A!Drop,
       A!Row, HP!A!Row, A!Unreplayable, HP!A!Unreplayable, A!Front, HP!A!Front
  <2>7. \A i : A!Attempt(i) => HP!A!Attempt(i)
    BY DEF A!Written, HP!A!Written, A!Live, HP!A!Live, A!Drop, HP!A!Drop,
       A!Row, HP!A!Row, A!Attempt, HP!A!Attempt, A!Front, HP!A!Front
  <2>8. \A i : A!Valid(i) => HP!A!Valid(i)
    BY DEF A!Written, HP!A!Written, A!Live, HP!A!Live, A!Drop, HP!A!Drop,
       A!Row, HP!A!Row, A!Valid, HP!A!Valid, A!Front, HP!A!Front
  <2>9. \A i : A!Invalid(i) => HP!A!Invalid(i)
    BY DEF A!Written, HP!A!Written, A!Live, HP!A!Live, A!Drop, HP!A!Drop,
       A!Row, HP!A!Row, A!Invalid, HP!A!Invalid, A!Front, HP!A!Front
  <2>10. \A i : A!Late(i) => HP!A!Late(i)
    BY DEF A!Written, HP!A!Written, A!Live, HP!A!Live, A!Drop, HP!A!Drop,
       A!Row, HP!A!Row, A!Late, HP!A!Late, A!Front, HP!A!Front
  <2>11. \A i : A!Dead(i) => HP!A!Dead(i)
    BY DEF A!Written, HP!A!Written, A!Live, HP!A!Live, A!Drop, HP!A!Drop,
       A!Row, HP!A!Row, A!Dead, HP!A!Dead, A!Front, HP!A!Front
  <2> QED
    BY <2>1, <2>2, <2>3, <2>4, <2>5, <2>6, <2>7, <2>8, <2>9, <2>10, <2>11 DEF A!Next, HP!A!Next
<1>3. A!OneRowEach <=> HP!A!OneRowEach
  BY DEF A!Final, HP!A!Final, A!Rows, HP!A!Rows, A!FinalRows, HP!A!FinalRows,
     A!Done, HP!A!Done, A!LastOf, HP!A!LastOf, A!Loads, HP!A!Loads,
     A!OneRowEach, HP!A!OneRowEach, A!Cardinality, HP!A!Cardinality
<1>4. A!RowsStay <=> HP!A!RowsStay
  BY DEF A!Final, HP!A!Final, A!Rows, HP!A!Rows, A!FinalRows, HP!A!FinalRows,
     A!Done, HP!A!Done, A!RowsStay, HP!A!RowsStay
<1> QED
  BY <1>1, <1>2, <1>3, <1>4

(* However a campaign is killed, aborted and resumed, a cell is scored once *)
(* and the report counts what the matrix counted; an item of an arm has one *)
(* final row (eval/matrix.py, benchmark.py; scripts/mod/world_select_run.py).*)
THEOREM ResumesAreExact == Spec => ResumesExact
<1>1. Init /\ part = "matrix" => HP!M!Init
  BY SameMatrix DEF Init
<1>2. part = "matrix" /\ [Next]_vars => [HP!M!Next]_(HP!M!vars)
  BY SameMatrix DEF Next, vars, HP!M!vars
<1>3. (part = "matrix" /\ [Next]_vars => (part = "matrix")')
      /\ (~(part = "matrix") /\ [Next]_vars => ~(part = "matrix")')
  BY DEF Next, vars
<1>4. HP!M!Spec => /\ [](HP!M!Counted /\ HP!M!Claims /\ HP!M!OneMatrix)
                  /\ [][HP!M!ScoredOnce]_(HP!M!vars)
  <2>1. HP!MatrixConstants
    BY PartsAssumption DEF HP!MatrixConstants, HP!M!Cell, IsFiniteSet, HP!IsFiniteSet
  <2> QED
    BY <2>1, HP!MatrixResumes
<1>5. part = "matrix" /\ [Next]_vars /\ [HP!M!ScoredOnce]_(HP!M!vars)
        => [part = "matrix" => M!ScoredOnce]_vars
  BY SameMatrix DEF Next, vars, HP!M!vars, Rest7
<1>6. ~(part = "matrix") /\ [Next]_vars => [part = "matrix" => M!ScoredOnce]_vars
  OBVIOUS
<1>7. Init /\ part = "arm" => HP!A!Init
  BY SameArm DEF Init
<1>8. part = "arm" /\ [Next]_vars => [HP!A!Next]_(HP!A!vars)
  BY SameArm DEF Next, vars, HP!A!vars
<1>9. (part = "arm" /\ [Next]_vars => (part = "arm")')
      /\ (~(part = "arm") /\ [Next]_vars => ~(part = "arm")')
  BY DEF Next, vars
<1>10. HP!A!Spec => []HP!A!OneRowEach /\ [][HP!A!RowsStay]_(HP!A!vars)
  <2>1. HP!ArmConstants
    BY PartsAssumption DEF HP!ArmConstants, HP!ArmRow, ArmRows, HP!A!Final
  <2> QED
    BY <2>1, HP!ArmRowsExact
<1>11. part = "arm" /\ [Next]_vars /\ [HP!A!RowsStay]_(HP!A!vars)
         => [part = "arm" => A!RowsStay]_vars
  BY SameArm DEF Next, vars, HP!A!vars, Rest7
<1>12. ~(part = "arm") /\ [Next]_vars => [part = "arm" => A!RowsStay]_vars
  OBVIOUS
<1>13. Spec => [](part = "matrix" => M!Counted /\ M!Claims /\ M!OneMatrix)
  BY <1>1, <1>2, <1>3, <1>4, SameMatrix, PTL DEF Spec, HP!M!Spec
<1>14. Spec => [][part = "matrix" => M!ScoredOnce]_vars
  BY <1>1, <1>2, <1>3, <1>4, <1>5, <1>6, PTL DEF Spec, HP!M!Spec
<1>15. Spec => [](part = "arm" => A!OneRowEach)
  BY <1>7, <1>8, <1>9, <1>10, SameArm, PTL DEF Spec, HP!A!Spec
<1>16. Spec => [][part = "arm" => A!RowsStay]_vars
  BY <1>7, <1>8, <1>9, <1>10, <1>11, <1>12, PTL DEF Spec, HP!A!Spec
<1> QED
  BY <1>13, <1>14, <1>15, <1>16, PTL DEF ResumesExact

-----------------------------------------------------------------------------
LEMMA SameStream ==
    /\ T!Init => HP!T!Init
    /\ T!Next => HP!T!Next
    /\ T!StreamExact <=> HP!T!StreamExact
<1>1. T!Init => HP!T!Init
  BY DEF T!Last, HP!T!Last, T!Events, HP!T!Events, T!NoConn, HP!T!NoConn,
     T!Init, HP!T!Init
<1>2. T!Next => HP!T!Next
  BY DEF T!NoConn, HP!T!NoConn, T!Writes, HP!T!Writes, T!Moves, HP!T!Moves,
     T!Servable, HP!T!Servable, T!HasEnded, HP!T!HasEnded, T!MayConnect,
     HP!T!MayConnect, T!Connects, HP!T!Connects, T!Resumes, HP!T!Resumes,
     T!AllSent, HP!T!AllSent, T!Reads, HP!T!Reads, T!Shown, HP!T!Shown,
     T!Sends, HP!T!Sends, T!Closes, HP!T!Closes, T!Receives, HP!T!Receives,
     T!Breaks, HP!T!Breaks, T!Next, HP!T!Next
<1>3. T!StreamExact <=> HP!T!StreamExact
  BY DEF T!Last, HP!T!Last, T!Events, HP!T!Events, T!Visible, HP!T!Visible,
     T!Took, HP!T!Took, T!StreamExact, HP!T!StreamExact
<1> QED
  BY <1>1, <1>2, <1>3

(* A browser takes each event it may see once, in order, and has them all  *)
(* at the stream's proper end (serve/stream.py).                           *)
THEOREM StreamsAreExact == Spec => []StreamExact
<1>1. Init /\ part = "stream" => HP!T!Init
  BY SameStream DEF Init
<1>2. part = "stream" /\ [Next]_vars => [HP!T!Next]_(HP!T!vars)
  BY SameStream DEF Next, vars, HP!T!vars
<1>3. (part = "stream" /\ [Next]_vars => (part = "stream")')
      /\ (~(part = "stream") /\ [Next]_vars => ~(part = "stream")')
  BY DEF Next, vars
<1>4. HP!T!Spec => []HP!T!StreamExact
  <2>1. HP!StreamConstants
    BY PartsAssumption DEF HP!StreamConstants
  <2> QED
    BY <2>1, HP!StreamsExact
<1> QED
  BY <1>1, <1>2, <1>3, <1>4, SameStream, PTL DEF Spec, HP!T!Spec, StreamExact

-----------------------------------------------------------------------------
LEMMA SameChain ==
    /\ E!Init => HP!E!Init
    /\ E!Next => HP!E!Next
    /\ E!LogPasses <=> HP!E!LogPasses
<1>1. E!Init => HP!E!Init
  BY DEF E!Disclosure, HP!E!Disclosure, E!Verbatim, HP!E!Verbatim, E!NoJob,
     HP!E!NoJob, E!Init, HP!E!Init
<1>2. E!Next => HP!E!Next
  BY DEF E!Disclosure, HP!E!Disclosure, E!Verbatim, HP!E!Verbatim, E!Kind,
     HP!E!Kind, E!Texts, HP!E!Texts, E!Event, HP!E!Event, E!Blank, HP!E!Blank,
     E!NoJob, HP!E!NoJob, E!Last, HP!E!Last, E!Free, HP!E!Free, E!Request,
     HP!E!Request, E!CallEvent, HP!E!CallEvent, E!Recorded, HP!E!Recorded,
     E!Retry, HP!E!Retry, E!Fail, HP!E!Fail, E!Sentence, HP!E!Sentence,
     E!Turn, HP!E!Turn, E!NoTurn, HP!E!NoTurn, E!LateRecord, HP!E!LateRecord,
     E!Unsaid, HP!E!Unsaid, E!TakesFloor, HP!E!TakesFloor, E!Delivered,
     HP!E!Delivered, E!Say, HP!E!Say, E!HangUp, HP!E!HangUp, E!CapHeld, HP!E!CapHeld,
     E!Spoken, HP!E!Spoken, E!Release, HP!E!Release, E!CallOpens,
     HP!E!CallOpens, E!Discloses, HP!E!Discloses, E!Asked, HP!E!Asked,
     E!Released, HP!E!Released, E!Revoked, HP!E!Revoked, E!Heard, HP!E!Heard,
     E!CallCloses, HP!E!CallCloses, E!Ends, HP!E!Ends, E!LaneStep,
     HP!E!LaneStep, E!LineStep, HP!E!LineStep, E!Next, HP!E!Next
<1>3. E!LogPasses <=> HP!E!LogPasses
  BY DEF E!Disclosure, HP!E!Disclosure, E!Verbatim, HP!E!Verbatim, E!Texts,
     HP!E!Texts, E!Of, HP!E!Of, E!CitedBy, HP!E!CitedBy, E!SameGen, HP!E!SameGen,
     E!TurnBacked, HP!E!TurnBacked, E!OneTurnPerCall, HP!E!OneTurnPerCall,
     E!Sources, HP!E!Sources, E!FromTurn, HP!E!FromTurn, E!DeliveredFrom,
     HP!E!DeliveredFrom, E!DeliveredOf, HP!E!DeliveredOf, E!ItemsSaidOnce,
     HP!E!ItemsSaidOnce, E!ReleaseCarriesCap, HP!E!ReleaseCarriesCap,
     E!LogPasses, HP!E!LogPasses, E!Cardinality, HP!E!Cardinality
<1> QED
  BY <1>1, <1>2, <1>3

(* Every line said is traced to one answer of a model, or to one line of   *)
(* the Guard's (evidence/chain.py, llm/http.py, kernel/speaker.py).        *)
THEOREM LogsAllPass == Spec => []LogsPass
<1>1. Init /\ part = "chain" => HP!E!Init
  BY SameChain DEF Init
<1>2. part = "chain" /\ [Next]_vars => [HP!E!Next]_(HP!E!vars)
  BY SameChain DEF Next, vars, HP!E!vars
<1>3. (part = "chain" /\ [Next]_vars => (part = "chain")')
      /\ (~(part = "chain") /\ [Next]_vars => ~(part = "chain")')
  BY DEF Next, vars
<1>4. HP!E!Spec => []HP!E!LogPasses
  <2>1. HP!LogConstants
    BY PartsAssumption DEF HP!LogConstants, HP!E!Disclosure, HP!E!Verbatim
  <2> QED
    BY <2>1, HP!EveryLogPasses
<1> QED
  BY <1>1, <1>2, <1>3, <1>4, SameChain, PTL DEF Spec, HP!E!Spec, LogsPass

-----------------------------------------------------------------------------
PP == INSTANCE PartnersProofs WITH
        Horizon <- UserHorizon, call <- x1, calls <- x2, tries <- x3,
        live <- x4, more <- x5, ending <- x6, dead <- x7, leaves <- x8,
        aborted <- x9, ledger <- x10, attempts <- x11, late <- x12,
        reason <- x13, now <- x1, msgs <- x2, task <- x3, fired <- x4,
        mind <- x5, turns <- x6, queue <- x7, busy <- x8, incoming <- x9,
        fences <- x10, subjects <- x11, pending <- x12, offered <- x13,
        granted <- x14, stopped <- x15, cleared <- x16,
        clock <- x1, said <- x2, backlog <- x3, phase <- x4, block <- x5,
        listed <- x6, decided <- x7, state <- x8, rung <- x9, offers <- x10,
        levers <- x11, confirming <- x12, identity <- x13, timers <- x14,
        silences <- x15, holds <- x16, holdSince <- x17, holdClock <- x18,
        free <- x19, inbox <- x20, asked <- x21, accepted <- x22

LEMMA SameCalls ==
    /\ C!Init => PP!C!Init
    /\ C!Next => PP!C!Next
    /\ C!EveryAttemptCharged <=> PP!C!EveryAttemptCharged
    /\ C!RunawayStops <=> PP!C!RunawayStops
    /\ C!EndNamesTheWorst <=> PP!C!EndNamesTheWorst
<1>1. C!Init => PP!C!Init
  BY DEF C!Tasks, PP!C!Tasks, C!Init, PP!C!Init
<1>2. C!Next => PP!C!Next
  BY DEF C!Tasks, PP!C!Tasks, C!NEW_WORK, PP!C!NEW_WORK, C!FACTOR,
     PP!C!FACTOR, C!Crossed, PP!C!Crossed, C!MayStep, PP!C!MayStep, C!End,
     PP!C!End, C!Leaves, PP!C!Leaves, C!TaskEnds, PP!C!TaskEnds, C!Attempt,
     PP!C!Attempt, C!Complete, PP!C!Complete, C!Charged, PP!C!Charged,
     C!Record, PP!C!Record, C!Runaway, PP!C!Runaway, C!Refused, PP!C!Refused,
     C!Begins, PP!C!Begins, C!Chunk, PP!C!Chunk, C!Retry, PP!C!Retry,
     C!Retries, PP!C!Retries, C!Fails, PP!C!Fails, C!Answers, PP!C!Answers,
     C!Deadline, PP!C!Deadline, C!OtherEnds, PP!C!OtherEnds, C!Stops,
     PP!C!Stops, C!Aborts, PP!C!Aborts, C!Cancelled, PP!C!Cancelled,
     C!Outcome, PP!C!Outcome, C!Closes, PP!C!Closes, C!Next, PP!C!Next
<1>3. C!EveryAttemptCharged <=> PP!C!EveryAttemptCharged
  BY DEF C!Tasks, PP!C!Tasks, C!EveryAttemptCharged, PP!C!EveryAttemptCharged,
     C!Cardinality, PP!C!Cardinality
<1>4. C!RunawayStops <=> PP!C!RunawayStops
  BY DEF C!RunawayStops, PP!C!RunawayStops
<1>5. C!EndNamesTheWorst <=> PP!C!EndNamesTheWorst
  BY DEF C!Tasks, PP!C!Tasks, C!FACTOR, PP!C!FACTOR, C!Crossed, PP!C!Crossed,
     C!EndNamesTheWorst, PP!C!EndNamesTheWorst
<1> QED
  BY <1>1, <1>2, <1>3, <1>4, <1>5

(* Every attempt is charged once, no call begins over a limit, and the     *)
(* end names the worst (llm/http.py, llm/spend.py, kernel/session.py).     *)
THEOREM CallsAreCharged == Spec => []CallsCharged
<1>1. Init /\ part = "model calls" => PP!C!Init
  BY SameCalls DEF Init
<1>2. part = "model calls" /\ [Next]_vars => [PP!C!Next]_(PP!C!vars)
  BY SameCalls DEF Next, vars, PP!C!vars
<1>3. (part = "model calls" /\ [Next]_vars => (part = "model calls")')
      /\ (~(part = "model calls") /\ [Next]_vars => ~(part = "model calls")')
  BY DEF Next, vars
<1>4. PP!C!Spec => [](PP!C!EveryAttemptCharged /\ PP!C!RunawayStops /\ PP!C!EndNamesTheWorst)
  <2>1. PP!CallConstants
    BY PartsAssumption DEF PP!CallConstants, PP!Reasons, PP!Attempts, Attempts, Ends
  <2> QED
    BY <2>1, PP!CallsAccounted
<1> QED
  BY <1>1, <1>2, <1>3, <1>4, SameCalls, PTL DEF Spec, PP!C!Spec, CallsCharged

-----------------------------------------------------------------------------
LEMMA SameUser ==
    /\ P!Init => PP!P!Init
    /\ P!Next => PP!P!Next
    /\ P!GrantHeedsStop <=> PP!P!GrantHeedsStop
<1>1. P!Init => PP!P!Init
  BY DEF P!Triggers, PP!P!Triggers, P!Job, PP!P!Job, P!NoJob, PP!P!NoJob,
     P!NoSubject, PP!P!NoSubject, P!Init, PP!P!Init
<1>2. P!Next => PP!P!Next
  BY DEF P!user, PP!P!user, P!chat, PP!P!chat, P!Triggers, PP!P!Triggers,
     P!Job, PP!P!Job, P!NoJob, PP!P!NoJob, P!NoSubject, PP!P!NoSubject,
     P!TimePasses, PP!P!TimePasses, P!AgentLine, PP!P!AgentLine, P!StopDue,
     PP!P!StopDue, P!Composes, PP!P!Composes, P!Replies, PP!P!Replies,
     P!Delivered, PP!P!Delivered, P!IsDelivered, PP!P!IsDelivered,
     P!FenceClears, PP!P!FenceClears, P!Asks, PP!P!Asks, P!IsOffered,
     PP!P!IsOffered, P!RepOffers, PP!P!RepOffers, P!Lapses, PP!P!Lapses,
     P!DelayOver, PP!P!DelayOver, P!Up, PP!P!Up, P!StopHeard, PP!P!StopHeard,
     P!Seen, PP!P!Seen, P!Decides, PP!P!Decides, P!Next, PP!P!Next,
     P!Cardinality, PP!P!Cardinality
<1>3. P!GrantHeedsStop <=> PP!P!GrantHeedsStop
  BY DEF P!GrantHeedsStop, PP!P!GrantHeedsStop
<1> QED
  BY <1>1, <1>2, <1>3

(* A grant never overtakes the stop its card set off (kernel/fence.py).    *)
THEOREM GrantsHeedTheStop == Spec => [](part = "principal" => P!GrantHeedsStop)
<1>1. Init /\ part = "principal" => PP!P!Init
  BY SameUser DEF Init
<1>2. part = "principal" /\ [Next]_vars => [PP!P!Next]_(PP!P!vars)
  BY SameUser DEF Next, vars, PP!P!user, PP!P!chat, PP!P!vars
<1>3. (part = "principal" /\ [Next]_vars => (part = "principal")')
      /\ (~(part = "principal") /\ [Next]_vars => ~(part = "principal")')
  BY DEF Next, vars
<1>4. PP!P!Spec => []PP!P!GrantHeedsStop
  <2>1. PP!UserConstants
    BY PartsAssumption DEF PP!UserConstants
  <2> QED
    BY <2>1, PP!GrantsHeedStops
<1> QED
  BY <1>1, <1>2, <1>3, <1>4, SameUser, PTL DEF Spec, PP!P!Spec

-----------------------------------------------------------------------------
(* The reactions of the rep's policy, one by one, as they are a large      *)
(* definition.                                                             *)
LEMMA SameReact ==
    ASSUME NEW c, NEW a, NEW t
    PROVE  R!React(c, a, t) = PP!R!React(c, a, t)
<1>1. \A x, k, ref : R!Says(x, k, ref) = PP!R!Says(x, k, ref)
  BY DEF R!Intent, PP!R!Intent, R!Says, PP!R!Says
<1>2. R!Hold(c, t) = PP!R!Hold(c, t)
  BY <1>1 DEF R!Hold, PP!R!Hold
<1>3. R!Identify(c, a.act) = PP!R!Identify(c, a.act)
  BY DEF R!Intent, PP!R!Intent, R!Says, PP!R!Says, R!Identify, PP!R!Identify
<1>4. R!Lever(c, a.act, t) = PP!R!Lever(c, a.act, t)
  BY DEF R!Intent, PP!R!Intent, R!Says, PP!R!Says, R!OfferState, PP!R!OfferState,
     R!Lever, PP!R!Lever
<1>5. R!Accept(c, a) = PP!R!Accept(c, a)
  BY DEF R!Intent, PP!R!Intent, R!Says, PP!R!Says, R!Unreferenced, PP!R!Unreferenced,
     R!Meant, PP!R!Meant, R!Accept, PP!R!Accept, R!Cardinality, PP!R!Cardinality
<1>6. R!Readback(c, a) = PP!R!Readback(c, a)
  BY DEF R!Intent, PP!R!Intent, R!Says, PP!R!Says, R!Readback, PP!R!Readback
<1>7. R!Decline(c) = PP!R!Decline(c)
  BY DEF R!Intent, PP!R!Intent, R!Says, PP!R!Says, R!OfferState, PP!R!OfferState,
     R!Decline, PP!R!Decline
<1> QED
  BY <1>1, <1>2, <1>3, <1>4, <1>5, <1>6, <1>7, Zenon DEF R!React, PP!R!React

LEMMA SameStep == ASSUME NEW a PROVE R!Step(a) <=> PP!R!Step(a)
<1>1. R!Core = PP!R!Core
  BY DEF R!Intent, PP!R!Intent, R!Core, PP!R!Core
<1>2. \A t : R!Expired(t) = PP!R!Expired(t) /\ R!ExpiredFirst(t) = PP!R!ExpiredFirst(t)
  BY DEF R!Intent, PP!R!Intent, R!Made, PP!R!Made, R!Open, PP!R!Open, R!Lapsed,
     PP!R!Lapsed, R!Expired, PP!R!Expired, R!ExpiredFirst, PP!R!ExpiredFirst,
     R!Cardinality, PP!R!Cardinality
<1>3. R!Done <=> PP!R!Done
  BY DEF R!TERMINAL, PP!R!TERMINAL, R!Done, PP!R!Done
<1>4. \A c, t : R!React(c, a, t) = PP!R!React(c, a, t)
  BY SameReact
<1> QED
  BY <1>1, <1>2, <1>3, <1>4 DEF R!Step, PP!R!Step

LEMMA SameRep ==
    /\ R!Init => PP!R!Init
    /\ R!Next => PP!R!Next
    /\ R!CommitMeant <=> PP!R!CommitMeant
    /\ R!StrikesReported <=> PP!R!StrikesReported
<1>1. R!Init => PP!R!Init
  BY DEF R!Init, PP!R!Init
<1>2. R!Next => PP!R!Next
  <2>1. R!LabelledActs = PP!R!LabelledActs
    BY DEF R!Made, PP!R!Made, R!EarActs, PP!R!EarActs, R!LabelledActs,
       PP!R!LabelledActs
  <2>2. R!TimePasses => PP!R!TimePasses
    BY DEF R!policy, PP!R!policy, R!turn, PP!R!turn, R!TimePasses,
       PP!R!TimePasses
  <2>3. R!Hear => PP!R!Hear
    BY DEF R!policy, PP!R!policy, R!turn, PP!R!turn, R!Hear, PP!R!Hear
  <2>4. R!TakeBlock => PP!R!TakeBlock
    BY DEF R!policy, PP!R!policy, R!turn, PP!R!turn, R!TERMINAL,
       PP!R!TERMINAL, R!Done, PP!R!Done, R!Made, PP!R!Made, R!TakeBlock,
       PP!R!TakeBlock
  <2>5. R!Labels => PP!R!Labels
    BY DEF R!policy, PP!R!policy, R!Labels, PP!R!Labels
  <2>6. R!Voices => PP!R!Voices
    BY DEF R!policy, PP!R!policy, R!TERMINAL, PP!R!TERMINAL, R!Done,
       PP!R!Done, R!Voices, PP!R!Voices
  <2>7. R!TurnEnds => PP!R!TurnEnds
    BY DEF R!policy, PP!R!policy, R!TERMINAL, PP!R!TERMINAL, R!Done,
       PP!R!Done, R!FILLERS, PP!R!FILLERS, R!Kept, PP!R!Kept, R!Voiced,
       PP!R!Voiced, R!Struck, PP!R!Struck, R!TurnEnds, PP!R!TurnEnds,
       R!Cardinality, PP!R!Cardinality
  <2>8. R!Tick => PP!R!Tick
    BY DEF R!TERMINAL, PP!R!TERMINAL, R!Done, PP!R!Done, R!Made, PP!R!Made,
       R!Open, PP!R!Open, R!Intent, PP!R!Intent, R!Lapsed, PP!R!Lapsed,
       R!Expired, PP!R!Expired, R!ExpiredFirst, PP!R!ExpiredFirst, R!Tick,
       PP!R!Tick, R!Cardinality, PP!R!Cardinality
  <2> QED
    BY <2>1, <2>2, <2>3, <2>4, <2>5, <2>6, <2>7, <2>8,
       SameStep DEF R!Next, PP!R!Next
<1>3. R!CommitMeant <=> PP!R!CommitMeant
  BY DEF R!CommitMeant, PP!R!CommitMeant
<1>4. R!StrikesReported <=> PP!R!StrikesReported
  BY DEF R!TERMINAL, PP!R!TERMINAL, R!Done, PP!R!Done, R!Strikes,
     PP!R!Strikes, R!StrikesReported, PP!R!StrikesReported
<1> QED
  BY <1>1, <1>2, <1>3, <1>4

(* The rep commits only what the caller named or was asked, and reports    *)
(* every strike once (env/counterparty/policy.py, kernel/channels.py).     *)
THEOREM RepIsHonest == Spec => [](part = "rep" => R!CommitMeant /\ R!StrikesReported)
<1>1. Init /\ part = "rep" => PP!R!Init
  BY SameRep DEF Init
<1>2. part = "rep" /\ [Next]_vars => [PP!R!Next]_(PP!R!vars)
  BY SameRep DEF Next, vars, PP!R!policy, PP!R!turn, PP!R!vars
<1>3. (part = "rep" /\ [Next]_vars => (part = "rep")')
      /\ (~(part = "rep") /\ [Next]_vars => ~(part = "rep")')
  BY DEF Next, vars
<1>4. PP!R!Spec => [](PP!R!CommitMeant /\ PP!R!StrikesReported)
  <2>1. PP!RepConstants
    BY PartsAssumption DEF PP!RepConstants
  <2> QED
    BY <2>1, PP!RepMeans
<1> QED
  BY <1>1, <1>2, <1>3, <1>4, SameRep, PTL DEF Spec, PP!R!Spec

(* Both halves of what the simulated partners keep to (env/).              *)
THEOREM PartnersAreHonest == Spec => []PartnersHonest
BY GrantsHeedTheStop, RepIsHonest, PTL DEF PartnersHonest

-----------------------------------------------------------------------------
KP == INSTANCE KernelProofs WITH
        log <- x1, busEnded <- x2, queue <- x3, current <- x4,
        turn <- x5, refused <- x6, raised <- x7, received <- x8, dropped <- x9,
        nested <- x10,
        Waits <- LagWaits, Horizon <- LagHorizon, MaxLines <- LagLines,
        now <- x1, ended <- x2,
        call <- x3, fast <- x4, triggered <- x5, lines <- x6, gens <- x7,
        held <- x8, timer <- x9, slow <- x10, asked <- x11, steps <- x12,
        reasons <- x13, said <- x14, unseen <- x15, rested <- x16,
        intake <- x1, opened <- x2, deadline <- x3, soon <- x4, facts <- x5,
        needs <- x6, unvoiced <- x7, voicing <- x8, asks <- x9, hold <- x10,
        told <- x11,
        CARD_TTL <- CardLife, bb <- x1, clock <- x2, todo <- x3, checked <- x4,
        rejected <- x5,
        repLines <- x1, offers <- x2, requests <- x3, acting <- x4

LEMMA SameBus ==
    /\ B!Init => KP!B!Init
    /\ B!Next => KP!B!Next
    /\ B!LogOrder <=> KP!B!LogOrder
    /\ B!RejectionReachesEmitter <=> KP!B!RejectionReachesEmitter
<1>1. B!Init => KP!B!Init
  BY DEF B!Subs, KP!B!Subs, B!Init, KP!B!Init
<1>2. B!Next => KP!B!Next
  BY DEF B!Delivering, KP!B!Delivering, B!Append1, KP!B!Append1, B!Emit,
     KP!B!Emit, B!EmitRejected, KP!B!EmitRejected, B!Queue, KP!B!Queue,
     B!NestedEmit, KP!B!NestedEmit, B!NestedRejected, KP!B!NestedRejected,
     B!Deliver, KP!B!Deliver, B!Proceeds, KP!B!Proceeds, B!Fails, KP!B!Fails,
     B!Returns, KP!B!Returns, B!Rejection, KP!B!Rejection, B!Raises,
     KP!B!Raises, B!Unavailable, KP!B!Unavailable, B!ReturnsRejected,
     KP!B!ReturnsRejected, B!Next, KP!B!Next
<1>3. B!LogOrder <=> KP!B!LogOrder
  BY DEF B!Subs, KP!B!Subs, B!Delivering, KP!B!Delivering, B!Received,
     KP!B!Received, B!LogOrder, KP!B!LogOrder
<1>4. B!RejectionReachesEmitter <=> KP!B!RejectionReachesEmitter
  BY DEF B!Delivering, KP!B!Delivering, B!RejectionReachesEmitter,
     KP!B!RejectionReachesEmitter
<1> QED
  BY <1>1, <1>2, <1>3, <1>4

(* Subscribers see events in the order of the log, and a rejected nested   *)
(* emit reaches its emitter (core/bus.py).                                 *)
THEOREM EventsReachInOrder == Spec => []EventOrder
<1>1. Init /\ part = "bus" => KP!B!Init
  BY SameBus DEF Init
<1>2. part = "bus" /\ [Next]_vars => [KP!B!Next]_(KP!B!vars)
  BY SameBus DEF Next, vars, KP!B!vars
<1>3. (part = "bus" /\ [Next]_vars => (part = "bus")')
      /\ (~(part = "bus") /\ [Next]_vars => ~(part = "bus")')
  BY DEF Next, vars
<1>4. KP!B!Spec => []KP!B!LogOrder
  BY PartsAssumption, KP!EventsInOrder
<1>5. KP!B!Spec => []KP!B!RejectionReachesEmitter
  BY PartsAssumption, KP!RejectionsReach
<1> QED
  BY <1>1, <1>2, <1>3, <1>4, <1>5, SameBus, PTL DEF Spec, KP!B!Spec, EventOrder

-----------------------------------------------------------------------------
LEMMA SameWakes ==
    /\ W!Init => KP!W!Init
    /\ W!Next => KP!W!Next
    /\ W!LagBound <=> KP!W!LagBound
    /\ W!NeverIdle <=> KP!W!NeverIdle
<1>1. W!Init => KP!W!Init
  BY DEF W!NoTimer, KP!W!NoTimer, W!Init, KP!W!Init
<1>2. W!Next => KP!W!Next
  BY DEF W!session, KP!W!session, W!NoTimer, KP!W!NoTimer, W!Later,
     KP!W!Later, W!Stopped, KP!W!Stopped, W!Urgent, KP!W!Urgent, W!Woken,
     KP!W!Woken, W!Answered, KP!W!Answered, W!TimePasses, KP!W!TimePasses,
     W!Opens, KP!W!Opens, W!Hold, KP!W!Hold, W!RepLine, KP!W!RepLine,
     W!Closes, KP!W!Closes, W!OtherWake, KP!W!OtherWake, W!OtherTrigger,
     KP!W!OtherTrigger, W!FastAsks, KP!W!FastAsks, W!FastTurns,
     KP!W!FastTurns, W!FastSpoke, KP!W!FastSpoke, W!TimerFires,
     KP!W!TimerFires, W!StepStarts, KP!W!StepStarts, W!StepCap, KP!W!StepCap,
     W!Waited, KP!W!Waited, W!Completed, KP!W!Completed, W!StepCompletes,
     KP!W!StepCompletes, W!Next, KP!W!Next
<1>3. W!LagBound <=> KP!W!LagBound
  BY DEF W!Later, KP!W!Later, W!LagBound, KP!W!LagBound
<1>4. W!NeverIdle <=> KP!W!NeverIdle
  BY DEF W!NeverIdle, KP!W!NeverIdle
<1> QED
  BY <1>1, <1>2, <1>3, <1>4

(* A rep line is seen by a Slow step within the bound, and Slow is never   *)
(* idle past the heartbeat (kernel/wake.py).                               *)
THEOREM SlowSeesInTime == Spec => []SlowLag
<1>1. Init /\ part = "wakes" => KP!W!Init
  BY SameWakes DEF Init
<1>2. part = "wakes" /\ [Next]_vars => [KP!W!Next]_(KP!W!vars)
  BY SameWakes DEF Next, vars, KP!W!session, KP!W!vars
<1>3. (part = "wakes" /\ [Next]_vars => (part = "wakes")')
      /\ (~(part = "wakes") /\ [Next]_vars => ~(part = "wakes")')
  BY DEF Next, vars
<1>4. KP!W!Spec => [](KP!W!LagBound /\ KP!W!NeverIdle)
  <2>1. KP!WakeConstants
    BY PartsAssumption DEF KP!WakeConstants
  <2> QED
    BY <2>1, KP!LagBounded
<1> QED
  BY <1>1, <1>2, <1>3, <1>4, SameWakes, PTL DEF Spec, KP!W!Spec, SlowLag

-----------------------------------------------------------------------------
LEMMA SameGate ==
    /\ G!Init => KP!G!Init
    /\ G!Next => KP!G!Next
    /\ G!NoKeyStuck <=> KP!G!NoKeyStuck
    /\ G!StartCallStep <=> KP!G!StartCallStep
<1>1. G!Init => KP!G!Init
  BY DEF G!NoNeed, KP!G!NoNeed, G!Init, KP!G!Init
<1>2. G!Next => KP!G!Next
  BY DEF G!gate, KP!G!gate, G!ledger, KP!G!ledger, G!Missing, KP!G!Missing,
     G!Waiting, KP!G!Waiting, G!AskDenied, KP!G!AskDenied, G!AskUser,
     KP!G!AskUser, G!Mine, KP!G!Mine, G!Voiced, KP!G!Voiced, G!Voice,
     KP!G!Voice, G!UserMsg, KP!G!UserMsg, G!FactRecorded, KP!G!FactRecorded,
     G!StartDenied, KP!G!StartDenied, G!StartCall, KP!G!StartCall, G!Opens,
     KP!G!Opens, G!FastHolds, KP!G!FastHolds, G!LineHeard, KP!G!LineHeard,
     G!Next, KP!G!Next
<1>3. G!NoKeyStuck <=> KP!G!NoKeyStuck
  BY DEF G!NoKeyStuck, KP!G!NoKeyStuck
<1>4. G!StartCallStep <=> KP!G!StartCallStep
  BY DEF G!ledger, KP!G!ledger, G!Missing, KP!G!Missing, G!StartDenied,
     KP!G!StartDenied, G!StartCall, KP!G!StartCall, G!StartCallStep,
     KP!G!StartCallStep
<1> QED
  BY <1>1, <1>2, <1>3, <1>4

(* A key that waits for the user was asked, or will be; and start_call     *)
(* opens only what the user replied to (guard/needs.py, slow/asks.py).     *)
THEOREM NeedsAreHonest == Spec => NeedsHonest
<1>1. Init /\ part = "call gate" => KP!G!Init
  BY SameGate DEF Init
<1>2. part = "call gate" /\ [Next]_vars => [KP!G!Next]_(KP!G!vars)
  BY SameGate DEF Next, vars, KP!G!vars
<1>3. (part = "call gate" /\ [Next]_vars => (part = "call gate")')
      /\ (~(part = "call gate") /\ [Next]_vars => ~(part = "call gate")')
  BY DEF Next, vars
<1>4. KP!G!Spec => []KP!G!NoKeyStuck
  BY KP!KeysUnstuck
<1>5. KP!G!Spec => [][KP!G!StartCallStep]_(KP!G!vars)
  <2>1. KP!GateConstants
    BY PartsAssumption DEF KP!GateConstants
  <2> QED
    BY <2>1, KP!StartsAnswered
<1>6. part = "call gate" /\ [Next]_vars /\ [KP!G!StartCallStep]_(KP!G!vars)
        => [part = "call gate" => G!StartCallStep]_vars
  BY SameGate DEF Next, vars, KP!G!vars, Rest11
<1>7. ~(part = "call gate") /\ [Next]_vars => [part = "call gate" => G!StartCallStep]_vars
  OBVIOUS
<1> QED
  BY <1>1, <1>2, <1>3, <1>4, <1>5, <1>6, <1>7, SameGate, PTL DEF Spec, KP!G!Spec, NeedsHonest

-----------------------------------------------------------------------------
LEMMA SameFold ==
    /\ K!Init => KP!K!Init
    /\ K!Next => KP!K!Next
    /\ K!FoldTakesTheChecked <=> KP!K!FoldTakesTheChecked
<1>1. K!Init => KP!K!Init
  BY DEF K!Never, KP!K!Never, K!Init, KP!K!Init
<1>2. K!Next => KP!K!Next
  BY DEF K!TERMINAL, KP!K!TERMINAL, K!TRANSITIONS, KP!K!TRANSITIONS,
     K!MayMove, KP!K!MayMove, K!NextStatus, KP!K!NextStatus, K!Cardinality,
     KP!K!Cardinality, K!Never, KP!K!Never, K!Min2, KP!K!Min2, K!Used,
     KP!K!Used, K!Waiting, KP!K!Waiting, K!Current, KP!K!Current, K!TakesCard,
     KP!K!TakesCard, K!TakesMandate, KP!K!TakesMandate, K!TakesCapability,
     KP!K!TakesCapability, K!TakesStatus, KP!K!TakesStatus, K!Takes,
     KP!K!Takes, K!Applied, KP!K!Applied, K!Stale, KP!K!Stale, K!Replanned,
     KP!K!Replanned, K!Emit, KP!K!Emit, K!Tick, KP!K!Tick, K!Checks,
     KP!K!Checks, K!Moved, KP!K!Moved, K!OpenOffer, KP!K!OpenOffer,
     K!RecordOffer, KP!K!RecordOffer, K!Readback, KP!K!Readback,
     K!RequestApproval, KP!K!RequestApproval, K!ProposeMandate,
     KP!K!ProposeMandate, K!TightenMandate, KP!K!TightenMandate, K!Revoke,
     KP!K!Revoke, K!DecideApproval, KP!K!DecideApproval, K!DecideMandate,
     KP!K!DecideMandate, K!GrantEnds, KP!K!GrantEnds, K!MayAccept,
     KP!K!MayAccept, K!AcceptOffer, KP!K!AcceptOffer, K!DeclineOffer,
     KP!K!DeclineOffer, K!Revalidate, KP!K!Revalidate, K!Speak, KP!K!Speak,
     K!Heard, KP!K!Heard, K!CheckAccount, KP!K!CheckAccount,
     K!FinishCompleted, KP!K!FinishCompleted, K!FinishNoDeal,
     KP!K!FinishNoDeal, K!Moves, KP!K!Moves, K!Fences, KP!K!Fences, K!Next,
     KP!K!Next
<1>3. K!FoldTakesTheChecked <=> KP!K!FoldTakesTheChecked
  BY DEF K!FoldTakesTheChecked, KP!K!FoldTakesTheChecked
<1> QED
  BY <1>1, <1>2, <1>3

(* What the Guard lets through, the fold takes, but for an expiry between  *)
(* the check and the emission (core/fold.py, guard/*.py).                  *)
THEOREM FoldTakes == Spec => []FoldTakesTheChecked
<1>1. Init /\ part = "fold" => KP!K!Init
  BY SameFold DEF Init
<1>2. part = "fold" /\ [Next]_vars => [KP!K!Next]_(KP!K!vars)
  BY SameFold DEF Next, vars, KP!K!vars
<1>3. (part = "fold" /\ [Next]_vars => (part = "fold")')
      /\ (~(part = "fold") /\ [Next]_vars => ~(part = "fold")')
  BY DEF Next, vars
<1>4. KP!K!Spec => []KP!K!FoldTakesTheChecked
  <2>1. KP!FoldConstants
    BY PartsAssumption DEF KP!FoldConstants
  <2> QED
    BY <2>1, KP!TakesTheChecked
<1> QED
  BY <1>1, <1>2, <1>3, <1>4, SameFold, PTL DEF Spec, KP!K!Spec, FoldTakesTheChecked

-----------------------------------------------------------------------------
LEMMA SameReadback ==
    /\ Q!Init => KP!Q!Init
    /\ Q!Next => KP!Q!Next
    /\ Q!LastWord <=> KP!Q!LastWord
    /\ Q!ChangeAskedAgain <=> KP!Q!ChangeAskedAgain
<1>1. Q!Init => KP!Q!Init
  BY DEF Q!Empty, KP!Q!Empty, Q!Init, KP!Q!Init
<1>2. Q!Next => KP!Q!Next
  <2>1. \A ref : Q!Confirmed(ref) = KP!Q!Confirmed(ref)
    BY DEF Q!Unheard, KP!Q!Unheard, Q!Since, KP!Q!Since, Q!Before,
       KP!Q!Before, Q!Strict, KP!Q!Strict, Q!Complete, KP!Q!Complete,
       Q!Implied, KP!Q!Implied, Q!Theirs, KP!Q!Theirs, Q!Mine, KP!Q!Mine,
       Q!Unchanged, KP!Q!Unchanged, Q!Stable, KP!Q!Stable, Q!NoChangeAcross,
       KP!Q!NoChangeAcross, Q!Together, KP!Q!Together, Q!Anchors,
       KP!Q!Anchors, Q!HeardAsks, KP!Q!HeardAsks, Q!Own, KP!Q!Own,
       Q!Confirmed, KP!Q!Confirmed, Q!Min, KP!Q!Min, Q!Max, KP!Q!Max
  <2>2. Q!ActBegins => KP!Q!ActBegins
    BY <2>1 DEF Q!ActBegins, KP!Q!ActBegins
  <2>3. Q!ActEnds => KP!Q!ActEnds
    BY DEF Q!ActEnds, KP!Q!ActEnds
  <2>4. Q!AskReadback => KP!Q!AskReadback
    BY DEF Q!Unheard, KP!Q!Unheard, Q!AskReadback, KP!Q!AskReadback
  <2>5. Q!AskHeard => KP!Q!AskHeard
    BY DEF Q!Unheard, KP!Q!Unheard, Q!AskHeard, KP!Q!AskHeard
  <2>6. Q!RepLine => KP!Q!RepLine
    BY DEF Q!RepLine, KP!Q!RepLine
  <2>7. Q!Revisions = KP!Q!Revisions
    BY DEF Q!Revisions, KP!Q!Revisions, Q!MapThenSumSet, KP!Q!MapThenSumSet,
       Q!MapThenFoldSet, KP!Q!MapThenFoldSet
  <2>8. \A ref : Q!RecordOffer(ref) => KP!Q!RecordOffer(ref)
    BY <2>7 DEF Q!Values, KP!Q!Values, Q!Recordable, KP!Q!Recordable,
       Q!RecordOffer, KP!Q!RecordOffer
  <2>9. \A ref : Q!DeclineOffer(ref) => KP!Q!DeclineOffer(ref)
    BY DEF Q!DeclineOffer, KP!Q!DeclineOffer
  <2> QED
    BY <2>2, <2>3, <2>4, <2>5, <2>6, <2>8, <2>9 DEF Q!Next, KP!Q!Next
<1>3. Q!LastWord <=> KP!Q!LastWord
  BY DEF Q!Unheard, KP!Q!Unheard, Q!Since, KP!Q!Since, Q!Complete,
     KP!Q!Complete, Q!HeardAsks, KP!Q!HeardAsks, Q!MayBind, KP!Q!MayBind,
     Q!LastWord, KP!Q!LastWord, Q!Max, KP!Q!Max
<1>4. Q!ChangeAskedAgain <=> KP!Q!ChangeAskedAgain
  BY DEF Q!Unheard, KP!Q!Unheard, Q!Since, KP!Q!Since, Q!Before, KP!Q!Before,
     Q!Complete, KP!Q!Complete, Q!Theirs, KP!Q!Theirs, Q!Mine, KP!Q!Mine,
     Q!HeardAsks, KP!Q!HeardAsks, Q!MayBind, KP!Q!MayBind, Q!AskedAgain,
     KP!Q!AskedAgain, Q!ChangeAskedAgain, KP!Q!ChangeAskedAgain, Q!Max,
     KP!Q!Max
<1> QED
  BY <1>1, <1>2, <1>3, <1>4

(* The Guard binds only the rep's last word, and no term on the strength of *)
(* the very answer that changed it (guard/readback.py).                    *)
THEOREM BindsTheReadBack == Spec => BindsReadBack
<1>1. Init /\ part = "read-back" => KP!Q!Init
  BY SameReadback DEF Init
<1>2. part = "read-back" /\ [Next]_vars => [KP!Q!Next]_(KP!Q!vars)
  BY SameReadback DEF Next, vars, KP!Q!vars
<1>3. (part = "read-back" /\ [Next]_vars => (part = "read-back")')
      /\ (~(part = "read-back") /\ [Next]_vars => ~(part = "read-back")')
  BY DEF Next, vars
<1>4. KP!Q!Spec => []KP!Q!LastWord /\ [][KP!Q!ChangeAskedAgain]_(KP!Q!vars)
  <2>1. KP!RbConstants
    BY PartsAssumption DEF KP!RbConstants, KP!Q!Fields
  <2> QED
    BY <2>1, KP!BindsLastWord
<1>5. part = "read-back" /\ [Next]_vars /\ [KP!Q!ChangeAskedAgain]_(KP!Q!vars)
        => [part = "read-back" => Q!ChangeAskedAgain]_vars
  BY SameReadback DEF Next, vars, KP!Q!vars, Rest4
<1>6. ~(part = "read-back") /\ [Next]_vars => [part = "read-back" => Q!ChangeAskedAgain]_vars
  OBVIOUS
<1> QED
  BY <1>1, <1>2, <1>3, <1>4, <1>5, <1>6, SameReadback, PTL DEF Spec, KP!Q!Spec, BindsReadBack

-----------------------------------------------------------------------------
LP == INSTANCE LaneProofs WITH
        Moves <- GuideMoves, MaxMsgs <- 0, MaxNotices <- 0,
        MaxLines <- VerbatimLines, MaxEpochs <- LaneEpochs, lane <- x1,
        closed <- x2, pending <- x3, phase <- x4, ask <- x5, voices <- x6,
        moved <- x7, since <- x8, hold <- x9, holds <- x10, newest <- x11,
        unvoiced <- x12, said <- x13, retried <- x14, card <- x15, sent <- x16,
        moves <- x17, gens <- x18, lines <- x19, fates <- x20

LEMMA SameHeard ==
    /\ H!HInit => LP!HInit
    /\ H!HNext => LP!HNext
    /\ H!Agree <=> LP!Agree
    /\ H!WaitsHonest <=> LP!WaitsHonest
    /\ H!FatesStay <=> LP!FatesStay
    /\ H!GuideHeardOnce <=> LP!GuideHeardOnce
<1>1. H!HInit => LP!HInit
  BY DEF H!Ask, LP!Ask, H!NoAsk, LP!NoAsk, H!Quiet, LP!Quiet, H!Init, LP!Init,
     H!HInit, LP!HInit
<1>2. H!HNext => LP!HNext
  <2>1. H!GuideSent => LP!GuideSent
    BY DEF H!generation, LP!generation, H!Ask, LP!Ask, H!Guide, LP!Guide,
       H!Without, LP!Without, H!Add, LP!Add, H!Guidance, LP!Guidance,
       H!GuideSent, LP!GuideSent
  <2>2. H!RepSays => LP!RepSays
    BY DEF H!memory, LP!memory, H!Ask, LP!Ask, H!Without, LP!Without, H!Add,
       LP!Add, H!RepLine, LP!RepLine, H!RepLines, LP!RepLines, H!RepSays,
       LP!RepSays, H!Cardinality, LP!Cardinality
  <2>3. H!RepCloses => LP!RepCloses
    BY DEF H!generation, LP!generation, H!memory, LP!memory, H!Closes,
       LP!Closes, H!RepLines, LP!RepLines, H!RepCloses, LP!RepCloses,
       H!Cardinality, LP!Cardinality
  <2>4. H!VerbatimLine => LP!VerbatimLine
    BY DEF H!memory, LP!memory, H!VerbatimHeard, LP!VerbatimHeard,
       H!VerbatimLine, LP!VerbatimLine
  <2>5. H!Epoch => LP!Epoch
    BY DEF H!memory, LP!memory, H!EpochMoves, LP!EpochMoves, H!log, LP!log,
       H!Epoch, LP!Epoch
  <2>6. H!Requested => LP!Requested
    BY DEF H!memory, LP!memory, H!URGENT, LP!URGENT, H!Quiet, LP!Quiet,
       H!Guide, LP!Guide, H!Without, LP!Without, H!First, LP!First, H!Moot,
       LP!Moot, H!Voices, LP!Voices, H!Serves, LP!Serves, H!Asked, LP!Asked,
       H!Requested, LP!Requested
  <2>7. H!CancelledEpoch => LP!CancelledEpoch
    BY DEF H!memory, LP!memory, H!Ask, LP!Ask, H!NoAsk, LP!NoAsk, H!Quiet,
       LP!Quiet, H!Without, LP!Without, H!Add, LP!Add, H!Again, LP!Again,
       H!Ends, LP!Ends, H!StaleEpoch, LP!StaleEpoch, H!This, LP!This,
       H!CancelledEpoch, LP!CancelledEpoch
  <2>8. H!TurnLogged => LP!TurnLogged
    BY DEF H!Ask, LP!Ask, H!NoAsk, LP!NoAsk, H!Quiet, LP!Quiet, H!Guide,
       LP!Guide, H!Without, LP!Without, H!Add, LP!Add, H!Ends, LP!Ends,
       H!Hold, LP!Hold, H!Turned, LP!Turned, H!This, LP!This, H!TurnLogged,
       LP!TurnLogged
  <2>9. H!CancelledStale => LP!CancelledStale
    BY DEF H!memory, LP!memory, H!Ask, LP!Ask, H!NoAsk, LP!NoAsk, H!Quiet,
       LP!Quiet, H!Without, LP!Without, H!Add, LP!Add, H!Ends, LP!Ends,
       H!Reply, LP!Reply, H!Fresh, LP!Fresh, H!StaleFloor, LP!StaleFloor,
       H!This, LP!This, H!CancelledStale, LP!CancelledStale
  <2>10. H!Speaks => LP!Speaks
    BY DEF H!memory, LP!memory, H!Hold, LP!Hold, H!Reply, LP!Reply, H!Fresh,
       LP!Fresh, H!TakesFloor, LP!TakesFloor, H!log, LP!log, H!Speaks,
       LP!Speaks
  <2>11. H!SentenceHeard => LP!SentenceHeard
    BY DEF H!vars, LP!vars, H!This, LP!This, H!Delivered, LP!Delivered,
       H!Left, LP!Left, H!SentenceHeard, LP!SentenceHeard
  <2>12. H!TurnHeard => LP!TurnHeard
    BY DEF H!Ask, LP!Ask, H!NoAsk, LP!NoAsk, H!Quiet, LP!Quiet, H!Ends,
       LP!Ends, H!Spoken, LP!Spoken, H!log, LP!log, H!This, LP!This,
       H!Delivered, LP!Delivered, H!Left, LP!Left, H!TurnHeard, LP!TurnHeard
  <2>13. H!TurnCut => LP!TurnCut
    BY DEF H!memory, LP!memory, H!Ask, LP!Ask, H!NoAsk, LP!NoAsk, H!Quiet,
       LP!Quiet, H!Ends, LP!Ends, H!Cut, LP!Cut, H!This, LP!This, H!Delivered,
       LP!Delivered, H!TurnCut, LP!TurnCut
  <2>14. H!Fates' = LP!Fates'
    BY DEF H!Dead, LP!Dead, H!Superseded, LP!Superseded, H!Playing,
       LP!Playing, H!Unknown, LP!Unknown, H!FateIn, LP!FateIn, H!Rendered,
       LP!Rendered, H!Fate, LP!Fate, H!Fates, LP!Fates, H!Max, LP!Max, H!Min,
       LP!Min
  <2> QED
    BY <2>1, <2>2, <2>3, <2>4, <2>5, <2>6, <2>7, <2>8, <2>9, <2>10, <2>11, <2>12, <2>13, <2>14
       DEF H!HNext, LP!HNext, H!HStep, LP!HStep
<1>3. H!Agree <=> LP!Agree
  BY DEF H!HeardOnes, LP!HeardOnes, H!Agree, LP!Agree
<1>4. H!WaitsHonest <=> LP!WaitsHonest
  BY DEF H!Guide, LP!Guide, H!Shown, LP!Shown, H!Sends, LP!Sends,
     H!FinalPending, LP!FinalPending, H!ComesYet, LP!ComesYet, H!WaitsHonest,
     LP!WaitsHonest, H!Max, LP!Max
<1>5. H!FatesStay <=> LP!FatesStay
  BY DEF H!Guide, LP!Guide, H!DIES, LP!DIES, H!HeardOnes, LP!HeardOnes,
     H!Shown, LP!Shown, H!Sends, LP!Sends, H!Sent, LP!Sent, H!AskedFinal,
     LP!AskedFinal, H!FatesStay, LP!FatesStay, H!Cardinality, LP!Cardinality,
     H!Max, LP!Max
<1>6. H!GuideHeardOnce <=> LP!GuideHeardOnce
  BY DEF H!GuideHeardOnce, LP!GuideHeardOnce
<1> QED
  BY <1>1, <1>2, <1>3, <1>4, <1>5, <1>6

LEMMA HeardPart ==
    /\ Init /\ part = "heard" => LP!HInit
    /\ part = "heard" /\ [Next]_vars => [LP!HNext]_(LP!hvars)
    /\ part = "heard" /\ [Next]_vars => (part = "heard")'
    /\ ~(part = "heard") /\ [Next]_vars => ~(part = "heard")'
<1>1. Init /\ part = "heard" => LP!HInit
  BY SameHeard DEF Init
<1>2. part = "heard" /\ [Next]_vars => [LP!HNext]_(LP!hvars)
  BY SameHeard DEF Next, vars, LP!hvars, LP!vars, LP!log
<1>3. (part = "heard" /\ [Next]_vars => (part = "heard")')
      /\ (~(part = "heard") /\ [Next]_vars => ~(part = "heard")')
  BY DEF Next, vars
<1> QED
  BY <1>1, <1>2, <1>3

(* A GUIDE the rep heard is not said again (kernel/lanes.py).              *)
THEOREM GuidesHeardOnce == Spec => [](part = "heard" => H!GuideHeardOnce)
<1>1. LP!HSpec => [](LP!Agree /\ LP!WaitsHonest /\ LP!GuideHeardOnce)
  BY LP!HeardAlike
<1> QED
  BY <1>1, HeardPart, SameHeard, PTL DEF Spec, LP!HSpec

(* The lane and Slow agree on what the rep heard, Slow waits only for what *)
(* can still be heard, and a GUIDE's fate, once settled, stays             *)
(* (slow/heard.py, slow/state.py, kernel/lanes.py).                        *)
THEOREM FatesAreSettled == Spec => FatesSettle
<1>1. LP!HSpec => [](LP!Agree /\ LP!WaitsHonest /\ LP!GuideHeardOnce)
  BY LP!HeardAlike
<1>2. LP!HSpec => [][LP!FatesStay]_(LP!hvars)
  BY LP!FatesSettled
<1>3. part = "heard" /\ [Next]_vars /\ [LP!FatesStay]_(LP!hvars)
        => [part = "heard" => H!FatesStay]_vars
  <2>1. CASE LP!FatesStay
    BY <2>1, SameHeard
  <2>2. CASE part = "heard" /\ [Next]_vars /\ UNCHANGED LP!hvars
    BY <2>2, SameHeard DEF Next, vars, LP!hvars, LP!vars, LP!log, Rest20
  <2> QED
    BY <2>1, <2>2
<1>4. ~(part = "heard") /\ [Next]_vars => [part = "heard" => H!FatesStay]_vars
  OBVIOUS
<1>5. Spec => [](part = "heard" => H!Agree /\ H!WaitsHonest)
  BY <1>1, HeardPart, SameHeard, PTL DEF Spec, LP!HSpec
<1>6. Spec => [][part = "heard" => H!FatesStay]_vars
  BY <1>2, <1>3, <1>4, HeardPart, PTL DEF Spec, LP!HSpec
<1> QED
  BY <1>5, <1>6 DEF FatesSettle
-----------------------------------------------------------------------------
LF == INSTANCE LaneProofs WITH
        Moves <- GuideMoves, MaxMsgs <- LaneMsgs, MaxNotices <- LaneNotices,
        MaxLines <- VerbatimLines, MaxEpochs <- LaneEpochs, lane <- x1,
        closed <- x2, pending <- x3, phase <- x4, ask <- x5, voices <- x6,
        moved <- x7, since <- x8, hold <- x9, holds <- x10, newest <- x11,
        unvoiced <- x12, said <- x13, retried <- x14, card <- x15, sent <- x16,
        moves <- x17, gens <- x18, lines <- x19, fates <- x20

LEMMA SameLane ==
    /\ F!Init => LF!Init
    /\ F!Next => LF!Next
    /\ F!DebtsKept <=> LF!DebtsKept
<1>1. F!Init => LF!Init
  BY DEF F!Ask, LF!Ask, F!NoAsk, LF!NoAsk, F!Quiet, LF!Quiet, F!Init,
       LF!Init
<1>2. F!Next => LF!Next
  <2>1. F!RepLine => LF!RepLine
    BY DEF F!memory, LF!memory, F!Ask, LF!Ask, F!Without, LF!Without, F!Add,
       LF!Add, F!RepLine, LF!RepLine
  <2>2. F!UserMsg => LF!UserMsg
    BY DEF F!generation, LF!generation, F!memory, LF!memory, F!Ask, LF!Ask,
       F!Without, LF!Without, F!Add, LF!Add, F!UserMsg, LF!UserMsg
  <2>3. F!Guidance => LF!Guidance
    BY DEF F!generation, LF!generation, F!Ask, LF!Ask, F!Guide, LF!Guide,
       F!Without, LF!Without, F!Add, LF!Add, F!Guidance, LF!Guidance
  <2>4. F!SlowMessage => LF!SlowMessage
    BY DEF F!generation, LF!generation, F!memory, LF!memory, F!Ask, LF!Ask,
       F!Without, LF!Without, F!Add, LF!Add, F!SlowMessage, LF!SlowMessage
  <2>5. F!Notice => LF!Notice
    BY DEF F!generation, LF!generation, F!memory, LF!memory, F!Ask, LF!Ask,
       F!Without, LF!Without, F!Add, LF!Add, F!Notice, LF!Notice
  <2>6. F!CardDecided => LF!CardDecided
    BY DEF F!generation, LF!generation, F!memory, LF!memory, F!CardDecided,
       LF!CardDecided
  <2>7. F!EpochMoves => LF!EpochMoves
    BY DEF F!memory, LF!memory, F!EpochMoves, LF!EpochMoves
  <2>8. F!VerbatimHeard => LF!VerbatimHeard
    BY DEF F!memory, LF!memory, F!VerbatimHeard, LF!VerbatimHeard
  <2>9. F!Closes => LF!Closes
    BY DEF F!generation, LF!generation, F!memory, LF!memory, F!Closes,
       LF!Closes
  <2>10. F!Serves => LF!Serves
    BY DEF F!memory, LF!memory, F!URGENT, LF!URGENT, F!Quiet, LF!Quiet,
       F!Guide, LF!Guide, F!Without, LF!Without, F!First, LF!First, F!Moot,
       LF!Moot, F!Voices, LF!Voices, F!Serves, LF!Serves
  <2>11. F!StaleEpoch => LF!StaleEpoch
    BY DEF F!memory, LF!memory, F!Ask, LF!Ask, F!NoAsk, LF!NoAsk, F!Quiet,
       LF!Quiet, F!Without, LF!Without, F!Add, LF!Add, F!Again, LF!Again,
       F!Ends, LF!Ends, F!StaleEpoch, LF!StaleEpoch
  <2>12. F!Turns => LF!Turns
    BY DEF F!Ask, LF!Ask, F!NoAsk, LF!NoAsk, F!Quiet, LF!Quiet, F!Guide,
       LF!Guide, F!Without, LF!Without, F!Add, LF!Add, F!Ends, LF!Ends, F!Hold,
       LF!Hold, F!Turned, LF!Turned, F!Turns, LF!Turns
  <2>13. F!StaleFloor => LF!StaleFloor
    BY DEF F!memory, LF!memory, F!Ask, LF!Ask, F!NoAsk, LF!NoAsk, F!Quiet,
       LF!Quiet, F!Without, LF!Without, F!Add, LF!Add, F!Ends, LF!Ends,
       F!Reply, LF!Reply, F!Fresh, LF!Fresh, F!StaleFloor, LF!StaleFloor
  <2>14. F!TakesFloor => LF!TakesFloor
    BY DEF F!memory, LF!memory, F!Hold, LF!Hold, F!Reply, LF!Reply, F!Fresh,
       LF!Fresh, F!TakesFloor, LF!TakesFloor
  <2>15. F!Spoken => LF!Spoken
    BY DEF F!Ask, LF!Ask, F!NoAsk, LF!NoAsk, F!Quiet, LF!Quiet, F!Ends,
       LF!Ends, F!Spoken, LF!Spoken
  <2>16. F!Cut => LF!Cut
    BY DEF F!memory, LF!memory, F!Ask, LF!Ask, F!NoAsk, LF!NoAsk, F!Quiet,
       LF!Quiet, F!Ends, LF!Ends, F!Cut, LF!Cut
  <2> QED
    BY <2>1, <2>2, <2>3, <2>4, <2>5, <2>6, <2>7, <2>8, <2>9, <2>10, <2>11, <2>12, <2>13, <2>14, <2>15, <2>16
       DEF F!Triggers, LF!Triggers, F!Run, LF!Run, F!Next, LF!Next
<1>3. F!DebtsKept <=> LF!DebtsKept
  BY DEF F!Guide, LF!Guide, F!Owes, LF!Owes, F!Settled, LF!Settled,
       F!Waits, LF!Waits, F!Carried, LF!Carried, F!DebtsKept, LF!DebtsKept
<1> QED
  BY <1>1, <1>2, <1>3

(* What a Fast lane was asked to voice is kept until it is settled         *)
(* (kernel/lanes.py, _add).                                                *)
THEOREM DebtsAreKept == Spec => [](part = "lane" => F!DebtsKept)
<1>1. Init /\ part = "lane" => LF!Init
  BY SameLane DEF Init
<1>2. part = "lane" /\ [Next]_vars => [LF!Next]_(LF!vars)
  BY SameLane DEF Next, vars, LF!vars
<1>3. (part = "lane" /\ [Next]_vars => (part = "lane")')
      /\ (~(part = "lane") /\ [Next]_vars => ~(part = "lane")')
  BY DEF Next, vars
<1>4. LF!Spec => []LF!DebtsKept
  BY LF!NothingOwedIsLost
<1> QED
  BY <1>1, <1>2, <1>3, <1>4, SameLane, PTL DEF Spec, LF!Spec

(* Both halves of what a Fast lane owes the GUIDEs and Slow's messages     *)
(* (kernel/lanes.py).                                                      *)
THEOREM LanesKeepFaith == Spec => []LaneKeepsFaith
BY GuidesHeardOnce, DebtsAreKept, PTL DEF LaneKeepsFaith

=============================================================================
