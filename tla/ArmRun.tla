------------------------------- MODULE ArmRun -------------------------------
(***************************************************************************)
(* One arm of the world-model selection (scripts/mod/world_select_run.py): *)
(* its items are replayed, a few at a time, each written as a row of one   *)
(* file when it ends; a dead endpoint or the call cap aborts the arm; a    *)
(* kill may cut the last row anywhere; a resume reads the file and runs    *)
(* what has no final row; the report reads the file (load_rows, complete). *)
(* A row that is cut short, or glued to another, does not parse.  No reply *)
(* holds a character that splitlines() breaks and json.dumps leaves as is. *)
(***************************************************************************)
EXTENDS Integers, Sequences, FiniteSets, SequencesExt

CONSTANTS
    Items,    \* the work: (item, role, repeat) keys
    Prose,    \* those among them that cannot be replayed: final without a call
    Tries,    \* attempts per item
    Gate,     \* --concurrency
    Cap,      \* --max-calls, per process
    MaxRows,  \* bound: lines of the file
    None      \* no value

VARIABLES
    file,   \* its lines: [key, status], or None for a line that does not parse
    open,   \* the last line has no newline yet
    up,     \* the process: "off"; "run"; "abort" once a row says so; "returned"
    todo,   \* items this process has not begun
    in,     \* item begun -> attempts made
    calls,  \* calls this process has made
    asked   \* items whose attempt waits for an answer

vars == <<file, open, up, todo, in, calls, asked>>

Final == {"ok", "exhausted", "timeout", "not_replayable"}

Init ==
    /\ file = <<>> /\ open = FALSE /\ up = "off"
    /\ todo = {} /\ in = <<>> /\ calls = 0 /\ asked = {}

-----------------------------------------------------------------------------
(* The file. *)

(* A row after a line without a newline makes one line, and that no JSON.   *)
Written(row) ==
    IF open THEN Append(Front(file), None) ELSE Append(file, row)

Rows == {i \in DOMAIN file : file[i] # None}
FinalRows(k) == {i \in Rows : file[i].key = k /\ file[i].status \in Final}
Done == {k \in Items : FinalRows(k) # {}}

(* A resume ends a last line that was cut. *)
Ended == FALSE

-----------------------------------------------------------------------------
(* The process. *)

Start ==
    /\ up = "off"
    /\ todo' = Items \ Done
    /\ open' = Ended
    /\ up' = IF todo' = {} THEN "returned" ELSE "run"
    /\ in' = <<>> /\ calls' = 0 /\ asked' = {} /\ UNCHANGED file

Live == up \in {"run", "abort"}

Drop(i) == [j \in DOMAIN in \ {i} |-> in[j]]

(* Its row, as the item ends; then the gate lets the next one in. *)
Row(i, status) ==
    /\ Len(file) < MaxRows
    /\ file' = Written([key |-> i, status |-> status]) /\ open' = FALSE
    /\ in' = Drop(i) /\ asked' = asked \ {i}
    /\ up' = IF status \in {"capped", "unavailable"} THEN "abort"
             ELSE IF up = "run" /\ todo = {} /\ DOMAIN in = {i} THEN "returned" ELSE up

Begin(i) ==
    /\ Live /\ i \in todo /\ Cardinality(DOMAIN in) < Gate
    /\ todo' = todo \ {i} /\ in' = [j \in DOMAIN in \cup {i} |->
                                        IF j = i THEN 0 ELSE in[j]]
    /\ UNCHANGED <<file, open, up, calls, asked>>

Unreplayable(i) ==
    /\ Live /\ i \in DOMAIN in \cap Prose
    /\ Row(i, "not_replayable") /\ UNCHANGED <<todo, calls>>

(* An attempt: a call, unless the cap is reached. *)
Attempt(i) ==
    /\ Live /\ i \in DOMAIN in \ (Prose \cup asked) /\ in[i] < Tries
    /\ IF calls >= Cap
       THEN Row(i, "capped") /\ UNCHANGED calls
       ELSE /\ calls' = calls + 1 /\ in' = [in EXCEPT ![i] = @ + 1]
            /\ asked' = asked \cup {i} /\ UNCHANGED <<file, open, up>>
    /\ UNCHANGED todo

(* The answer fits; does not, and is asked again or the item is exhausted;  *)
(* does not come in time; or the endpoint is dead.                          *)
Valid(i) == Live /\ i \in asked /\ Row(i, "ok") /\ UNCHANGED <<todo, calls>>

Invalid(i) ==
    /\ Live /\ i \in asked
    /\ IF in[i] < Tries
       THEN asked' = asked \ {i} /\ UNCHANGED <<file, open, up, in>>
       ELSE Row(i, "exhausted")
    /\ UNCHANGED <<todo, calls>>

Late(i) == Live /\ i \in asked /\ Row(i, "timeout") /\ UNCHANGED <<todo, calls>>

Dead(i) == Live /\ i \in asked /\ Row(i, "unavailable") /\ UNCHANGED <<todo, calls>>

(* The abort cancels the others, which write nothing, and the process ends. *)
Aborted ==
    /\ up = "abort" /\ up' = "off"
    /\ todo' = {} /\ in' = <<>> /\ asked' = {} /\ UNCHANGED <<file, open, calls>>

Exit ==
    /\ up = "returned" /\ up' = "off" /\ UNCHANGED <<file, open, todo, in, calls, asked>>

(* A kill, perhaps in the middle of the last row, or right before its end.  *)
Kill ==
    /\ Live /\ up' = "off"
    /\ todo' = {} /\ in' = <<>> /\ asked' = {} /\ UNCHANGED calls
    /\ \/ UNCHANGED <<file, open>>
       \/ /\ Len(file) < MaxRows
          /\ \E i \in asked :
                file' \in {Written(r) : r \in {None, [key |-> i, status |-> "ok"]}}
          /\ open' = TRUE

Next ==
    \/ Start \/ Aborted \/ Exit \/ Kill
    \/ \E i \in Items :
          \/ Begin(i) \/ Unreplayable(i) \/ Attempt(i)
          \/ Valid(i) \/ Invalid(i) \/ Late(i) \/ Dead(i)

Spec == Init /\ [][Next]_vars

-----------------------------------------------------------------------------
(* The report, and what the campaign promises. *)

LastOf(k) == file[CHOOSE i \in Rows : file[i].key = k /\
                    \A j \in Rows : file[j].key = k => j <= i]

(* load_rows: one final row per key, and no key whose last row is not.      *)
Loads ==
    \A k \in Items :
        /\ Cardinality(FinalRows(k)) <= 1
        /\ (\E i \in Rows : file[i].key = k) => LastOf(k).status \in Final

(* No best-of-N: an item that has its row is not run again, and has no       *)
(* other; what has returned can be reported, every item with its one row;   *)
(* a process makes no more calls than it may.                               *)
OneRowEach ==
    /\ \A k \in Items : Cardinality(FinalRows(k)) <= 1
    /\ up # "off" => \A k \in Done : k \notin todo \cup DOMAIN in
    /\ up = "returned" => Done = Items /\ Loads
    /\ calls <= Cap

(* A resumed arm loses no row: what was once read as final stays.           *)
RowsStay == Done \subseteq Done'
=============================================================================
