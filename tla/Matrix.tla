------------------------------- MODULE Matrix -------------------------------
(***************************************************************************)
(* An evaluation campaign: the matrix runs one session per cell, into the  *)
(* cell's folder; it is aborted, killed and resumed (eval/matrix.py); and  *)
(* a report reads the folders afterwards (eval/benchmark.py).  A folder's  *)
(* name holds the cell's place in the plan, so a person who resumes with   *)
(* other conditions may find the cells in other places.  Of a bundle, its  *)
(* end reason and the models the endpoint said it served; every session    *)
(* calls one role of one requested model.  Run ids sort as they are made.  *)
(***************************************************************************)
EXTENDS Integers, Sequences, FiniteSets, SequencesExt

CONSTANTS
    Conditions,  \* the spec's conditions
    Blocks,      \* its (instance, seed) pairs
    Plans,       \* the schedules of the condition lists a person may pass:
                 \* sequences of distinct cells
    Echoes,      \* the models an endpoint may say it serves
    Reasons,     \* the end reasons sessions have here
    MaxBundles   \* bound: sessions ever started

Cell == Conditions \X Blocks

VARIABLES
    disk,      \* folder <<k, cell>> -> its bundles, oldest first
    plan,      \* the running matrix's schedule; empty: no process
    pos,       \* the cell it is at
    busy,      \* "visit"; "session" while one runs; "returned"; "aborted"
    seen,      \* the echoes this process has read
    runs,      \* the CellRuns it has made
    served     \* what the endpoint serves now

vars == <<disk, plan, pos, busy, seen, runs, served>>

Abort == {"llm_unavailable", "budget", "p3_failed"}       \* _ABORT
Rerun == {"llm_unavailable", "unended", "unreadable"}     \* _RERUN

Init ==
    /\ disk = <<>> /\ plan = <<>> /\ pos = 1 /\ busy = "visit"
    /\ seen = {} /\ runs = <<>> /\ served \in Echoes

-----------------------------------------------------------------------------
(* What a folder says.  A bundle without a manifest cannot be read. *)

Kept(b) == b.reason \notin Rerun
Said(bs) == UNION {b.echo : b \in {x \in ToSet(bs) : x.reason # "unreadable"}}

(* The latest bundle a resume keeps; 0 if there is none (kept). *)
KeptOf(bs) ==
    IF \E i \in DOMAIN bs : Kept(bs[i])
    THEN CHOOSE i \in DOMAIN bs :
            Kept(bs[i]) /\ \A j \in i + 1 .. Len(bs) : ~Kept(bs[j])
    ELSE 0

(* An echo must never change (check_echo). *)
Changed(echoes) == Cardinality(echoes) > 1

Outcome(reason) ==
    CASE reason \in {"completed", "no_deal", "info_only", "escalate"} -> "ok"
      [] reason \in {"timeout", "abandoned"} -> "model_failure"
      [] OTHER -> "infra_error"

-----------------------------------------------------------------------------
(* The matrix process. *)

Here == <<pos, plan[pos]>>
Folder == IF Here \in DOMAIN disk THEN disk[Here] ELSE <<>>
Running == plan # <<>> /\ busy \in {"visit", "session"}
Bundles == Cardinality(UNION {{n} \X DOMAIN disk[n] : n \in DOMAIN disk})

(* Mutant: only cells count, not their places. *)
StrayCell(p) == \E n \in DOMAIN disk : n[2] \notin ToSet(p)

(* A runs dir holds one matrix: no folder may lie outside the plan. *)
Stray(p) == \E n \in DOMAIN disk : ~(n[1] \in DOMAIN p /\ p[n[1]] = n[2])

Start ==
    /\ plan = <<>>
    /\ \E p \in Plans : ~Stray(p) /\ plan' = p
    /\ pos' = 1 /\ busy' = "visit" /\ seen' = {} /\ runs' = <<>>
    /\ UNCHANGED <<disk, served>>

Onward(run) ==
    /\ runs' = Append(runs, run)
    /\ pos' = pos + 1
    /\ busy' = IF pos = Len(plan) THEN "returned" ELSE "visit"

Skip ==
    /\ Running /\ busy = "visit"
    /\ ~Changed(seen \cup Said(Folder)) /\ KeptOf(Folder) # 0
    /\ seen' = seen \cup Said(Folder)
    /\ Onward([name |-> Here, at |-> KeptOf(Folder),
              reason |-> Folder[KeptOf(Folder)].reason])
    /\ UNCHANGED <<disk, plan, served>>

ReadsChanged ==
    /\ Running /\ busy = "visit"
    /\ Changed(seen \cup Said(Folder))
    /\ busy' = "aborted"
    /\ UNCHANGED <<disk, plan, pos, seen, runs, served>>

(* The cell's folder, made if it was not there, holds bs. *)
Holds(bs) == [n \in DOMAIN disk \cup {Here} |-> IF n = Here THEN bs ELSE disk[n]]

(* The cell's folder; the session's directory, which has no manifest yet.   *)
Session ==
    /\ Running /\ busy = "visit" /\ Bundles < MaxBundles
    /\ ~Changed(seen \cup Said(Folder)) /\ KeptOf(Folder) = 0
    /\ seen' = seen \cup Said(Folder)
    /\ busy' = "session"
    /\ disk' = Holds(Append(Folder, [reason |-> "unreadable", echo |-> {}]))
    /\ UNCHANGED <<plan, pos, runs, served>>

(* It is refused before its directory is made: no bundle. *)
Refused ==
    /\ Running /\ busy = "visit"
    /\ ~Changed(seen \cup Said(Folder)) /\ KeptOf(Folder) = 0
    /\ seen' = seen \cup Said(Folder)
    /\ disk' = Holds(Folder)
    /\ Onward([name |-> Here, at |-> 0, reason |-> "no_bundle"])
    /\ UNCHANGED <<plan, served>>

(* It ends: the reason and the echoes it logged; the matrix goes on only if *)
(* the reason does not abort it and the echo is the one it knew.            *)
Ends ==
    /\ Running /\ busy = "session"
    /\ \E r \in Reasons, said \in {{}, {served}} :
          LET last == [reason |-> r, echo |-> said]
              all == seen \cup said
          IN  /\ disk' = [disk EXCEPT ![Here][Len(Folder)] = last]
              /\ IF Changed(all) \/ r \in Abort
                 THEN busy' = "aborted" /\ UNCHANGED <<pos, runs, seen>>
                 ELSE /\ Onward([name |-> Here, at |-> Len(Folder), reason |-> r])
                      /\ seen' = all
    /\ UNCHANGED <<plan, served>>

(* It fails outside its log: no manifest is written. *)
Fails ==
    /\ Running /\ busy = "session"
    /\ Onward([name |-> Here, at |-> Len(Folder), reason |-> "unreadable"])
    /\ UNCHANGED <<disk, plan, seen, served>>

(* Ctrl-C: the session closes as "stopped", and the process is gone. *)
Interrupt ==
    /\ Running /\ busy = "session"
    /\ disk' = [disk EXCEPT ![Here][Len(Folder)] =
                    [reason |-> "stopped", echo |-> {}]]
    /\ plan' = <<>> /\ UNCHANGED <<pos, busy, seen, runs, served>>

(* The process ends, or is killed: what it wrote stays. *)
Exit ==
    /\ plan # <<>> /\ plan' = <<>>
    /\ UNCHANGED <<disk, pos, busy, seen, runs, served>>

Serves ==
    /\ served' \in Echoes \ {served}
    /\ UNCHANGED <<disk, plan, pos, busy, seen, runs>>

Next ==
    \/ Start \/ Skip \/ ReadsChanged \/ Session \/ Refused \/ Ends \/ Fails
    \/ Interrupt \/ Exit \/ Serves

Spec == Init /\ [][Next]_vars

-----------------------------------------------------------------------------
(* The report on what the folders hold (_discover, _conditions, build). *)

(* One bundle per folder: the kept one, else the latest, else none. *)
Picked(n) == IF KeptOf(disk[n]) # 0 THEN KeptOf(disk[n]) ELSE Len(disk[n])
EndOf(n) == IF Picked(n) = 0 THEN "no_bundle" ELSE disk[n][Picked(n)].reason

Twice == \E m, n \in DOMAIN disk : m # n /\ m[2] = n[2]
Discovers == ~Twice /\ ~Changed(UNION {Said(disk[n]) : n \in DOMAIN disk})

Present(c) == {n[2][2] : n \in {m \in DOMAIN disk : m[2][1] = c}}
With == {c \in Conditions : Present(c) # {}}
Paired == {b \in Blocks : \A c \in With : b \in Present(c)}

(* The gate: at most one error in twenty, no cell missing or unpaired. *)
Infra == {n \in DOMAIN disk : Outcome(EndOf(n)) = "infra_error"}
Gate ==
    /\ disk # <<>> /\ 20 * Cardinality(Infra) <= Cardinality(DOMAIN disk)
    /\ \A c \in With : Present(c) = Blocks /\ Present(c) \subseteq Paired

(* A difference is given only if no paired cell is an error (_comparisons).  *)
Delta(a, c) ==
    /\ Present(a) \cap Present(c) # {}
    /\ \A n \in Infra :
          ~(n[2][1] \in {a, c} /\ n[2][2] \in Present(a) \cap Present(c))

-----------------------------------------------------------------------------
(* What the campaign promises. *)

(* A scored episode is the cell's last: nothing is run again to be better.  *)
ScoredOnce ==
    \A n \in DOMAIN disk : KeptOf(disk[n]) # 0 => disk'[n] = disk[n]

(* What a finished matrix counted is what the report will count: every cell *)
(* of the plan once, the same bundle if one is kept, the same outcome.      *)
Counted ==
    plan # <<>> /\ busy = "returned" =>
        /\ Discovers
        /\ DOMAIN disk = {<<k, plan[k]>> : k \in DOMAIN plan}
        /\ \A k \in DOMAIN plan :
              LET n == <<k, plan[k]>>
              IN  /\ runs[k].name = n
                  /\ Outcome(runs[k].reason) = Outcome(EndOf(n))
                  /\ KeptOf(disk[n]) # 0 => runs[k].at = Picked(n)

(* A report past the gate that gives a comparison gives it of every cell of *)
(* both conditions, one kept episode each.                                  *)
Claims ==
    Discovers /\ Gate =>
        \A a, c \in With : Delta(a, c) =>
            \A d \in {a, c}, b \in Blocks :
                \E n \in DOMAIN disk : n[2] = <<d, b>> /\ KeptOf(disk[n]) # 0

(* The runs dir is always one that a report can read cell by cell.          *)
OneMatrix == ~Twice
=============================================================================
