------------------------------ MODULE CallGate ------------------------------
(***************************************************************************)
(* When the cp call opens (kernel/calls.py): readiness                     *)
(* (guard/readiness.py), the needs ledger folded from Slow's keyed asks    *)
(* (guard/needs.py), start_call and ask_user (slow/asks.py), and the cp    *)
(* holds that an answer ends (guard/holds.py).                             *)
(***************************************************************************)
EXTENDS Integers, FiniteSets

CONSTANTS
    Keys,     \* shareable fact keys
    Required, \* those the call needs public (readiness.required)
    MaxAsks,  \* bound: keyed asks
    None

VARIABLES
    intake,   \* the session has Slow and a user lane
    opened,   \* why the call opened, or None
    deadline, \* the intake runs (deadline_ms)
    soon,     \* spawned openings, by reason (_soon)
    facts,    \* per key, what is recorded: "none", "private", "public"
    needs,    \* Ledger.needs
    unvoiced, \* Ledger.unvoiced
    voicing,  \* Ledger.voicing: per ask not voiced yet, the needs before it
    asks,     \* asks so far: each has the next number
    hold,     \* cp_hold's reason, or None
    told      \* history: keys whose ask was heard, "asked", and replied to

vars == <<intake, opened, deadline, soon, facts, needs, unvoiced, voicing, asks,
          hold, told>>
gate == <<intake, opened, deadline, soon>>
ledger == <<needs, unvoiced, voicing, asks>>

NoNeed == [state |-> "none", ask |-> 0, voiced |-> FALSE]
Missing == {k \in Required : facts[k] # "public"}
Waiting == {k \in Keys : needs[k].state \in {"pending", "replied"}}

(* start, at _open: the call now, or the intake and its deadline. *)
Init ==
    /\ intake \in BOOLEAN /\ deadline = (intake /\ Required # {})
    /\ opened = IF deadline THEN None ELSE IF intake THEN "ready" ELSE "no_intake"
    /\ soon = {} /\ facts = [k \in Keys |-> "none"]
    /\ needs = [k \in Keys |-> NoNeed] /\ unvoiced = {} /\ voicing = {} /\ asks = 0
    /\ hold = None /\ told = [asked |-> {}, replied |-> {}]

(* Mutant: a pending key may be asked again. *)
AskAnything(ks) == FALSE

(* ask_denial: a key is not asked again while it is pending. *)
AskDenied(ks) == \E k \in ks : needs[k].state = "pending"

(* ask_user(keys): its slow.tool and its s2f.msg. *)
AskUser(ks) ==
    /\ intake /\ asks < MaxAsks /\ asks' = asks + 1 /\ ~AskDenied(ks)
    /\ unvoiced' = unvoiced \ ks
    /\ voicing' = voicing \cup {[ask |-> asks', keys |-> ks,
                                 before |-> [k \in ks |-> needs[k]]]}
    /\ needs' = [k \in Keys |-> IF k \in ks
                     THEN [state |-> "pending", ask |-> asks', voiced |-> FALSE]
                     ELSE needs[k]]
    /\ UNCHANGED <<gate, facts, hold, told>>

(* The keys of an ask that still wait for it. *)
Mine(v) == {k \in v.keys : needs[k].ask = v.ask /\ needs[k].state = "pending"}

(* s2f.voiced: of a turn without speech it restores the needs before it. *)
Voiced(v, spoke) ==
    /\ needs' = [k \in Keys |->
                    IF k \notin Mine(v) THEN needs[k]
                    ELSE IF spoke THEN [needs[k] EXCEPT !.voiced = TRUE]
                    ELSE v.before[k]]
    /\ unvoiced' = IF spoke THEN unvoiced ELSE unvoiced \cup Mine(v)

Voice ==
    \E v \in voicing, spoke \in BOOLEAN :
        /\ Voiced(v, spoke) /\ voicing' = voicing \ {v}
        /\ told' = IF spoke THEN [told EXCEPT !.asked = @ \cup v.keys] ELSE told
        /\ UNCHANGED <<gate, facts, asks, hold>>

(* user.msg: it answers every ask voiced before it. *)
UserMsg ==
    /\ needs' = [k \in Keys |->
                    IF needs[k].state = "pending" /\ needs[k].voiced
                    THEN [needs[k] EXCEPT !.state = "replied"] ELSE needs[k]]
    /\ told' = [told EXCEPT !.replied = @ \cup told.asked]
    /\ UNCHANGED <<gate, facts, unvoiced, voicing, asks, hold>>

(* fact.recorded: from a rep line in the call, the user's own words, or    *)
(* private.  It ends a fact_request hold that waits for nothing more, and  *)
(* opens the call if nothing is missing.                                   *)
FactRecorded(k) ==
    \E source \in {"shareable", "user"} \cup {s \in {"cp_utt"} : opened # None} :
        LET public == source # "user"
        IN  /\ facts' = [facts EXCEPT ![k] = IF public THEN "public"
                                             ELSE IF @ = "none" THEN "private" ELSE @]
            /\ needs' = [needs EXCEPT ![k].state = "answered"]
            /\ unvoiced' = unvoiced \ {k}
            /\ hold' = IF /\ hold = "fact_request" /\ source = "shareable"
                          /\ Missing' = {} /\ Waiting' = {}
                       THEN None ELSE hold
            /\ soon' = IF opened = None /\ deadline /\ public /\ Missing' = {}
                       THEN soon \cup {"ready"} ELSE soon
            /\ UNCHANGED <<intake, opened, deadline, voicing, asks, told>>

(* start_call: every missing key was asked, and the user has replied. *)
StartDenied == \E k \in Missing : needs[k].state \in {"none", "pending"}

StartCall ==
    /\ opened = None /\ deadline /\ ~StartDenied
    /\ soon' = soon \cup {"slow_start"}
    /\ UNCHANGED <<intake, opened, deadline, facts, ledger, hold, told>>

(* _call: the first condition opens the call; a spawned opening that comes *)
(* second does nothing, nor does the deadline.                             *)
Opens(reason) ==
    /\ reason \in soon \/ (reason = "intake_deadline" /\ deadline)
    /\ soon' = soon \ {reason}
    /\ opened' = IF opened = None THEN reason ELSE opened
    /\ deadline' = FALSE
    /\ UNCHANGED <<intake, facts, ledger, hold, told>>

(* FastC's hold in the call: chan.hold. *)
FastHolds ==
    /\ opened # None /\ hold' \in {"fact_request", "offer", None}
    /\ UNCHANGED <<gate, facts, ledger, told>>

(* A Guard accept or decline line heard whole ends an offer's hold. *)
LineHeard ==
    /\ opened # None /\ hold = "offer" /\ hold' = None
    /\ UNCHANGED <<gate, facts, ledger, told>>

Next ==
    \/ \E ks \in SUBSET Keys \ {{}} : AskUser(ks)
    \/ Voice \/ UserMsg \/ \E k \in Keys : FactRecorded(k)
    \/ StartCall \/ \E r \in {"ready", "slow_start", "intake_deadline"} : Opens(r)
    \/ FastHolds \/ LineHeard

Spec == Init /\ [][Next]_vars

-----------------------------------------------------------------------------
(* start_call opens the call early only if the user heard the question for *)
(* each fact still missing and wrote after it, or the fact is recorded     *)
(* ("every missing readiness key was asked and the user has replied        *)
(* since", guard/needs.py): an ask no turn said never counts.              *)
StartCallStep ==
    StartCall => \A k \in Missing : k \in told.replied \/ facts[k] # "none"

(* A key that waits for the user waits for something that comes: its ask   *)
(* is still to be voiced, or was heard.  Else A1 refuses to ask it again   *)
(* and the call opens at the deadline only.                                *)
NoKeyStuck ==
    \A k \in Keys : needs[k].state = "pending" =>
        needs[k].voiced \/ \E v \in voicing : v.ask = needs[k].ask /\ k \in v.keys
=============================================================================
