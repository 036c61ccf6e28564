------------------------------- MODULE Chain -------------------------------
(***************************************************************************)
(* The provenance of what is said: the events of the Fast lanes            *)
(* (kernel/lanes.py), of their model calls (llm/http.py, kernel/session.py)*)
(* and of the speakers (kernel/speaker.py, kernel/calls.py) that the       *)
(* offline check of a bundle follows (evidence/chain.py), and that check.  *)
(* The log holds those events only.  What makes a turn stale, cut or       *)
(* revoked is in FastLane, Speaker and Authority: here each may happen.    *)
(* A call is made with its request's model and prompt, whichever they are. *)
(***************************************************************************)
EXTENDS Integers, Sequences, FiniteSets

CONSTANTS
    Lanes,              \* the Fast lanes of the session
    Accepts, Declines,  \* the Guard's lines of the call
    Responses, Lines,   \* a call's text; what a Speech item says
    ItemsOf,            \* the Speech items of the turn of a text
    MaxGens,            \* bound: generations, per lane
    None

Disclosure == "disclosure"
Verbatim == Accepts \cup Declines \cup {Disclosure}
Kind(v) == CASE v = Disclosure -> "disclosure"
             [] v \in Accepts  -> "accept"
             [] OTHER          -> "decline"

Texts == Verbatim \cup Lines

VARIABLES
    log,      \* the events, an event's id its place
    state,    \* "running", "ending" (_ending), "over" (cancelled, or _dead)
    call,     \* the phone call: "none", "open", "closed"
    gens,     \* per lane, its generations so far (_n)
    job,      \* per lane, the generation at work
    line      \* per verbatim line, where it is and its last event

vars == <<log, state, call, gens, job, line>>

(* An event, and what it cites. *)
Event == [type : {"fast.request", "llm.call", "fast.turn", "fast.sentence",
                  "speak.verbatim", "speak.released", "utt.delivered"},
          cites : SUBSET (Nat \ {0}), lane : {"user", "cp"}, gen : Nat, utt : Nat \X Nat,
          text : Texts \cup {None}, items : Seq(Texts),
          response : Responses \cup {None},
          kind : {"accept", "decline", "disclosure", None},
          cap : Accepts \cup {None}, whole : BOOLEAN]

(* The fields that an event's type leaves out. *)
Blank(type, lane, gen, cites) ==
    [type |-> type, cites |-> cites, lane |-> lane, gen |-> gen, utt |-> <<0, 0>>,
     text |-> None, items |-> <<>>, response |-> None, kind |-> None, cap |-> None,
     whole |-> TRUE]

(* A generation: its request, attempts and sentences not said yet. *)
NoJob == [phase |-> "idle", request |-> 0, call |-> 0, tries |-> 0, lines |-> <<>>]

Init ==
    /\ log = <<>> /\ state = "running" /\ call = "none"
    /\ gens = [l \in Lanes |-> 0] /\ job = [l \in Lanes |-> NoJob]
    /\ line = [v \in Verbatim |-> [stage |-> "none", last |-> 0]]

Last == Len(log)
Free(l) ==
    /\ l \in Lanes => job[l].phase # "speaking"
    /\ l = "cp" => \A v \in Verbatim : line[v].stage # "speaking"

-----------------------------------------------------------------------------
(* A Fast lane. *)

(* FastC runs once the disclosure was said. *)
Request(l) ==
    /\ state = "running" /\ job[l].phase = "idle" /\ gens[l] < MaxGens[l]
    /\ l = "cp" => call = "open" /\ line[Disclosure].stage = "done"
    /\ gens' = [gens EXCEPT ![l] = @ + 1]
    /\ log' = Append(log, Blank("fast.request", l, gens'[l], {}))
    /\ job' = [job EXCEPT ![l] = [NoJob EXCEPT !.phase = "asked", !.request = Last + 1]]
    /\ UNCHANGED <<state, call, line>>

(* Mutant: a call's record is not replaced by its retry's. *)
FirstEvent(l) == IF job[l].call = 0 THEN Last + 1 ELSE job[l].call

(* _calls: the last llm.call of the call. *)
CallEvent(l) == Last + 1

(* _record: a failed attempt has no response that may back a line. *)
Recorded(l, response) ==
    [Blank("llm.call", l, gens[l], {job[l].request}) EXCEPT !.response = response]

(* A connection failure before the first token, retried once. *)
Retry(l) ==
    /\ state # "over" /\ job[l].phase = "asked" /\ job[l].tries = 0
    /\ log' = Append(log, Recorded(l, None))
    /\ job' = [job EXCEPT ![l].tries = 1, ![l].call = CallEvent(l)]
    /\ UNCHANGED <<state, call, gens, line>>

(* Any other failure ends the session, and nothing but records follows. *)
Fail(l) ==
    /\ state # "over" /\ job[l].phase = "asked" /\ state' = "over"
    /\ log' = Append(log, Recorded(l, None))
    /\ job' = [job EXCEPT ![l] = NoJob]
    /\ UNCHANGED <<call, gens, line>>

(* fast.sentence of each Speech item of the turn. *)
Sentence(l, turn, n, text) ==
    [Blank("fast.sentence", l, gens[l], {turn}) EXCEPT
        !.utt = <<gens[l], n>>, !.text = text]

(* The answer, and in one step the turn with its sentences. *)
Turn(l, r) ==
    /\ state # "over" /\ job[l].phase = "asked"
    /\ LET turn  == [Blank("fast.turn", l, gens[l], {job[l].request, CallEvent(l)})
                       EXCEPT !.items = ItemsOf[r]]
           lines == [n \in DOMAIN ItemsOf[r] |-> Sentence(l, Last + 2, n, ItemsOf[r][n])]
       IN  /\ log' = log \o <<Recorded(l, r), turn>> \o lines
           /\ job' = [job EXCEPT ![l] =
                        IF lines = <<>> THEN NoJob
                        ELSE [@ EXCEPT !.phase = "floor",
                                       !.lines = [n \in DOMAIN lines |-> Last + 2 + n]]]
    /\ UNCHANGED <<state, call, gens, line>>

(* The answer without a turn: the epoch moved, or its charge crossed a     *)
(* limit.                                                                  *)
NoTurn(l, r) ==
    /\ state # "over" /\ job[l].phase = "asked"
    /\ log' = Append(log, Recorded(l, r))
    /\ job' = [job EXCEPT ![l] = NoJob]
    /\ state' \in {state, "ending"}
    /\ UNCHANGED <<call, gens, line>>

(* What was in flight at the end is recorded, and nothing else. *)
LateRecord(l) ==
    /\ state = "over" /\ job[l].phase = "asked"
    /\ \E r \in Responses \cup {None} : log' = Append(log, Recorded(l, r))
    /\ job' = [job EXCEPT ![l] = NoJob]
    /\ UNCHANGED <<state, call, gens, line>>

(* Stale on the floor, or the call is over: the turn is not said. *)
Unsaid(l) ==
    /\ state # "over" /\ l = "cp" /\ job[l].phase = "floor"
    /\ job' = [job EXCEPT ![l] = NoJob]
    /\ UNCHANGED <<log, state, call, gens, line>>

TakesFloor(l) ==
    /\ state # "over" /\ job[l].phase = "floor" /\ Free(l)
    /\ l = "cp" => call # "closed"
    /\ job' = [job EXCEPT ![l].phase = "speaking"]
    /\ UNCHANGED <<log, state, call, gens, line>>

(* utt.delivered: heard whole, or cut by the rep: then a prefix is heard. *)
Delivered(lane, gen, cause, utt, text, whole) ==
    [Blank("utt.delivered", lane, gen, {cause}) EXCEPT
        !.utt = utt, !.text = text, !.whole = whole]

(* A line of the turn: a cut ends the turn, and so does the call's end.    *)
Say(l, whole) ==
    /\ state # "over" /\ job[l].phase = "speaking"
    /\ l = "user" => whole
    /\ LET s == Head(job[l].lines)
       IN  log' = Append(log, Delivered(l, gens[l], s, log[s].utt, log[s].text, whole))
    /\ job' = [job EXCEPT ![l] =
                 IF Tail(job[l].lines) = <<>> \/ ~whole THEN NoJob
                 ELSE [@ EXCEPT !.lines = Tail(job[l].lines)]]
    /\ UNCHANGED <<state, call, gens, line>>

HangUp(l) ==
    /\ state # "over" /\ l = "cp" /\ call = "closed" /\ job[l].phase = "speaking"
    /\ job' = [job EXCEPT ![l] = NoJob]
    /\ UNCHANGED <<log, state, call, gens, line>>

-----------------------------------------------------------------------------
(* The Guard's lines. *)

CapHeld(v) == IF v \in Accepts THEN v ELSE None
Spoken(v) == [Blank("speak.verbatim", "cp", 0, {}) EXCEPT
                 !.kind = Kind(v), !.text = v, !.cap = CapHeld(v)]
Release(v, said) == [Blank("speak.released", "cp", 0, {said}) EXCEPT !.cap = CapHeld(v)]

(* _call, _disclose. *)
CallOpens ==
    /\ state # "over" /\ call = "none" /\ call' = "open"
    /\ log' = log \o <<Spoken(Disclosure), Release(Disclosure, Last + 1)>>
    /\ line' = [line EXCEPT ![Disclosure] = [stage |-> "released", last |-> Last + 2]]
    /\ UNCHANGED <<state, gens, job>>

(* It takes the floor as a Fast turn does. *)
Discloses ==
    /\ state # "over" /\ line[Disclosure].stage = "released" /\ Free("cp")
    /\ line' = [line EXCEPT ![Disclosure].stage =
                  IF call = "closed" THEN "done" ELSE "speaking"]
    /\ UNCHANGED <<log, state, call, gens, job>>

(* action.authorized and its line, or a decline. *)
Asked(v) ==
    /\ state # "over" /\ v # Disclosure /\ line[v].stage = "none"
    /\ v \in Accepts => call # "none"
    /\ log' = Append(log, Spoken(v))
    /\ line' = [line EXCEPT ![v] = [stage |-> "asked", last |-> Last + 1]]
    /\ UNCHANGED <<state, call, gens, job>>

Released(v) ==
    /\ state # "over" /\ line[v].stage = "asked" /\ Free("cp") /\ call # "closed"
    /\ log' = Append(log, Release(v, line[v].last))
    /\ line' = [line EXCEPT ![v] = [stage |-> "speaking", last |-> Last + 1]]
    /\ UNCHANGED <<state, call, gens, job>>

Revoked(v) ==
    /\ state # "over" /\ line[v].stage = "asked" /\ Free("cp")
    /\ v \in Accepts \/ call = "closed"
    /\ line' = [line EXCEPT ![v].stage = "done"]
    /\ UNCHANGED <<log, state, call, gens, job>>

(* A line's utterance is its own.  The disclosure is heard whole.          *)
Heard(v, whole) ==
    /\ state # "over" /\ line[v].stage = "speaking"
    /\ v = Disclosure => whole
    /\ log' = Append(log, Delivered("cp", 0, line[v].last, <<0, line[v].last>>, v, whole))
    /\ line' = [line EXCEPT ![v].stage = "done"]
    /\ UNCHANGED <<state, call, gens, job>>

CallCloses ==
    /\ state # "over" /\ call = "open" /\ call' = "closed"
    /\ UNCHANGED <<log, state, gens, job, line>>

(* Another task ends the session, or the caller does. *)
Ends ==
    /\ state' \in {"ending", "over"} /\ state # "over" /\ state' # state
    /\ UNCHANGED <<log, call, gens, job, line>>

LaneStep(l) ==
    \/ Request(l) \/ Retry(l) \/ Fail(l) \/ LateRecord(l)
    \/ \E r \in Responses : Turn(l, r) \/ NoTurn(l, r)
    \/ Unsaid(l) \/ TakesFloor(l) \/ HangUp(l)
    \/ \E whole \in BOOLEAN : Say(l, whole)
LineStep(v) ==
    \/ Asked(v) \/ Released(v) \/ Revoked(v) \/ \E whole \in BOOLEAN : Heard(v, whole)

Next ==
    \/ \E l \in Lanes : LaneStep(l)
    \/ \E v \in Verbatim : LineStep(v)
    \/ CallOpens \/ Discloses \/ CallCloses \/ Ends

Spec == Init /\ [][Next]_vars

-----------------------------------------------------------------------------
(* evidence/chain.py. *)

Of(type) == {i \in DOMAIN log : log[i].type = type}
CitedBy(i, type) == log[i].cites \cap Of(type)
SameGen(i, j) == log[i].lane = log[j].lane /\ log[i].gen = log[j].gen

(* _turn, _call: its one request and the one successful attempt of its     *)
(* call, whose response parses to its items.                               *)
TurnBacked(i) ==
    /\ \E q \in CitedBy(i, "fast.request") :
          CitedBy(i, "fast.request") = {q} /\ SameGen(i, q)
    /\ \E c \in CitedBy(i, "llm.call") :
          /\ {k \in CitedBy(i, "llm.call") : SameGen(i, k) /\ log[k].response # None} = {c}
          /\ log[i].items = ItemsOf[log[c].response]

(* Its call backs no other turn. *)
OneTurnPerCall(i) == \A j \in Of("fast.turn") : SameGen(i, j) => i = j

(* _generated: the sentence, or the line released. *)
Sources(i) ==
    CitedBy(i, "fast.sentence")
      \cup UNION {CitedBy(r, "speak.verbatim") : r \in CitedBy(i, "speak.released")}

(* _sentence: a sentence of a turn of the same generation. *)
FromTurn(i, s) ==
    /\ log[s].utt = log[i].utt /\ SameGen(s, i)
    /\ \E t \in CitedBy(s, "fast.turn") : CitedBy(s, "fast.turn") = {t} /\ SameGen(s, t)

(* _delivered: one source, not delivered before, whose text it is; a line  *)
(* that was not cut was heard whole by construction.                       *)
DeliveredFrom(i) ==
    \E s \in Sources(i) :
        /\ Sources(i) = {s} /\ log[s].text = log[i].text /\ log[s].lane = log[i].lane
        /\ log[s].type = "fast.sentence" => FromTurn(i, s)
        /\ \A j \in Of("utt.delivered") : s \in Sources(j) => i = j

(* left: a Speech item of a turn is delivered at most once, and two that   *)
(* read alike twice.                                                       *)
DeliveredOf(t, x) ==
    {i \in Of("utt.delivered") :
        log[i].text = x /\ \E s \in CitedBy(i, "fast.sentence") : t \in log[s].cites}
ItemsSaidOnce(t) ==
    \A x \in Texts :
        Cardinality(DeliveredOf(t, x))
          <= Cardinality({n \in DOMAIN log[t].items : log[t].items[n] = x})

(* _release: an accept goes out under its line's capability. *)
ReleaseCarriesCap(i) ==
    \A v \in CitedBy(i, "speak.verbatim") :
        IF log[v].kind = "accept" THEN log[v].cap # None /\ log[i].cap = log[v].cap
        ELSE log[i].cap = None

(* Every log the program writes passes the check of a bundle's chain,      *)
(* wherever the session ends: each line said is traced to one answer of a  *)
(* model or to one line of the Guard's, through retries, stale turns, cuts *)
(* and revocations (evidence/chain.py, chain_failures).                    *)
LogPasses ==
    /\ \A i \in Of("fast.turn") : TurnBacked(i) /\ OneTurnPerCall(i) /\ ItemsSaidOnce(i)
    /\ \A i \in Of("utt.delivered") : DeliveredFrom(i)
    /\ \A i \in Of("speak.released") : ReleaseCarriesCap(i)
=============================================================================
