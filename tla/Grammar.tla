------------------------------ MODULE Grammar -------------------------------
(***************************************************************************)
(* A Fast turn's text, parsed as it streams (contract/protocol.py,         *)
(* StreamParser; kernel/lanes.py feeds it): its sentences are counted as   *)
(* they close, the evidence check parses the recorded text again in one    *)
(* piece (evidence/chain.py), and both must find the same items.           *)
(*                                                                         *)
(* The text is a sequence of words.  "stop" is a word that ends in . ! or  *)
(* ?, "first" is FIRST: or THEN:, "at" any other word that begins with @,  *)
(* "nl" a line's end.  A relay is its words: its types are not modelled.   *)
(***************************************************************************)
EXTENDS Integers, Sequences, FiniteSets, SequencesExt

CONSTANTS
    Words,   \* of "word", "stop", "offer", "first", "at", "slow", "hold", "wait", "end", "nl"
    Lane,    \* the lane, "cp" or "user"
    MaxText  \* bound: words of a turn

VARIABLES
    text,    \* what the model writes
    ends,    \* the profile's pause_ends_speech
    fed,     \* words of it fed so far
    half,    \* what the next word looks like, cut short; "" for not at all
    parser   \* StreamParser: buf, emitted, paused, ended; its items so far; closed

vars == <<text, ends, fed, half, parser>>

NewParser == [buf |-> <<>>, emitted |-> 0, paused |-> FALSE, ended |-> FALSE,
              items |-> <<>>, closed |-> FALSE]

(* The words that begin with @, but "slow", which splits a line anywhere. *)
Ats == {"at", "hold", "wait", "end"}
Begins(ws, kinds) == ws # <<>> /\ ws[1] \in kinds
Finishes(ws, kinds) == ws # <<>> /\ ws[Len(ws)] \in kinds

Item(kind, ws) == [kind |-> kind, text |-> ws]
Issue(ws) == Item("issue", ws)

(* The pieces of ws between the places cuts, each without its first skip.  *)
Between(ws, cuts, skip, last) ==
    LET at == <<1 - skip>> \o SetToSortSeq(cuts, <) \o <<last>>
    IN  [k \in 1..Len(at) - 1 |-> SubSeq(ws, at[k] + skip, at[k + 1] - 1)]

Split(ws, sep) == Between(ws, {i \in DOMAIN ws : ws[i] = sep}, 1, Len(ws) + 1)

(* _BREAK.split: after a word that closes a sentence, if another follows.  *)
Break(ws) ==
    Between(ws, {i + 1 : i \in {j \in DOMAIN ws : ws[j] = "stop" /\ j < Len(ws)}},
            0, Len(ws) + 1)

(* _clean: a leading scaffold, a trailing @end_call, a trailing scaffold.  *)
Lead(ws) == IF Begins(ws, {"first"}) THEN Tail(ws) ELSE ws
TrailEnd(ws) == IF Finishes(ws, {"end"}) THEN Front(ws) ELSE ws
TrailScaffold(ws) == IF Finishes(ws, {"first"}) THEN Front(ws) ELSE ws
Clean(ws) == TrailScaffold(TrailEnd(Lead(ws)))
WasCut(ws) == Finishes(Lead(ws), {"end"})

Speakable(ws) ==
    ws # <<>> /\ ~Begins(ws, Ats \cup {"first"}) /\ ~Finishes(ws, {"end", "first"})

(* _sentence: speech with a directive inside is spoken, and counted.       *)
Sentence(ws) ==
    IF ~Speakable(ws) THEN <<Issue(ws)>>
    ELSE IF \E i \in DOMAIN ws : ws[i] \in {"hold", "wait", "end"}
    THEN <<Item("speech", ws), Issue(ws)>> ELSE <<Item("speech", ws)>>

Sentences(pieces) == FlattenSeq([k \in DOMAIN pieces |->
                         IF pieces[k] = <<>> THEN <<>> ELSE Sentence(pieces[k])])

Adds(p, items) == [p EXCEPT !.items = @ \o items]

(* _directive, _pause: one @hold or @wait, and one @end_call, a turn.      *)
Pause(p, kind, ws) ==
    IF p.paused THEN Adds(p, <<Issue(ws)>>)
    ELSE [Adds(p, <<Item(kind, <<>>)>>) EXCEPT !.paused = TRUE]

Directive(p, ws) ==
    CASE ws[1] = "end" -> IF p.ended THEN Adds(p, <<Issue(ws)>>)
                          ELSE [Adds(p, <<Item("end_call", <<>>)>>) EXCEPT !.ended = TRUE]
      [] ws = <<"hold", "offer">> /\ Lane = "cp" -> Pause(p, "hold", ws)
      [] ws = <<"wait">> -> Pause(p, "wait", ws)
      [] OTHER -> Adds(p, <<Issue(ws)>>)

Relay(ws) == IF ws = <<>> THEN <<Issue(ws)>> ELSE <<Item("relay", ws)>>

(* Mutant: the last sentence of an open line is taken for closed. *)
ReadyAtOnce(pieces, final) == pieces

(* The sentences that can be told: of an open line, not the last.          *)
Ready(pieces, final) == IF final THEN pieces ELSE SubSeq(pieces, 1, Len(pieces) - 1)

(* _line, of a whole line (final) or of the one still open.                *)
Line(p, ws, final) ==
    IF Begins(ws, Ats) THEN IF final THEN Directive(p, ws) ELSE p
    ELSE IF p.paused /\ ends /\ ~Begins(ws, {"slow"})
    THEN IF final /\ ws # <<>> THEN Adds(p, <<Issue(ws)>>) ELSE p
    ELSE LET parts == Split(ws, "slow")
             spoken == Clean(parts[1])
             stray == Begins(spoken, Ats)
             pieces == IF stray THEN <<>> ELSE Ready(Break(spoken), final)
             new == {k \in DOMAIN pieces : k > p.emitted}
             told == Sentences([k \in 1..Cardinality(new) |-> pieces[p.emitted + k]])
         IN  IF ~final THEN [Adds(p, told) EXCEPT !.emitted = @ + Cardinality(new)]
             ELSE [Adds(p, told \o (IF stray \/ WasCut(parts[1]) THEN <<Issue(spoken)>>
                                    ELSE <<>>)
                           \o FlattenSeq([k \in 1..Len(parts) - 1 |-> Relay(parts[k + 1])]))
                   EXCEPT !.emitted = 0]

(* feed: the lines it completes, then the one still open, whose last word  *)
(* may be cut.                                                             *)
Feed(p, chunk, cut) ==
    LET all == Split(p.buf \o chunk, "nl")
        open == all[Len(all)]
        whole == FoldLeft(LAMBDA q, ws : Line(q, ws, TRUE), p, Front(all))
    IN  [Line(whole, IF cut = "" THEN open ELSE Append(open, cut), FALSE) EXCEPT !.buf = open]

Close(p) ==
    LET q == Line(p, p.buf, TRUE)
        empty == \A k \in DOMAIN q.items : q.items[k].kind = "issue"
    IN  [Adds(q, IF empty THEN <<Item("issue", <<"empty">>)>> ELSE <<>>)
         EXCEPT !.buf = <<>>, !.closed = TRUE]

(* parse_turn. *)
Parse(ws) == Close(Feed(NewParser, ws, "")).items

(* A word cut short: part of a directive begins with @, and of another     *)
(* word may end in a full stop, as "3." of "3.50" does.                    *)
Halves(w) == IF w \in Ats \cup {"slow"} THEN {"at"}
             ELSE IF w = "nl" THEN {} ELSE {"word", "stop"}

Init ==
    /\ text \in UNION {[1..n -> Words] : n \in 0..MaxText} /\ ends \in BOOLEAN
    /\ fed = 0 /\ half = "" /\ parser = NewParser

(* The next delta of the stream, cut anywhere. *)
Delta ==
    /\ ~parser.closed /\ fed < Len(text)
    /\ \E n \in fed..Len(text) :
        /\ fed' = n /\ half' \in {""} \cup (IF n < Len(text) THEN Halves(text[n + 1]) ELSE {})
        /\ n > fed \/ (half = "" /\ half' # "")
        /\ parser' = Feed(parser, SubSeq(text, fed + 1, n), half')
    /\ UNCHANGED <<text, ends>>

StreamEnds ==
    /\ ~parser.closed /\ fed = Len(text) /\ parser' = Close(parser)
    /\ UNCHANGED <<text, ends, fed, half>>

Next == Delta \/ StreamEnds

Spec == Init /\ [][Next]_vars

-----------------------------------------------------------------------------
(* format_turn: a line per directive; sentences share one after a stop.    *)
Shown(item) == CASE item.kind = "speech" -> item.text
                 [] item.kind = "relay" -> <<"slow">> \o item.text
                 [] item.kind = "hold" -> <<"hold", "offer">>
                 [] item.kind = "wait" -> <<"wait">>
                 [] item.kind = "end_call" -> <<"end">>

Joins(a, b) == a.kind = "speech" /\ b.kind = "speech" /\ Finishes(a.text, {"stop"})

Format(items) ==
    FlattenSeq([k \in DOMAIN items |->
        (IF k = 1 \/ Joins(items[k - 1], items[k]) THEN <<>> ELSE <<"nl">>)
            \o Shown(items[k])])

(* However the text is cut into deltas, its items are those of the text    *)
(* parsed at once (evidence/chain.py: "its items are not the parse of the  *)
(* recorded response"); those told early are among them, in place.         *)
StreamedAsWhole ==
    IF parser.closed THEN parser.items = Parse(text)
    ELSE IsPrefix(parser.items, Parse(text))

(* A turn without an issue, written again, parses to itself.               *)
RoundTrip ==
    LET items == parser.items
    IN  parser.closed /\ (\A k \in DOMAIN items : items[k].kind # "issue")
            => Parse(Format(items)) = items

(* One pause and one end a turn; under pause_ends_speech nothing is said   *)
(* after the pause.                                                        *)
OnePause ==
    LET Kinds(kinds) == {k \in DOMAIN parser.items : parser.items[k].kind \in kinds}
        pauses == Kinds({"hold", "wait"})
    IN  /\ Cardinality(pauses) <= 1 /\ Cardinality(Kinds({"end_call"})) <= 1
        /\ ends => \A p \in pauses, s \in Kinds({"speech"}) : s < p
=============================================================================
