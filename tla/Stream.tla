-------------------------------- MODULE Stream -------------------------------
(***************************************************************************)
(* Following a run's log over a WebSocket (serve/stream.py): /ws/live, and *)
(* /ws/rep, whose frames are filtered and numbered anew (serve/rep.py).    *)
(* The log is written line by line and read by chunks, which may end       *)
(* inside a line; here a line is two halves.  The frames of a chunk are    *)
(* sent one by one.  The browser is outside the Python code: as it         *)
(* connects, it asks for what comes after the last frame it took.          *)
(***************************************************************************)
EXTENDS Integers, Sequences

CONSTANTS
    Length,  \* of the log; its last event is session.ended
    Chunk    \* the most a step reads, in halves

VARIABLES
    rep,      \* it is a rep's stream
    hidden,   \* the events that the stream does not show
    written,  \* halves in the file
    moved,    \* the file was truncated, replaced or removed
    conn,     \* the connection's Reader and RepFrames
    wire,     \* frames sent, not yet received
    code,     \* the last close's code, 0 while there is none, -1 for a gap
    got       \* events the browser took, in order

vars == <<rep, hidden, written, moved, conn, wire, code, got>>

Last == Length - 1
Events == 0..Last

(* Halves read, the next line to send and where the chunk's lines end, the *)
(* Reader's from_seq, RepFrames' skip and its seq.                         *)
NoConn == [open |-> FALSE, read |-> 0, next |-> 0, upto |-> 0, from |-> 0, skip |-> 0,
           seq |-> 0]

(* A rep's stream shows neither session.started nor session.ended. *)
Init ==
    /\ rep \in BOOLEAN /\ hidden \in SUBSET Events
    /\ IF rep THEN {0, Last} \subseteq hidden ELSE hidden = {}
    /\ written = 0 /\ moved = FALSE /\ conn = NoConn /\ wire = <<>> /\ code = 0
    /\ got = <<>>

-----------------------------------------------------------------------------
(* EventLog.append writes a line and flushes; the system may split it. *)
Writes ==
    /\ ~moved /\ written < 2 * Length /\ written' = written + 1
    /\ UNCHANGED <<rep, hidden, moved, conn, wire, code, got>>

Moves ==
    /\ ~moved /\ moved' = TRUE
    /\ UNCHANGED <<rep, hidden, written, conn, wire, code, got>>

(* Run.servable: seq 0 tells the split.  Run.ended: the last whole line. *)
Servable == written >= 2 /\ ~moved
HasEnded == written = 2 * Length

(* A run that may be served; to the rep, a case that has not ended. *)
MayConnect ==
    /\ ~conn.open /\ wire = <<>> /\ code \in {0, 1006}
    /\ Servable /\ ~(rep /\ HasEnded)

(* from_seq: a seq of the log, or how many frames of the rep to skip. *)
Connects ==
    /\ MayConnect
    /\ conn' = IF rep THEN [NoConn EXCEPT !.open = TRUE, !.skip = Len(got)]
               ELSE [NoConn EXCEPT !.open = TRUE, !.from = Len(got)]
    /\ code' = 0
    /\ UNCHANGED <<rep, hidden, written, moved, wire, got>>

(* Mutant: a chunk that ends inside a line loses the half it has. *)
ResumesForgets(read) == (read + 1) \div 2

(* The line a chunk read from there on completes first: the half read of a *)
(* line waits for the other (Reader.pending).                              *)
Resumes(read) == read \div 2

AllSent == conn.open /\ conn.next >= conn.upto

(* Reader.step, when the frames of the chunk before were sent; an empty    *)
(* chunk of a moved file ends it.  A moved file may still be read, or not. *)
Reads ==
    /\ AllSent /\ conn.read < 2 * Length
    /\ \E n \in 0..Chunk :
         LET to == conn.read + n
         IN  /\ to <= written
             /\ n = 0 => moved
             /\ ~moved => n = Chunk \/ to = written
             /\ conn' = [conn EXCEPT !.read = to, !.next = Resumes(conn.read),
                                     !.upto = to \div 2, !.open = n # 0]
             /\ code' = IF n = 0 THEN 1011 ELSE 0
    /\ UNCHANGED <<rep, hidden, written, moved, wire, got>>

(* The stream's frames: from from_seq on, and for a rep the allowed ones.  *)
Shown(e) == e >= conn.from /\ e \notin hidden

(* The frame of the next line, if it is shown: a rep's is numbered whether *)
(* or not it is skipped.                                                   *)
Sends ==
    /\ conn.open /\ conn.next < conn.upto
    /\ LET e == conn.next
           seq == IF rep THEN conn.seq ELSE e
       IN  /\ conn' = [conn EXCEPT !.next = e + 1, !.seq = IF Shown(e) THEN @ + 1 ELSE @]
           /\ wire' = IF Shown(e) /\ seq >= conn.skip
                      THEN Append(wire, [event |-> e, seq |-> seq]) ELSE wire
    /\ UNCHANGED <<rep, hidden, written, moved, code, got>>

(* session.ended was sent. *)
Closes ==
    /\ AllSent /\ conn.read = 2 * Length
    /\ conn' = [conn EXCEPT !.open = FALSE] /\ code' = 1000
    /\ UNCHANGED <<rep, hidden, written, moved, wire, got>>

(* acceptFrames: what it has is dropped, and a gap is an error. *)
Receives ==
    /\ wire # <<>> /\ wire' = Tail(wire)
    /\ IF Head(wire).seq > Len(got) THEN code' = -1 /\ UNCHANGED got
       ELSE /\ UNCHANGED code
            /\ got' = IF Head(wire).seq = Len(got) THEN Append(got, Head(wire).event)
                      ELSE got
    /\ UNCHANGED <<rep, hidden, written, moved, conn>>

(* The connection breaks, with what was on the way, the close among it;    *)
(* the browser may connect again.                                          *)
Breaks ==
    /\ conn.open \/ wire # <<>>
    /\ code # -1 /\ conn' = NoConn /\ wire' = <<>> /\ code' = 1006
    /\ UNCHANGED <<rep, hidden, written, moved, got>>

Next == Writes \/ Moves \/ Connects \/ Reads \/ Sends \/ Closes \/ Receives \/ Breaks

Spec == Init /\ [][Next]_vars

-----------------------------------------------------------------------------
(* Over any reconnects the browser takes every event it may see, once and  *)
(* in order: no gap, none skipped, and nothing missing at the stream's     *)
(* proper end.                                                             *)
Visible == Events \ hidden
Took(e) == \E i \in DOMAIN got : got[i] = e

StreamExact ==
    /\ code # -1
    /\ \A i, j \in DOMAIN got : i < j => got[i] < got[j]
    /\ \A i \in DOMAIN got : /\ got[i] \in Visible
                             /\ \A e \in Visible : e < got[i] => Took(e)
    /\ code = 1000 /\ wire = <<>> => \A e \in Visible : Took(e)
=============================================================================
