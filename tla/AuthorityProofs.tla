-------------------------- MODULE AuthorityProofs --------------------------
(***************************************************************************)
(* Authority for every value of its constants: no accept goes out twice,   *)
(* the status follows the accept line, a closed case stays closed, a case  *)
(* that awaits the user holds a card that is still to be decided, the      *)
(* outcome agrees with what went out on the phone, and only an expired card*)
(* or a newer epoch replans a case that awaits the user.  And Authority    *)
(* implements Consent: every accept that goes out is one that a decision   *)
(* of the user still allows, for terms not committed to before.  Last, the *)
(* hints of Slow's status bar agree with the Guard and with each other.    *)
(***************************************************************************)
EXTENDS Hints, FiniteSetTheorems, WellFoundedInduction, TLAPS

-----------------------------------------------------------------------------
(* The status table. *)

(* A move follows a row of the table, or abandons an open case. *)
LEMMA MoveFollowsRow ==
    ASSUME NEW s, NEW t, NextStatus(s, t) # s
    PROVE  \/ t = "hang_up" /\ s \notin TERMINAL /\ NextStatus(s, t) = "ABANDONED"
           \/ \E row \in TRANSITIONS :
                row[1] = s /\ row[2] = t /\ row[3] = NextStatus(s, t)
<1>1. MayMove(s, t)
  BY DEF NextStatus
<1>2. CASE t = "hang_up" /\ s \notin TERMINAL
  BY <1>1, <1>2 DEF NextStatus
<1>3. CASE ~(t = "hang_up" /\ s \notin TERMINAL)
  <2>1. \E row \in TRANSITIONS : row[1] = s /\ row[2] = t
    BY <1>1, <1>3 DEF MayMove
  <2> DEFINE r == CHOOSE row \in TRANSITIONS : row[1] = s /\ row[2] = t
  <2>2. r \in TRANSITIONS /\ r[1] = s /\ r[2] = t
    BY <2>1
  <2>3. t # "hang_up"
    BY <2>1 DEF TRANSITIONS
  <2>4. NextStatus(s, t) = r[3]
    BY <1>1, <2>3 DEF NextStatus
  <2> QED
    BY <2>2, <2>4
<1> QED
  BY <1>2, <1>3

(* No trigger moves a closed case. *)
LEMMA TerminalStays ==
    ASSUME NEW s \in TERMINAL, NEW t
    PROVE  NextStatus(s, t) = s
<1> SUFFICES ASSUME NextStatus(s, t) # s PROVE FALSE
  OBVIOUS
<1>1. \E row \in TRANSITIONS : row[1] = s
  BY MoveFollowsRow
<1> QED
  BY <1>1 DEF TRANSITIONS, TERMINAL

AcceptTriggers == {"accept_authorized", "accept_heard", "accept_revoked", "accept_truncated"}

(* Only the accept's own triggers enter or leave COMMIT_AUTHORIZED, and    *)
(* only a hang-up abandons.                                                *)
LEMMA OtherMoves ==
    ASSUME NEW s, NEW t, t \notin AcceptTriggers, t # "hang_up"
    PROVE  /\ NextStatus(s, t) = "COMMIT_AUTHORIZED" <=> s = "COMMIT_AUTHORIZED"
           /\ NextStatus(s, t) = "ABANDONED" <=> s = "ABANDONED"
<1> SUFFICES ASSUME NextStatus(s, t) # s
             PROVE  /\ s \notin {"COMMIT_AUTHORIZED", "ABANDONED"}
                    /\ NextStatus(s, t) \notin {"COMMIT_AUTHORIZED", "ABANDONED"}
  OBVIOUS
<1>1. PICK row \in TRANSITIONS : row[1] = s /\ row[2] = t /\ row[3] = NextStatus(s, t)
  BY MoveFollowsRow
<1>2. row[2] \notin AcceptTriggers
      => /\ row[1] \notin {"COMMIT_AUTHORIZED", "ABANDONED"}
         /\ row[3] \notin {"COMMIT_AUTHORIZED", "ABANDONED"}
  BY DEF TRANSITIONS, AcceptTriggers
<1> QED
  BY <1>1, <1>2

LEMMA AcceptMoves ==
    /\ NextStatus("IN_CALL", "accept_authorized") = "COMMIT_AUTHORIZED"
    /\ NextStatus("COMMIT_AUTHORIZED", "accept_heard") = "COMMITTED"
    /\ NextStatus("COMMIT_AUTHORIZED", "accept_revoked") = "NEEDS_REPLAN"
    /\ NextStatus("COMMIT_AUTHORIZED", "accept_truncated") = "NEEDS_REPLAN"
<1>1. ASSUME NEW s, NEW t, NEW u, t # "hang_up", <<s, t, u>> \in TRANSITIONS
      PROVE  \E row \in TRANSITIONS : row[1] = s /\ row[2] = t /\ row[3] = NextStatus(s, t)
  <2> DEFINE r == CHOOSE row \in TRANSITIONS : row[1] = s /\ row[2] = t
  <2>1. \E row \in TRANSITIONS : row[1] = s /\ row[2] = t
    BY <1>1
  <2>2. r \in TRANSITIONS /\ r[1] = s /\ r[2] = t
    BY <2>1
  <2>3. NextStatus(s, t) = r[3]
    BY <1>1, <2>1 DEF NextStatus, MayMove
  <2> QED
    BY <2>2, <2>3
<1>2. \A row \in TRANSITIONS :
        /\ row[2] = "accept_authorized" => row[3] = "COMMIT_AUTHORIZED"
        /\ row[2] = "accept_heard" => row[3] = "COMMITTED"
        /\ row[2] = "accept_revoked" => row[3] = "NEEDS_REPLAN"
        /\ row[2] = "accept_truncated" => row[3] = "NEEDS_REPLAN"
  BY DEF TRANSITIONS
<1>3. /\ <<"IN_CALL", "accept_authorized", "COMMIT_AUTHORIZED">> \in TRANSITIONS
      /\ <<"COMMIT_AUTHORIZED", "accept_heard", "COMMITTED">> \in TRANSITIONS
      /\ <<"COMMIT_AUTHORIZED", "accept_revoked", "NEEDS_REPLAN">> \in TRANSITIONS
      /\ <<"COMMIT_AUTHORIZED", "accept_truncated", "NEEDS_REPLAN">> \in TRANSITIONS
  BY DEF TRANSITIONS
<1> QED
  BY <1>1, <1>2, <1>3

-----------------------------------------------------------------------------
(* CommitTracksLine and AcceptOnce are inductive together: a released or   *)
(* revoked capability leaves none in flight only if there was one.  That   *)
(* an abandoned session is over keeps its line from being released.        *)
CommitInv ==
    /\ CommitTracksLine /\ AcceptOnce
    /\ status = "ABANDONED" => call = "ended"

OnTheWay == {"queued", "waiting", "rose"}

(* A step that moves no capability, and neither starts nor ends a line. *)
StatusKept ==
    /\ status' = "COMMIT_AUTHORIZED" <=> status = "COMMIT_AUTHORIZED"
    /\ status' = "ABANDONED" <=> status = "ABANDONED"
Aside ==
    /\ caps' = caps /\ StatusKept
    /\ line' = line \/ (line \in OnTheWay /\ line' \in OnTheWay)
    /\ call = "ended" => call' = "ended"

LEMMA AsideKeeps == CommitInv /\ Aside => CommitInv'
<1> SUFFICES ASSUME CommitInv, Aside PROVE CommitInv'
  OBVIOUS
<1>1. Consumed' = Consumed /\ InFlight' = InFlight
  BY DEF Aside, Consumed, InFlight
<1>2. AcceptOnce'
  BY <1>1 DEF AcceptOnce, CommitInv, Aside
<1>3. CommitTracksLine'
  BY <1>1 DEF CommitTracksLine, CommitInv, Aside, StatusKept, OnTheWay
<1> QED
  BY <1>2, <1>3 DEF CommitInv, Aside, StatusKept

LEMMA MoveAside ==
    ASSUME NEW t, t \notin AcceptTriggers, t # "hang_up", Move(t)
    PROVE  StatusKept
BY OtherMoves DEF Move, StatusKept

LEMMA BumpAside == BumpEpoch => StatusKept
BY MoveAside DEF BumpEpoch, StatusKept, AcceptTriggers

LEMMA FinishAside ==
    ASSUME NEW t, t \notin AcceptTriggers, t # "hang_up", NEW verified, Finish(t, verified)
    PROVE  Aside
BY MoveAside DEF Finish, Aside, userVars

(* The actions that leave the accept and its capability alone. *)
OtherActions ==
    \/ StepStarted \/ Act \/ StepCompleted
    \/ \E r \in Refs : RecordOffer(r) \/ DeclineOffer(r) \/ RequestApproval(r)
    \/ \E conf \in Confs : CheckAccount(conf)
    \/ ProposeMandate \/ TightenMandate \/ Revoke
    \/ FinishCompleted \/ FinishNoDeal \/ FinishInfoOnly \/ FinishEscalate
    \/ UserPosts \/ RefusePost \/ DecideCard \/ DecideMandate \/ CardExpires
    \/ CallOpened \/ UserMsg \/ RepLine \/ FastRevoke \/ CallClosed
    \/ SessionEnds \/ FenceWait \/ Tick \/ UNCHANGED vars

LEMMA OthersAside == OtherActions => Aside
<1> SUFFICES ASSUME OtherActions PROVE Aside
  OBVIOUS
<1>1. CASE StepStarted \/ Act \/ UserPosts \/ RefusePost \/ RepLine \/ CallClosed
           \/ SessionEnds \/ Tick \/ ProposeMandate
  BY <1>1 DEF StepStarted, Act, UserPosts, RefusePost, RepLine, CallClosed, SessionEnds,
              Tick, ProposeMandate, Aside, StatusKept, Others, Running
<1>2. ASSUME NEW r \in Refs, RecordOffer(r) \/ DeclineOffer(r) PROVE Aside
  BY <1>2 DEF RecordOffer, DeclineOffer, Aside, StatusKept
<1>3. CASE UNCHANGED vars
  BY <1>3 DEF vars, Aside, StatusKept
<1>4. CASE UserMsg \/ FenceWait
  BY <1>4 DEF UserMsg, FenceWait, OnFloor, OnTheWay, Aside, StatusKept
<1>5. CASE StepCompleted
  <2>1. StatusKept
    BY <1>5, OtherMoves DEF StepCompleted, StatusKept, AcceptTriggers
  <2> QED
    BY <1>5, <2>1 DEF StepCompleted, Aside
<1>6. ASSUME NEW r \in Refs, RequestApproval(r) PROVE Aside
  BY <1>6, MoveAside DEF RequestApproval, Aside, AcceptTriggers
<1>7. ASSUME NEW conf \in Confs, CheckAccount(conf) PROVE Aside
  BY <1>7, MoveAside DEF CheckAccount, Aside, AcceptTriggers
<1>8. CASE TightenMandate \/ Revoke \/ FastRevoke
  BY <1>8, BumpAside DEF TightenMandate, Revoke, FastRevoke, Aside
<1>9. CASE FinishCompleted \/ FinishNoDeal \/ FinishInfoOnly \/ FinishEscalate
  BY <1>9, FinishAside DEF FinishCompleted, FinishNoDeal, FinishInfoOnly, FinishEscalate,
                           AcceptTriggers
<1>10. CASE DecideCard
  BY <1>10, MoveAside DEF DecideCard, Aside, AcceptTriggers
<1>11. CASE CardExpires
  <2>1. StatusKept
    BY <1>11, MoveAside DEF CardExpires, StatusKept, AcceptTriggers
  <2> QED
    BY <1>11, <2>1 DEF CardExpires, Aside
<1>12. CASE CallOpened
  BY <1>12, MoveAside DEF CallOpened, Aside, AcceptTriggers
<1>13. CASE DecideMandate
  <2> DEFINE d == Head(posts).decision
             stale == IF card # None /\ card.epoch < epoch + 1
                      THEN NextStatus(status, "approval_stale") ELSE status
  <2>1. status' = IF d = "granted" THEN NextStatus(stale, "mandate_granted") ELSE stale
    BY <1>13 DEF DecideMandate
  <2>2. /\ stale = "COMMIT_AUTHORIZED" <=> status = "COMMIT_AUTHORIZED"
        /\ stale = "ABANDONED" <=> status = "ABANDONED"
    BY OtherMoves DEF AcceptTriggers
  <2>3. StatusKept
    <3> HIDE DEF stale
    <3> QED
      BY <2>1, <2>2, OtherMoves DEF StatusKept, AcceptTriggers
  <2> QED
    BY <1>13, <2>3 DEF DecideMandate, Aside
<1> QED
  BY <1>1, <1>2, <1>3, <1>4, <1>5, <1>6, <1>7, <1>8, <1>9, <1>10, <1>11, <1>12, <1>13
     DEF OtherActions

(* A mint: the only capability in flight is the new one, of terms no other *)
(* capability is for.                                                      *)
LEMMA AcceptKeeps ==
    ASSUME CommitInv, NEW r \in Refs, AcceptOffer(r)
    PROVE  CommitInv'
<1>1. PICK g \in Grants(TermsOf(r)) :
        /\ MayAccept(r, g)
        /\ caps' = caps \cup
             {[terms |-> TermsOf(r), by |-> g.by, epoch |-> epoch,
               expires |-> Min2(Min2(g.expires, offers[r].expires), now + CAP_TTL),
               consumed |-> FALSE]}
  BY DEF AcceptOffer
<1> DEFINE new == [terms |-> TermsOf(r), by |-> g.by, epoch |-> epoch,
                   expires |-> Min2(Min2(g.expires, offers[r].expires), now + CAP_TTL),
                   consumed |-> FALSE]
<1>2. caps' = caps \cup {new} /\ ~new.consumed /\ new.terms = TermsOf(r)
  BY <1>1
<1>3. InFlight = {} /\ status = "IN_CALL" /\ ~ReleasedAccept(TermsOf(r))
  BY <1>1 DEF MayAccept
<1>4. \A c \in caps : c.terms # TermsOf(r)
  BY <1>3 DEF ReleasedAccept, Consumed, InFlight
<1> HIDE DEF new
<1>5. InFlight' = {new} /\ Consumed' = Consumed
  BY <1>2, <1>3 DEF InFlight, Consumed
<1>6. status' = "COMMIT_AUTHORIZED" /\ line' = "queued" /\ call' = call
  BY <1>3, AcceptMoves DEF AcceptOffer, Move
<1>7. AcceptOnce'
  BY <1>2, <1>4, <1>5 DEF AcceptOnce, CommitInv
<1>8. CommitTracksLine'
  BY <1>5, <1>6 DEF CommitTracksLine
<1> QED
  BY <1>6, <1>7, <1>8 DEF CommitInv

(* On the floor there is one capability in flight, and a live case. *)
LEMMA OnFloorState ==
    ASSUME CommitInv, OnFloor, NEW c \in InFlight
    PROVE  /\ InFlight = {c} /\ c \in caps /\ ~c.consumed
           /\ status = "COMMIT_AUTHORIZED"
<1>1. InFlight = {c}
  BY DEF CommitInv, AcceptOnce
<1>2. status = "COMMIT_AUTHORIZED"
  BY DEF CommitInv, CommitTracksLine, OnFloor, Others, Running
<1> QED
  BY <1>1, <1>2 DEF InFlight

LEMMA ReleaseKeeps ==
    ASSUME CommitInv, caps \subseteq Capability, Release
    PROVE  CommitInv'
<1>1. PICK c \in InFlight : caps' = (caps \ {c}) \cup {[c EXCEPT !.consumed = TRUE]}
  BY DEF Release
<1>2. OnFloor /\ line' = "speaking" /\ status' = status /\ call' = call
  BY DEF Release
<1>3. InFlight = {c} /\ c \in caps /\ ~c.consumed /\ status = "COMMIT_AUTHORIZED"
  BY <1>2, OnFloorState
<1> DEFINE out == [c EXCEPT !.consumed = TRUE]
<1>4. out.consumed /\ out.terms = c.terms
  BY <1>3 DEF Capability
<1>5. caps' = (caps \ {c}) \cup {out}
  BY <1>1
<1> HIDE DEF out
<1>6. InFlight' = {} /\ Consumed' = Consumed \cup {out}
  BY <1>3, <1>4, <1>5 DEF InFlight, Consumed
<1>7. AcceptOnce'
  BY <1>3, <1>4, <1>5, <1>6 DEF AcceptOnce, CommitInv
<1>8. CommitTracksLine'
  BY <1>2, <1>3, <1>6 DEF CommitTracksLine
<1> QED
  BY <1>2, <1>3, <1>7, <1>8 DEF CommitInv

LEMMA RevokedKeeps ==
    ASSUME CommitInv, Revoked
    PROVE  CommitInv'
<1>1. PICK c \in InFlight : caps' = caps \ {c}
  BY DEF Revoked
<1>2. OnFloor /\ line' = "none" /\ Move("accept_revoked") /\ call' = call
  BY DEF Revoked
<1>3. InFlight = {c} /\ c \in caps /\ ~c.consumed /\ status = "COMMIT_AUTHORIZED"
  BY <1>2, OnFloorState
<1>4. InFlight' = {} /\ Consumed' = Consumed
  BY <1>1, <1>3 DEF InFlight, Consumed
<1>5. status' = "NEEDS_REPLAN"
  BY <1>2, <1>3, AcceptMoves DEF Move
<1>6. AcceptOnce'
  BY <1>1, <1>4 DEF AcceptOnce, CommitInv
<1> QED
  BY <1>2, <1>4, <1>5, <1>6 DEF CommitInv, CommitTracksLine

LEMMA DeliveredKeeps ==
    ASSUME CommitInv, Delivered
    PROVE  CommitInv'
<1>1. line = "speaking" /\ line' = "none" /\ caps' = caps /\ call' = call /\ call # "ended"
  BY DEF Delivered, Others, Running
<1>2. status = "COMMIT_AUTHORIZED" /\ InFlight = {}
  BY <1>1 DEF CommitInv, CommitTracksLine
<1>3. status' \in {"COMMITTED", "NEEDS_REPLAN"}
  BY <1>2, AcceptMoves DEF Delivered, Move
<1>4. InFlight' = InFlight /\ Consumed' = Consumed
  BY <1>1 DEF InFlight, Consumed
<1> QED
  BY <1>1, <1>2, <1>3, <1>4 DEF CommitInv, CommitTracksLine, AcceptOnce

LEMMA HangUpKeeps ==
    ASSUME CommitInv, HangUp
    PROVE  CommitInv'
<1>1. line' = line /\ caps' = caps /\ call' = "ended"
  BY DEF HangUp
<1>2. status' = status \/ status' = "ABANDONED"
  <2>1. ASSUME Move("hang_up"), status' # status PROVE status' = "ABANDONED"
    <3>1. NextStatus(status, "hang_up") # status
      BY <2>1 DEF Move
    <3>2. \A row \in TRANSITIONS : row[2] # "hang_up"
      BY DEF TRANSITIONS
    <3> QED
      BY <2>1, <3>1, <3>2, MoveFollowsRow DEF Move
  <2> QED
    BY <2>1 DEF HangUp
<1>3. InFlight' = InFlight /\ Consumed' = Consumed
  BY <1>1 DEF InFlight, Consumed
<1> QED
  BY <1>1, <1>2, <1>3 DEF CommitInv, CommitTracksLine, AcceptOnce

LEMMA CommitInit == Init => CommitInv
BY DEF Init, CommitInv, CommitTracksLine, AcceptOnce, InFlight, Consumed

LEMMA NextSplit ==
    [Next]_vars <=> \/ OtherActions
                    \/ \E r \in Refs : AcceptOffer(r)
                    \/ Release \/ Revoked \/ Delivered \/ HangUp
BY Zenon DEF Next, SlowTool, OtherActions

LEMMA CommitNext ==
    caps \subseteq Capability /\ CommitInv /\ [Next]_vars => CommitInv'
BY NextSplit, OthersAside, AsideKeeps, AcceptKeeps, ReleaseKeeps, RevokedKeeps,
   DeliveredKeeps, HangUpKeeps

-----------------------------------------------------------------------------
(* Types. *)

LEMMA NextStatusType ==
    ASSUME NEW s \in Statuses, NEW t
    PROVE  NextStatus(s, t) \in Statuses
<1>1. "ABANDONED" \in Statuses
  BY DEF Statuses
<1>2. \A row \in TRANSITIONS : row[3] \in Statuses
  BY DEF TRANSITIONS, Statuses
<1> QED
  BY <1>1, <1>2, MoveFollowsRow

LEMMA MoveType ==
    ASSUME TypeOK, NEW t, Move(t)
    PROVE  /\ status' \in Statuses
           /\ replan' \in {"none", "unseen", "seen"}
BY NextStatusType DEF Move, TypeOK

LEMMA BumpType ==
    ASSUME TypeOK, BumpEpoch
    PROVE  /\ status' \in Statuses /\ epoch' \in Nat
           /\ replan' \in {"none", "unseen", "seen"}
BY MoveType DEF BumpEpoch, TypeOK

LEMMA BoundsType ==
    /\ Never \in Nat /\ CARD_TTL \in Nat /\ CAP_TTL \in Nat
    /\ \A p \in Prices : p \in Nat
    /\ \A d \in Lives : d \in Nat
    /\ \A ch \in Changes : ch \in AllChanges
BY BoundsAssumption DEF BoundsAssumption, Never

LEMMA MinType ==
    ASSUME NEW a \in Nat, NEW b \in Nat PROVE Min2(a, b) \in Nat
BY DEF Min2

LEMMA TermsType ==
    ASSUME TypeOK, NEW r \in Refs PROVE TermsOf(r) \in Terms
BY DEF TypeOK, Offer, TermsOf, Terms

LEMMA ReadbackType ==
    ASSUME TypeOK, Readback PROVE offers' \in [Refs -> Offer]
<1>1. ASSUME NEW o \in Offer PROVE [o EXCEPT !.bound = o.complete] \in Offer
  BY DEF Offer
<1>2. \A r \in Refs : offers[r] \in Offer
  BY DEF TypeOK
<1> QED
  BY <1>1, <1>2 DEF Readback

LEMMA GrantType ==
    ASSUME TypeOK, NEW t \in Terms, NEW g \in Grants(t)
    PROVE  g.by \in By /\ g.expires \in Nat
<1>1. CASE MandateCovers(t)
  <2>1. mandate \in Mandate
    BY <1>1 DEF MandateCovers, TypeOK
  <2>2. mandate.id \in Nat
    BY <2>1 DEF Mandate
  <2> DEFINE m == [by |-> [kind |-> "mandate", epoch |-> 0, n |-> mandate.id],
                   expires |-> Never]
  <2>3. m.by \in By /\ m.expires \in Nat
    BY <2>2, BoundsType DEF By
  <2>4. ASSUME g # m PROVE \E a \in Live(t) : g = [by |-> [kind |-> "approval", epoch |-> a.epoch, n |-> a.n], expires |-> a.expires]
    BY <2>4 DEF Grants
  <2>5. ASSUME NEW a \in Live(t)
        PROVE  /\ [kind |-> "approval", epoch |-> a.epoch, n |-> a.n] \in By
               /\ a.expires \in Nat
    <3>1. a \in Approval
      BY DEF Live, ThisEpoch, TypeOK
    <3> QED
      BY <3>1 DEF Approval, By
  <2> HIDE DEF m
  <2> QED
    BY <2>3, <2>4, <2>5
<1>2. CASE ~MandateCovers(t)
  <2>1. PICK a \in Live(t) :
          g = [by |-> [kind |-> "approval", epoch |-> a.epoch, n |-> a.n],
               expires |-> a.expires]
    BY <1>2 DEF Grants
  <2>2. a \in Approval
    BY DEF Live, ThisEpoch, TypeOK
  <2> QED
    BY <2>1, <2>2 DEF Approval, By
<1> QED
  BY <1>1, <1>2

LEMMA AuthorityTypeInit == Init => TypeOK
<1> SUFFICES ASSUME Init PROVE TypeOK
  OBVIOUS
<1>1. offers \in [Refs -> Offer]
  BY BoundsType DEF Init, Offer, AllChanges
<1>2. posts \in Seq(Post)
  BY DEF Init
<1>3. IsFiniteSet(approvals)
  BY FS_EmptySet DEF Init
<1> QED
  BY <1>1, <1>2, <1>3 DEF Init, TypeOK, Statuses

(* Slow's loop and tools keep the types. *)
LEMMA StepTypes ==
    ASSUME TypeOK, StepStarted \/ Act \/ StepCompleted
    PROVE  TypeOK'
<1>1. CASE StepStarted
  BY <1>1, ReadbackType DEF StepStarted, TypeOK, userVars
<1>2. CASE Act
  BY <1>2, ReadbackType DEF Act, TypeOK, userVars
<1>3. CASE StepCompleted
  BY <1>3, NextStatusType DEF StepCompleted, TypeOK, userVars
<1> QED
  BY <1>1, <1>2, <1>3

LEMMA OfferToolTypes ==
    ASSUME TypeOK, NEW r \in Refs, RecordOffer(r) \/ DeclineOffer(r)
    PROVE  TypeOK'
<1>1. offers' \in [Refs -> Offer]
  <2>1. CASE RecordOffer(r)
    <3>1. PICK p \in Prices, ch \in Changes, whole \in BOOLEAN,
               e \in {now + d : d \in Lives} \cup {Never} :
            offers' = [offers EXCEPT ![r] =
              [rev |-> offers[r].rev + 1, price |-> p, change |-> ch,
               complete |-> whole, status |-> "open", bound |-> FALSE,
               expires |-> e]]
      BY <2>1 DEF RecordOffer
    <3>2. e \in Nat /\ p \in Nat /\ ch \in AllChanges
      BY BoundsType DEF TypeOK
    <3>3. offers[r].rev + 1 \in Nat
      BY DEF TypeOK, Offer
    <3> DEFINE o == [rev |-> offers[r].rev + 1, price |-> p, change |-> ch,
                     complete |-> whole, status |-> "open", bound |-> FALSE,
                     expires |-> e]
    <3>4. o \in Offer
      BY <3>2, <3>3 DEF Offer
    <3>5. offers \in [Refs -> Offer] /\ offers' = [offers EXCEPT ![r] = o]
      BY <3>1 DEF TypeOK
    <3> HIDE DEF o
    <3> QED
      BY <3>4, <3>5
  <2>2. CASE DeclineOffer(r)
    <3>1. offers' = [offers EXCEPT ![r].status = "declined"]
      BY <2>2 DEF DeclineOffer
    <3>2. offers[r] \in Offer /\ offers \in [Refs -> Offer]
      BY DEF TypeOK
    <3> DEFINE o == [offers[r] EXCEPT !.status = "declined"]
    <3>3. o \in Offer
      BY <3>2 DEF Offer
    <3>4. offers' = [offers EXCEPT ![r] = o]
      BY <3>1
    <3> HIDE DEF o
    <3> QED
      BY <3>2, <3>3, <3>4
  <2> QED
    BY <2>1, <2>2
<1>2. UNCHANGED <<status, epoch, now, caps, evidence, fences, line, call, userVars, slowVars>>
  BY DEF RecordOffer, DeclineOffer
<1> QED
  BY <1>1, <1>2 DEF TypeOK, userVars, slowVars

LEMMA RequestedCard ==
    ASSUME TypeOK, NEW r \in Refs, RequestApproval(r)
    PROVE  card' \in Card
<1>1. Cardinality(ThisEpoch(TermsOf(r))) \in Nat
  <2>1. IsFiniteSet(ThisEpoch(TermsOf(r)))
    BY FS_Subset DEF ThisEpoch, TypeOK
  <2> QED
    BY <2>1, FS_CardinalityType
<1>2. NextN(TermsOf(r)) \in Nat
  BY <1>1 DEF NextN, ThisEpoch
<1>3. Min2(offers[r].expires, now + CARD_TTL) \in Nat
  <2>1. offers[r].expires \in Nat /\ now + CARD_TTL \in Nat
    BY BoundsType DEF TypeOK, Offer
  <2> QED
    BY <2>1, MinType
<1> QED
  BY <1>2, <1>3, TermsType DEF RequestApproval, Card, TypeOK

LEMMA RequestTypes ==
    ASSUME TypeOK, NEW r \in Refs, RequestApproval(r)
    PROVE  TypeOK'
<1>4. card' \in Card
  BY RequestedCard
<1>5. timers' \subseteq Card
  BY <1>4 DEF RequestApproval, TypeOK
<1>6. status' \in Statuses /\ replan' \in {"none", "unseen", "seen"}
  BY MoveType DEF RequestApproval
<1>7. UNCHANGED <<epoch, now, offers, caps, evidence, fences, line, call,
                  mandate, mandates, approvals, posts, consents, slow>>
  BY DEF RequestApproval
<1> QED
  BY <1>4, <1>5, <1>6, <1>7 DEF TypeOK

LEMMA AcceptTypes ==
    ASSUME TypeOK, NEW r \in Refs, AcceptOffer(r)
    PROVE  TypeOK'
<1>1. PICK g \in Grants(TermsOf(r)) :
        caps' = caps \cup
             {[terms |-> TermsOf(r), by |-> g.by, epoch |-> epoch,
               expires |-> Min2(Min2(g.expires, offers[r].expires), now + CAP_TTL),
               consumed |-> FALSE]}
  BY DEF AcceptOffer
<1>2. TermsOf(r) \in Terms /\ g.by \in By /\ g.expires \in Nat
  BY TermsType, GrantType
<1>3. offers[r].expires \in Nat /\ now + CAP_TTL \in Nat /\ epoch \in Nat
  BY BoundsType DEF TypeOK, Offer
<1>4. Min2(Min2(g.expires, offers[r].expires), now + CAP_TTL) \in Nat
  BY <1>2, <1>3, MinType
<1>5. [terms |-> TermsOf(r), by |-> g.by, epoch |-> epoch,
       expires |-> Min2(Min2(g.expires, offers[r].expires), now + CAP_TTL),
       consumed |-> FALSE] \in Capability
  BY <1>2, <1>3, <1>4 DEF Capability
<1>6. caps' \subseteq Capability
  BY <1>1, <1>5 DEF TypeOK
<1>7. status' \in Statuses /\ replan' \in {"none", "unseen", "seen"}
  BY MoveType DEF AcceptOffer
<1>8. fences' \subseteq {"user", "cp"} /\ line' = "queued"
  BY DEF AcceptOffer, TypeOK
<1>9. UNCHANGED <<epoch, now, offers, evidence, call, userVars, slow>>
  BY DEF AcceptOffer
<1> QED
  BY <1>6, <1>7, <1>8, <1>9 DEF TypeOK, userVars

LEMMA MandateToolTypes ==
    ASSUME TypeOK, ProposeMandate \/ TightenMandate
    PROVE  TypeOK'
<1>1. mandate' \in Mandate /\ mandates' \in Nat
  <2>1. CASE ProposeMandate
    BY <2>1, BoundsType DEF ProposeMandate, TypeOK, Mandate
  <2>2. CASE TightenMandate
    BY <2>2, BoundsType DEF TightenMandate, TypeOK, Mandate
  <2> QED
    BY <2>1, <2>2
<1>2. status' \in Statuses /\ epoch' \in Nat /\ replan' \in {"none", "unseen", "seen"}
  BY BumpType DEF ProposeMandate, TightenMandate, slowVars, TypeOK
<1>3. UNCHANGED <<now, offers, caps, evidence, fences, line, call, card, approvals,
                  posts, timers, consents, slow>>
  BY DEF ProposeMandate, TightenMandate, slowVars
<1> QED
  BY <1>1, <1>2, <1>3 DEF TypeOK

LEMMA BumpTypes ==
    ASSUME TypeOK, Revoke \/ FastRevoke
    PROVE  TypeOK'
<1>1. status' \in Statuses /\ epoch' \in Nat /\ replan' \in {"none", "unseen", "seen"}
  BY BumpType DEF Revoke, FastRevoke
<1>2. UNCHANGED <<now, offers, caps, evidence, fences, line, call, userVars, slow>>
  BY DEF Revoke, FastRevoke
<1> QED
  BY <1>1, <1>2 DEF TypeOK, userVars

LEMMA AccountTypes ==
    ASSUME TypeOK, NEW conf \in Confs, CheckAccount(conf)
    PROVE  TypeOK'
<1>1. evidence' \subseteq Evidence
  <2>1. ASSUME NEW t \in {None} \cup {c.terms : c \in Consumed}
        PROVE  [conf |-> conf, terms |-> t] \in Evidence
    BY DEF Evidence, Consumed, TypeOK, Capability
  <2>2. \/ evidence' = evidence
        \/ \E t \in {None} \cup {c.terms : c \in Consumed} :
             evidence' = evidence \cup {[conf |-> conf, terms |-> t]}
    BY DEF CheckAccount
  <2> QED
    BY <2>1, <2>2 DEF TypeOK
<1>2. status' \in Statuses /\ replan' \in {"none", "unseen", "seen"}
  BY MoveType DEF CheckAccount
<1>3. UNCHANGED <<epoch, now, offers, caps, fences, line, call, userVars, slow>>
  BY DEF CheckAccount
<1> QED
  BY <1>1, <1>2, <1>3 DEF TypeOK, userVars

LEMMA FinishTypes ==
    ASSUME TypeOK, NEW t, NEW verified, Finish(t, verified)
    PROVE  TypeOK'
<1>1. status' \in Statuses /\ replan' \in {"none", "unseen", "seen"}
  BY MoveType DEF Finish
<1>2. slow' \in {"idle", "thinking", "acting", "closing", "done"}
  BY DEF Finish, TypeOK
<1>3. UNCHANGED <<epoch, now, offers, caps, evidence, fences, line, call, userVars>>
  BY DEF Finish
<1> QED
  BY <1>1, <1>2, <1>3 DEF TypeOK, userVars

(* A post names the card or mandate shown. *)
LEMMA PostTypes ==
    ASSUME TypeOK, UserPosts
    PROVE  TypeOK'
<1>1. PICK d \in {"granted", "denied"} :
        \/ /\ card # None
           /\ posts' = Append(posts, [subject |-> "approval", terms |-> card.terms,
                                      epoch |-> card.epoch, n |-> card.n,
                                      decision |-> d])
        \/ /\ mandate # None /\ mandate.status = "proposed"
           /\ posts' = Append(posts, [subject |-> "mandate", terms |-> None,
                                      epoch |-> mandate.epoch, n |-> mandate.id,
                                      decision |-> d])
  BY DEF UserPosts
<1>2. PICK p \in Post : posts' = Append(posts, p)
  <2>1. CASE card # None /\ posts' = Append(posts,
               [subject |-> "approval", terms |-> card.terms,
                epoch |-> card.epoch, n |-> card.n, decision |-> d])
    <3>1. card \in Card
      BY <2>1 DEF TypeOK
    <3>2. [subject |-> "approval", terms |-> card.terms,
           epoch |-> card.epoch, n |-> card.n, decision |-> d] \in Post
      BY <3>1 DEF Card, Post
    <3> QED
      BY <2>1, <3>2
  <2>2. CASE mandate # None /\ posts' = Append(posts,
               [subject |-> "mandate", terms |-> None,
                epoch |-> mandate.epoch, n |-> mandate.id, decision |-> d])
    <3>1. mandate \in Mandate
      BY <2>2 DEF TypeOK
    <3>2. [subject |-> "mandate", terms |-> None,
           epoch |-> mandate.epoch, n |-> mandate.id, decision |-> d] \in Post
      BY <3>1 DEF Mandate, Post
    <3> QED
      BY <2>2, <3>2
  <2> QED
    BY <1>1, <2>1, <2>2
<1>3. posts' \in Seq(Post)
  BY <1>2 DEF TypeOK
<1>4. UNCHANGED <<status, epoch, now, offers, caps, evidence, fences, line, call,
                  mandate, mandates, card, approvals, timers, consents, slowVars>>
  BY DEF UserPosts
<1> QED
  BY <1>3, <1>4 DEF TypeOK, slowVars

LEMMA PostsLeft ==
    ASSUME TypeOK, posts # <<>>
    PROVE  Head(posts) \in Post /\ Tail(posts) \in Seq(Post)
BY DEF TypeOK

LEMMA DecisionTypes ==
    ASSUME TypeOK, RefusePost \/ DecideCard \/ DecideMandate \/ CardExpires
    PROVE  TypeOK'
<1>1. CASE RefusePost
  <2>1. posts' \in Seq(Post)
    BY <1>1, PostsLeft DEF RefusePost
  <2> QED
    BY <1>1, <2>1 DEF RefusePost, TypeOK
<1>2. CASE DecideCard
  <2>1. posts' \in Seq(Post) /\ Head(posts).decision \in {"granted", "denied"}
    BY <1>2, PostsLeft DEF DecideCard, Post
  <2>2. card \in Card
    BY <1>2 DEF DecideCard, MayDecideCard, TypeOK
  <2> DEFINE a == [terms |-> card.terms, epoch |-> card.epoch, n |-> card.n,
                   expires |-> card.expires, decision |-> Head(posts).decision]
  <2>3. a \in Approval
    BY <2>1, <2>2 DEF Card, Approval
  <2>4. approvals' = approvals \cup {a}
    BY <1>2 DEF DecideCard
  <2> HIDE DEF a
  <2>5. approvals' \subseteq Approval /\ IsFiniteSet(approvals')
    BY <2>3, <2>4, FS_AddElement DEF TypeOK
  <2>6. status' \in Statuses /\ replan' \in {"none", "unseen", "seen"} /\ card' = None
    BY <1>2, MoveType DEF DecideCard
  <2>7. UNCHANGED <<epoch, now, offers, caps, evidence, fences, line, call,
                    mandate, mandates, timers, consents, slow>>
    BY <1>2 DEF DecideCard
  <2> QED
    BY <2>1, <2>5, <2>6, <2>7 DEF TypeOK
<1>3. CASE DecideMandate
  <2>1. posts' \in Seq(Post) /\ Head(posts).decision \in {"granted", "denied"}
    BY <1>3, PostsLeft DEF DecideMandate, Post
  <2>2. mandate \in Mandate /\ epoch + 1 \in Nat
    BY <1>3 DEF DecideMandate, MayDecideMandate, TypeOK
  <2>3. mandate' = [mandate EXCEPT !.status = Head(posts).decision, !.epoch = epoch + 1]
    BY <1>3 DEF DecideMandate
  <2>4. mandate' \in Mandate
    BY <2>1, <2>2, <2>3 DEF Mandate
  <2>5. consents' \subseteq Mandate
    BY <1>3, <2>4 DEF DecideMandate, TypeOK
  <2>6. status' \in Statuses /\ replan' \in {"none", "unseen", "seen"}
    <3> DEFINE stale == IF card # None /\ card.epoch < epoch + 1
                        THEN NextStatus(status, "approval_stale") ELSE status
    <3>1. stale \in Statuses
      BY NextStatusType DEF TypeOK
    <3>2. status' \in {stale, NextStatus(stale, "mandate_granted")}
      BY <1>3 DEF DecideMandate
    <3>3. replan' \in {"unseen", replan}
      BY <1>3 DEF DecideMandate
    <3> HIDE DEF stale
    <3> QED
      BY <3>1, <3>2, <3>3, NextStatusType DEF TypeOK
  <2>7. epoch' \in Nat
    BY <1>3, <2>2 DEF DecideMandate
  <2>8. UNCHANGED <<now, offers, caps, evidence, fences, line, call, mandates,
                    card, approvals, timers, slow>>
    BY <1>3 DEF DecideMandate
  <2> QED
    BY <2>1, <2>4, <2>5, <2>6, <2>7, <2>8 DEF TypeOK
<1>4. CASE CardExpires
  <2>1. status' \in Statuses /\ replan' \in {"none", "unseen", "seen"}
    BY <1>4, MoveType DEF CardExpires, TypeOK
  <2>2. timers' \subseteq Card
    BY <1>4 DEF CardExpires, TypeOK
  <2>3. UNCHANGED <<epoch, now, offers, caps, evidence, fences, line, call,
                    mandate, mandates, card, approvals, posts, consents, slow>>
    BY <1>4 DEF CardExpires
  <2> QED
    BY <2>1, <2>2, <2>3 DEF TypeOK
<1> QED
  BY <1>1, <1>2, <1>3, <1>4

(* The call, the partners, the Speaker and the clock keep the types. *)
LEMMA TalkTypes ==
    ASSUME TypeOK, \/ CallOpened \/ UserMsg \/ RepLine \/ CallClosed \/ HangUp
                   \/ SessionEnds \/ Tick
    PROVE  TypeOK'
<1>1. CASE CallOpened \/ HangUp
  <2>1. status' \in Statuses /\ replan' \in {"none", "unseen", "seen"}
    BY <1>1, MoveType DEF CallOpened, HangUp, TypeOK
  <2>2. /\ call' \in {"none", "open", "closed", "ended"}
        /\ UNCHANGED <<epoch, now, offers, caps, evidence, fences, line, userVars, slow>>
    BY <1>1 DEF CallOpened, HangUp
  <2> QED
    BY <2>1, <2>2 DEF TypeOK, userVars
<1>2. CASE UserMsg
  BY <1>2 DEF UserMsg, TypeOK, userVars
<1>3. CASE RepLine
  BY <1>3 DEF RepLine, TypeOK, userVars
<1>4. CASE CallClosed
  BY <1>4 DEF CallClosed, TypeOK, userVars
<1>5. CASE SessionEnds
  BY <1>5 DEF SessionEnds, TypeOK, userVars, slowVars
<1>6. CASE Tick
  BY <1>6 DEF Tick, TypeOK, userVars, slowVars
<1> QED
  BY <1>1, <1>2, <1>3, <1>4, <1>5, <1>6

LEMMA LineTypes ==
    ASSUME TypeOK, FenceWait \/ Release \/ Revoked \/ Delivered
    PROVE  TypeOK'
<1>1. CASE FenceWait
  BY <1>1 DEF FenceWait, TypeOK, userVars, slowVars
<1>2. CASE Release
  <2>1. PICK c \in InFlight : caps' = (caps \ {c}) \cup {[c EXCEPT !.consumed = TRUE]}
    BY <1>2 DEF Release
  <2>2. [c EXCEPT !.consumed = TRUE] \in Capability
    BY DEF InFlight, TypeOK, Capability
  <2>3. caps' \subseteq Capability
    BY <2>1, <2>2 DEF TypeOK
  <2> QED
    BY <1>2, <2>3 DEF Release, TypeOK, userVars, slowVars
<1>3. CASE Revoked \/ Delivered
  <2>1. status' \in Statuses /\ replan' \in {"none", "unseen", "seen"}
    BY <1>3, MoveType DEF Revoked, Delivered
  <2>2. caps' \subseteq Capability /\ line' = "none"
    BY <1>3 DEF Revoked, Delivered, TypeOK
  <2>3. UNCHANGED <<epoch, now, offers, evidence, fences, call, userVars, slow>>
    BY <1>3 DEF Revoked, Delivered
  <2> QED
    BY <2>1, <2>2, <2>3 DEF TypeOK, userVars
<1> QED
  BY <1>1, <1>2, <1>3

LEMMA AuthorityTypeNext == TypeOK /\ [Next]_vars => TypeOK'
<1> SUFFICES ASSUME TypeOK, [Next]_vars PROVE TypeOK'
  OBVIOUS
<1>1. CASE UNCHANGED vars
  BY <1>1 DEF vars, TypeOK, userVars, slowVars
<1>2. CASE StepStarted \/ Act \/ StepCompleted
  BY <1>2, StepTypes
<1>3. CASE SlowTool
  <2>1. CASE FinishCompleted \/ FinishNoDeal \/ FinishInfoOnly \/ FinishEscalate
    BY <2>1, FinishTypes DEF FinishCompleted, FinishNoDeal, FinishInfoOnly, FinishEscalate
  <2>2. CASE ProposeMandate \/ TightenMandate
    BY <2>2, MandateToolTypes
  <2>3. CASE Revoke
    BY <2>3, BumpTypes
  <2>4. ASSUME NEW r \in Refs,
               \/ RecordOffer(r) \/ DeclineOffer(r)
               \/ RequestApproval(r) \/ AcceptOffer(r)
        PROVE  TypeOK'
    BY <2>4, OfferToolTypes, RequestTypes, AcceptTypes
  <2>5. ASSUME NEW conf \in Confs, CheckAccount(conf) PROVE TypeOK'
    BY <2>5, AccountTypes
  <2> QED
    BY <1>3, <2>1, <2>2, <2>3, <2>4, <2>5 DEF SlowTool
<1>4. CASE UserPosts
  BY <1>4, PostTypes
<1>5. CASE RefusePost \/ DecideCard \/ DecideMandate \/ CardExpires
  BY <1>5, DecisionTypes
<1>6. CASE FastRevoke
  BY <1>6, BumpTypes
<1>7. CASE CallOpened \/ UserMsg \/ RepLine \/ CallClosed \/ HangUp \/ SessionEnds \/ Tick
  BY <1>7, TalkTypes
<1>8. CASE FenceWait \/ Release \/ Revoked \/ Delivered
  BY <1>8, LineTypes
<1> QED
  BY <1>1, <1>2, <1>3, <1>4, <1>5, <1>6, <1>7, <1>8 DEF Next

-----------------------------------------------------------------------------
(* The theorems. *)

(* Every reachable state of Authority is well typed. *)
THEOREM AuthorityTypes == Spec => []TypeOK
BY AuthorityTypeInit, AuthorityTypeNext, PTL DEF Spec

LEMMA CommitInvariant == Spec => [](TypeOK /\ CommitInv)
<1>1. Init => TypeOK /\ CommitInv
  BY AuthorityTypeInit, CommitInit
<1>2. TypeOK /\ CommitInv /\ [Next]_vars => (TypeOK /\ CommitInv)'
  <2>1. TypeOK => caps \subseteq Capability
    BY DEF TypeOK
  <2> QED
    BY <2>1, AuthorityTypeNext, CommitNext
<1> QED
  BY <1>1, <1>2, PTL DEF Spec

(* No terms are accepted twice and one accept is in flight at a time: the  *)
(* refusals of accept_offer (guard/authorize.py) hold up over every        *)
(* revoked, cut and retried accept.                                        *)
THEOREM AcceptsOnce == Spec => []AcceptOnce
<1>1. CommitInv => AcceptOnce
  BY DEF CommitInv
<1> QED
  BY <1>1, CommitInvariant, PTL

(* The status says COMMIT_AUTHORIZED exactly while the Speaker holds an    *)
(* accept line or says it (kernel/speaker.py, core/fold.py).               *)
THEOREM CommitTracked == Spec => []CommitTracksLine
<1>1. CommitInv => CommitTracksLine
  BY DEF CommitInv
<1> QED
  BY <1>1, CommitInvariant, PTL

(* A closed case stays closed and no accept goes out for it: no row of the *)
(* status table leaves a terminal status, and no line is left to release.  *)
THEOREM ClosedCase == Spec => ClosedStaysClosed
<1> DEFINE Stays == (status \in TERMINAL) => (status' = status /\ Consumed' = Consumed)
<1>1. TypeOK /\ CommitInv /\ [Next]_vars => [Stays]_vars
  <2> SUFFICES ASSUME TypeOK, CommitInv, [Next]_vars, status \in TERMINAL
               PROVE  status' = status /\ Consumed' = Consumed
    OBVIOUS
  <2>1. \A t : Move(t) => status' = status
    BY TerminalStays DEF Move
  <2>2. BumpEpoch => status' = status
    BY <2>1 DEF BumpEpoch
  <2>3. status # "COMMIT_AUTHORIZED" /\ status # "IN_CALL"
    BY DEF TERMINAL
  <2>4. CASE OtherActions
    <3>1. Consumed' = Consumed
      BY <2>4, OthersAside DEF Aside, Consumed
    <3>2. \A t, v : Finish(t, v) => status' = status
      BY <2>1 DEF Finish
    <3>3. CASE FinishCompleted \/ FinishNoDeal \/ FinishInfoOnly \/ FinishEscalate
      BY <3>1, <3>2, <3>3 DEF FinishCompleted, FinishNoDeal, FinishInfoOnly, FinishEscalate
    <3>4. CASE DecideMandate
      <4>1. NextStatus(status, "approval_stale") = status
        BY TerminalStays
      <4>2. NextStatus(status, "mandate_granted") = status
        BY TerminalStays
      <4> QED
        BY <3>1, <3>4, <4>1, <4>2 DEF DecideMandate
    <3>5. CASE StepCompleted
      BY <3>1, <3>5, TerminalStays DEF StepCompleted
    <3>6. CASE \/ StepStarted \/ Act \/ ProposeMandate \/ UserPosts \/ RefusePost
               \/ UserMsg \/ RepLine \/ CallClosed \/ SessionEnds \/ FenceWait \/ Tick
               \/ UNCHANGED vars
               \/ \E r \in Refs : RecordOffer(r) \/ DeclineOffer(r)
      BY <3>1, <3>6 DEF StepStarted, Act, ProposeMandate, UserPosts, RefusePost, UserMsg,
         RepLine, CallClosed, SessionEnds, FenceWait, Tick, vars, RecordOffer, DeclineOffer
    <3>7. CASE \/ TightenMandate \/ Revoke \/ FastRevoke \/ DecideCard \/ CardExpires
               \/ CallOpened
               \/ \E r \in Refs : RequestApproval(r)
               \/ \E conf \in Confs : CheckAccount(conf)
      BY <2>1, <2>2, <3>1, <3>7 DEF TightenMandate, Revoke, FastRevoke, DecideCard,
         CardExpires, CallOpened, RequestApproval, CheckAccount
    <3> QED
      BY <2>4, <3>3, <3>4, <3>5, <3>6, <3>7 DEF OtherActions
  <2>5. ASSUME NEW r \in Refs, AcceptOffer(r) PROVE FALSE
    BY <2>3, <2>5 DEF AcceptOffer, MayAccept
  <2>6. CASE Release \/ Revoked
    <3>1. PICK c \in InFlight : OnFloor
      BY <2>6 DEF Release, Revoked
    <3> QED
      BY <2>3, <3>1, OnFloorState
  <2>7. CASE Delivered
    BY <2>1, <2>7 DEF Delivered, Consumed
  <2>8. CASE HangUp
    BY <2>1, <2>8 DEF HangUp, Consumed
  <2> QED
    BY <2>4, <2>5, <2>6, <2>7, <2>8, NextSplit
<1> QED
  BY <1>1, CommitInvariant, PTL DEF Spec, ClosedStaysClosed

-----------------------------------------------------------------------------
(* A case that awaits the user.  No pending card is of a later epoch, so   *)
(* every bump of the epoch stales the card and moves the case on.          *)
AwaitInv ==
    /\ AwaitingHasCard
    /\ card # None => card.epoch <= epoch

LEMMA AwaitMoves ==
    /\ \A s, t : t # "approval_requested" /\ NextStatus(s, t) = "AWAITING_APPROVAL"
                 => s = "AWAITING_APPROVAL"
    /\ \A t \in {"approval_decided", "approval_stale", "approval_expired"} :
         NextStatus("AWAITING_APPROVAL", t) # "AWAITING_APPROVAL"
<1>1. ASSUME NEW s, NEW t, t # "approval_requested", s # "AWAITING_APPROVAL",
             NextStatus(s, t) = "AWAITING_APPROVAL"
      PROVE  FALSE
  <2>1. \E row \in TRANSITIONS : row[2] = t /\ row[3] = "AWAITING_APPROVAL"
    BY <1>1, MoveFollowsRow
  <2> QED
    BY <1>1, <2>1 DEF TRANSITIONS
<1>2. ASSUME NEW t \in {"approval_decided", "approval_stale", "approval_expired"}
      PROVE  NextStatus("AWAITING_APPROVAL", t) # "AWAITING_APPROVAL"
  <2> DEFINE s == "AWAITING_APPROVAL"
             r == CHOOSE row \in TRANSITIONS : row[1] = s /\ row[2] = t
  <2>1. \E row \in TRANSITIONS : row[1] = s /\ row[2] = t
    BY DEF TRANSITIONS
  <2>2. r \in TRANSITIONS /\ r[2] = t
    BY <2>1
  <2>3. NextStatus(s, t) = r[3]
    BY <2>1 DEF NextStatus, MayMove
  <2>4. \A row \in TRANSITIONS : row[2] = t => row[3] # "AWAITING_APPROVAL"
    BY DEF TRANSITIONS
  <2> QED
    BY <2>2, <2>3, <2>4
<1> QED
  BY <1>1, <1>2

(* A step that leaves card, timers and epoch alone asks for no approval.   *)
CardAside ==
    /\ UNCHANGED <<card, timers, epoch>>
    /\ status' = "AWAITING_APPROVAL" => status = "AWAITING_APPROVAL"

LEMMA CardAsideKeeps == AwaitInv /\ CardAside => AwaitInv'
BY DEF AwaitInv, AwaitingHasCard, CardAside

LEMMA MoveCardAside ==
    ASSUME NEW t, t # "approval_requested", Move(t)
    PROVE  status' = "AWAITING_APPROVAL" => status = "AWAITING_APPROVAL"
BY AwaitMoves DEF Move

LEMMA BumpKeepsAwait ==
    ASSUME TypeOK, AwaitInv, BumpEpoch, UNCHANGED <<card, timers>>
    PROVE  AwaitInv'
<1>1. epoch \in Nat /\ epoch' = epoch + 1
  BY DEF TypeOK, BumpEpoch
<1>2. card # None => card.epoch \in Nat
  BY DEF TypeOK, Card
<1>3. card # None => card.epoch < epoch + 1 /\ card.epoch <= epoch'
  BY <1>1, <1>2 DEF AwaitInv
<1>4. status' # "AWAITING_APPROVAL"
  <2>1. CASE card # None
    BY <1>3, <2>1, AwaitMoves DEF BumpEpoch, Move
  <2>2. CASE card = None
    BY <2>2 DEF BumpEpoch, AwaitInv, AwaitingHasCard
  <2> QED
    BY <2>1, <2>2
<1> QED
  BY <1>3, <1>4 DEF AwaitInv, AwaitingHasCard

LEMMA AwaitNext == TypeOK /\ AwaitInv /\ [Next]_vars => AwaitInv'
<1> SUFFICES ASSUME TypeOK, AwaitInv, [Next]_vars PROVE AwaitInv'
  OBVIOUS
<1>1. CASE \/ StepStarted \/ Act \/ ProposeMandate \/ UserPosts \/ RefusePost \/ UserMsg
           \/ RepLine \/ CallClosed \/ SessionEnds \/ FenceWait \/ Release \/ Tick
           \/ UNCHANGED vars
           \/ \E r \in Refs : RecordOffer(r) \/ DeclineOffer(r)
  BY <1>1, CardAsideKeeps DEF CardAside, StepStarted, Act, ProposeMandate, UserPosts,
     RefusePost, UserMsg, RepLine, CallClosed, SessionEnds, FenceWait, Release, Tick, vars,
     RecordOffer, DeclineOffer, userVars
<1>2. CASE \/ CallOpened \/ HangUp \/ Revoked \/ Delivered
           \/ \E r \in Refs : AcceptOffer(r)
           \/ \E conf \in Confs : CheckAccount(conf)
  BY <1>2, CardAsideKeeps, MoveCardAside DEF CardAside, CallOpened, HangUp, Revoked,
     Delivered, AcceptOffer, CheckAccount, userVars
<1>3. CASE StepCompleted
  BY <1>3, CardAsideKeeps, AwaitMoves DEF CardAside, StepCompleted, userVars
<1>4. CASE FinishCompleted \/ FinishNoDeal \/ FinishInfoOnly \/ FinishEscalate
  <2>1. ASSUME NEW t, NEW v, t # "approval_requested", Finish(t, v) PROVE CardAside
    BY <2>1, MoveCardAside DEF CardAside, Finish, userVars
  <2> QED
    BY <1>4, <2>1, CardAsideKeeps DEF FinishCompleted, FinishNoDeal, FinishInfoOnly,
       FinishEscalate
<1>5. ASSUME NEW r \in Refs, RequestApproval(r) PROVE AwaitInv'
  <2>1. /\ card' # None /\ card'.epoch = epoch /\ card' \in timers' /\ epoch' = epoch
        /\ epoch \in Nat
    <3>1. card' # None
      BY <1>5, RequestedCard, NoneAssumption DEF NoneAssumption
    <3> QED
      BY <1>5, <3>1 DEF RequestApproval, TypeOK
  <2> QED
    BY <2>1 DEF AwaitInv, AwaitingHasCard
<1>6. CASE TightenMandate \/ Revoke \/ FastRevoke
  BY <1>6, BumpKeepsAwait DEF TightenMandate, Revoke, FastRevoke, userVars
<1>7. CASE DecideCard
  <2>1. status' # "AWAITING_APPROVAL" /\ card' = None
    BY <1>7, AwaitMoves DEF DecideCard, Move
  <2> QED
    BY <2>1 DEF AwaitInv, AwaitingHasCard
<1>8. CASE DecideMandate
  <2> DEFINE stale == IF card # None /\ card.epoch < epoch + 1
                      THEN NextStatus(status, "approval_stale") ELSE status
  <2>1. epoch \in Nat /\ epoch' = epoch + 1 /\ card' = card
    BY <1>8 DEF DecideMandate, TypeOK
  <2>2. card # None => card.epoch \in Nat
    BY DEF TypeOK, Card
  <2>3. card # None => card.epoch < epoch + 1 /\ card.epoch <= epoch'
    BY <2>1, <2>2 DEF AwaitInv
  <2>4. stale # "AWAITING_APPROVAL"
    <3>1. CASE card # None
      BY <2>3, <3>1, AwaitMoves
    <3>2. CASE card = None
      BY <3>2 DEF AwaitInv, AwaitingHasCard
    <3> QED
      BY <3>1, <3>2
  <2>5. status' \in {stale, NextStatus(stale, "mandate_granted")}
    BY <1>8 DEF DecideMandate
  <2>6. status' # "AWAITING_APPROVAL"
    <3> HIDE DEF stale
    <3> QED
      BY <2>4, <2>5, AwaitMoves
  <2> QED
    BY <2>1, <2>3, <2>6 DEF AwaitInv, AwaitingHasCard
<1>9. CASE CardExpires
  <2>1. PICK c \in timers :
          /\ timers' = timers \ {c}
          /\ IF card = c THEN Move("approval_expired") ELSE UNCHANGED <<status, replan>>
    BY <1>9 DEF CardExpires
  <2>2. card' = card /\ epoch' = epoch
    BY <1>9 DEF CardExpires
  <2>3. CASE card = c
    BY <2>1, <2>2, <2>3, AwaitMoves DEF Move, AwaitInv, AwaitingHasCard
  <2>4. CASE card # c
    BY <2>1, <2>2, <2>4 DEF AwaitInv, AwaitingHasCard
  <2> QED
    BY <2>3, <2>4
<1> QED
  BY <1>1, <1>2, <1>3, <1>4, <1>5, <1>6, <1>7, <1>8, <1>9 DEF Next, SlowTool

(* A case that awaits the user holds a card of this epoch whose timer is   *)
(* running (kernel/fence.py, approval_stale and _expires).                 *)
THEOREM AwaitsWithCard == Spec => []AwaitingHasCard
<1>1. Init => TypeOK /\ AwaitInv
  BY AuthorityTypeInit DEF Init, AwaitInv, AwaitingHasCard
<1>2. TypeOK /\ AwaitInv /\ [Next]_vars => (TypeOK /\ AwaitInv)'
  BY AuthorityTypeNext, AwaitNext
<1>3. AwaitInv => AwaitingHasCard
  BY DEF AwaitInv
<1> QED
  BY <1>1, <1>2, <1>3, PTL DEF Spec

-----------------------------------------------------------------------------
(* The outcome. *)

AfterAccept == {"COMMITTED", "EVIDENCE_PENDING"}
Verified == {"VERIFIED_COMPLETE", "VERIFIED_NO_DEAL"}

(* A step that leaves the capabilities alone, loses no evidence and leads  *)
(* into none of these statuses but from the one accept to its evidence.    *)
OutcomeKept ==
    /\ status' \in AfterAccept => status \in AfterAccept
    /\ status' \in Verified => status' = status

OutcomeAside == Aside /\ evidence \subseteq evidence' /\ OutcomeKept

LEMMA OutcomeAsideKeeps == OutcomeTruthful /\ OutcomeAside => OutcomeTruthful'
<1> SUFFICES ASSUME OutcomeTruthful, OutcomeAside PROVE OutcomeTruthful'
  OBVIOUS
<1>1. Consumed' = Consumed /\ caps' = caps
  BY DEF OutcomeAside, Aside, Consumed
<1>2. status' \in AfterAccept => Consumed' # {} /\ line' = "none"
  BY <1>1 DEF OutcomeAside, Aside, OutcomeKept, OutcomeTruthful, AfterAccept, OnTheWay
<1>3. ASSUME status' = "VERIFIED_COMPLETE"
      PROVE  \E c \in Consumed' : /\ Consumed' = {c}
                                  /\ \E e \in evidence' : e.terms = c.terms
  <2>1. status = "VERIFIED_COMPLETE"
    BY <1>3 DEF OutcomeAside, OutcomeKept, Verified
  <2>2. PICK c \in Consumed : Consumed = {c} /\ \E e \in evidence : e.terms = c.terms
    BY <2>1 DEF OutcomeTruthful
  <2> QED
    BY <1>1, <2>2 DEF OutcomeAside
<1>4. status' = "VERIFIED_NO_DEAL" => caps' = {}
  BY <1>1 DEF OutcomeAside, OutcomeKept, OutcomeTruthful, Verified
<1> QED
  BY <1>2, <1>3, <1>4 DEF OutcomeTruthful, AfterAccept

OutcomeTriggers == {"completion_ok", "no_deal_verified"}

(* Only the accept's own triggers lead into COMMITTED, and only the two    *)
(* verifiers' into a verified outcome.                                     *)
LEMMA OutcomeMoves ==
    ASSUME NEW s, NEW t, t \notin AcceptTriggers, t # "hang_up"
    PROVE  /\ NextStatus(s, t) \in AfterAccept => s \in AfterAccept
           /\ t \notin OutcomeTriggers /\ NextStatus(s, t) \in Verified
                => NextStatus(s, t) = s
<1> SUFFICES ASSUME NextStatus(s, t) # s
             PROVE  /\ NextStatus(s, t) \in AfterAccept => s \in AfterAccept
                    /\ t \notin OutcomeTriggers => NextStatus(s, t) \notin Verified
  OBVIOUS
<1>1. PICK row \in TRANSITIONS : row[1] = s /\ row[2] = t /\ row[3] = NextStatus(s, t)
  BY MoveFollowsRow
<1>2. row[2] \notin AcceptTriggers
      => /\ row[3] \in AfterAccept => row[1] \in AfterAccept
         /\ row[2] \notin OutcomeTriggers => row[3] \notin Verified
  BY DEF TRANSITIONS, AcceptTriggers, AfterAccept, OutcomeTriggers, Verified
<1> QED
  BY <1>1, <1>2

LEMMA MoveOutcome ==
    ASSUME NEW t, t \notin AcceptTriggers \cup OutcomeTriggers, t # "hang_up", Move(t)
    PROVE  OutcomeKept
BY OutcomeMoves DEF Move, OutcomeKept

LEMMA BumpOutcome == BumpEpoch => OutcomeKept
<1>1. "approval_stale" \notin AcceptTriggers \cup OutcomeTriggers
  BY DEF AcceptTriggers, OutcomeTriggers
<1> QED
  BY <1>1, MoveOutcome DEF BumpEpoch, OutcomeKept, AfterAccept, Verified

(* The verifiers: a completion needs the one accept and its evidence, a    *)
(* no-deal the call without any accept.                                    *)
LEMMA CompletedOutcome ==
    ASSUME CommitInv, OutcomeTruthful, FinishCompleted
    PROVE  OutcomeTruthful'
<1>1. CASE Finish("completion_fail", ~VerifyCompletion)
  <2>1. OutcomeKept
    BY <1>1, MoveOutcome DEF Finish, AcceptTriggers, OutcomeTriggers
  <2>2. Aside
    BY <1>1, FinishAside DEF AcceptTriggers
  <2> QED
    BY <1>1, <2>1, <2>2, OutcomeAsideKeeps DEF OutcomeAside, Finish
<1>2. CASE Finish("completion_ok", VerifyCompletion)
  <2>1. /\ UNCHANGED <<caps, evidence, line>> /\ Move("completion_ok")
        /\ MayMove(status, "completion_ok") /\ VerifyCompletion
    BY <1>2 DEF Finish
  <2>2. status = "EVIDENCE_PENDING"
    BY <2>1 DEF MayMove, TRANSITIONS
  <2>3. status' = "VERIFIED_COMPLETE"
    <3>1. status' = NextStatus("EVIDENCE_PENDING", "completion_ok")
      BY <2>1, <2>2 DEF Move
    <3> DEFINE r == CHOOSE row \in TRANSITIONS : row[1] = "EVIDENCE_PENDING" /\ row[2] = "completion_ok"
    <3>2. \E row \in TRANSITIONS : row[1] = "EVIDENCE_PENDING" /\ row[2] = "completion_ok"
      BY DEF TRANSITIONS
    <3>3. r \in TRANSITIONS /\ r[1] = "EVIDENCE_PENDING" /\ r[2] = "completion_ok"
      BY <3>2
    <3>4. status' = r[3]
      BY <2>1, <2>2, <3>1 DEF NextStatus
    <3> HIDE DEF r
    <3> QED
      BY <3>3, <3>4 DEF TRANSITIONS
  <2>4. PICK c \in Consumed : Consumed = {c} /\ \E e \in evidence : e.terms = c.terms
    BY <2>1 DEF VerifyCompletion
  <2>5. Consumed' = Consumed
    BY <2>1 DEF Consumed
  <2> QED
    BY <2>1, <2>3, <2>4, <2>5 DEF OutcomeTruthful
<1> QED
  BY <1>1, <1>2 DEF FinishCompleted

LEMMA NoDealOutcome ==
    ASSUME CommitInv, OutcomeTruthful, FinishNoDeal
    PROVE  OutcomeTruthful'
<1>1. /\ caps' = caps /\ line' = line /\ evidence' = evidence /\ Move("no_deal_verified")
      /\ MayMove(status, "no_deal_verified") /\ Consumed = {}
  BY DEF FinishNoDeal, Finish, VerifyNoDeal
<1>2. status = "IN_CALL"
  BY <1>1 DEF MayMove, TRANSITIONS
<1>3. line = "none"
  BY <1>2 DEF CommitInv, CommitTracksLine
<1>4. InFlight = {}
  BY <1>3 DEF CommitInv, CommitTracksLine
<1>5. caps = {}
  BY <1>1, <1>4 DEF Consumed, InFlight
<1>6. status' \notin AfterAccept
  BY <1>1, <1>2, OutcomeMoves DEF Move, AcceptTriggers, AfterAccept
<1>7. status' # "VERIFIED_COMPLETE"
  <2>1. NextStatus("IN_CALL", "no_deal_verified") # "VERIFIED_COMPLETE"
    <3> SUFFICES ASSUME NextStatus("IN_CALL", "no_deal_verified") = "VERIFIED_COMPLETE"
                 PROVE  FALSE
      OBVIOUS
    <3>1. \E row \in TRANSITIONS : /\ row[1] = "IN_CALL" /\ row[2] = "no_deal_verified"
                                   /\ row[3] = "VERIFIED_COMPLETE"
      BY MoveFollowsRow
    <3> QED
      BY <3>1 DEF TRANSITIONS
  <2> QED
    BY <1>1, <1>2, <2>1 DEF Move
<1> QED
  BY <1>1, <1>5, <1>6, <1>7 DEF OutcomeTruthful, AfterAccept

(* The other steps that leave the accept alone. *)
LEMMA OthersOutcome ==
    ASSUME OtherActions, ~FinishCompleted, ~FinishNoDeal
    PROVE  OutcomeAside
<1>1. Aside
  BY OthersAside
<1>2. evidence \subseteq evidence' /\ OutcomeKept
  <2>1. CASE \/ StepStarted \/ Act \/ ProposeMandate \/ UserPosts \/ RefusePost
             \/ UserMsg \/ RepLine \/ CallClosed \/ SessionEnds \/ FenceWait \/ Tick
             \/ UNCHANGED vars
             \/ \E r \in Refs : RecordOffer(r) \/ DeclineOffer(r)
    <3>1. UNCHANGED <<status, evidence>>
      BY <2>1 DEF StepStarted, Act, ProposeMandate, UserPosts, RefusePost, UserMsg,
         RepLine, CallClosed, SessionEnds, FenceWait, Tick, vars, RecordOffer, DeclineOffer
    <3> QED
      BY <3>1 DEF OutcomeKept, AfterAccept, Verified
  <2>2. CASE TightenMandate \/ Revoke \/ FastRevoke
    BY <2>2, BumpOutcome DEF TightenMandate, Revoke, FastRevoke
  <2>3. CASE StepCompleted
    BY <2>3, OutcomeMoves DEF StepCompleted, OutcomeKept, AcceptTriggers, OutcomeTriggers
  <2>4. CASE FinishInfoOnly \/ FinishEscalate
    BY <2>4, MoveOutcome DEF FinishInfoOnly, FinishEscalate, Finish, AcceptTriggers,
                             OutcomeTriggers
  <2>5. CASE DecideCard \/ CallOpened \/ \E r \in Refs : RequestApproval(r)
    BY <2>5, MoveOutcome DEF DecideCard, CallOpened, RequestApproval, AcceptTriggers,
                             OutcomeTriggers
  <2>6. CASE CardExpires
    BY <2>6, MoveOutcome DEF CardExpires, OutcomeKept, AcceptTriggers, OutcomeTriggers
  <2>7. ASSUME NEW conf \in Confs, CheckAccount(conf)
        PROVE  evidence \subseteq evidence' /\ OutcomeKept
    <3>1. OutcomeKept
      BY <2>7, MoveOutcome DEF CheckAccount, AcceptTriggers, OutcomeTriggers
    <3>2. evidence \subseteq evidence'
      BY <2>7 DEF CheckAccount
    <3> QED
      BY <3>1, <3>2
  <2>8. CASE DecideMandate
    <3> DEFINE stale == IF card # None /\ card.epoch < epoch + 1
                        THEN NextStatus(status, "approval_stale") ELSE status
    <3>1. /\ evidence' = evidence
          /\ status' = stale \/ status' = NextStatus(stale, "mandate_granted")
      BY <2>8 DEF DecideMandate
    <3>2. /\ stale \in AfterAccept => status \in AfterAccept
          /\ stale \in Verified => stale = status
      BY OutcomeMoves DEF AcceptTriggers, OutcomeTriggers
    <3>3. /\ status' \in AfterAccept => stale \in AfterAccept
          /\ status' \in Verified => status' = stale
      <4> HIDE DEF stale
      <4> QED
        BY <3>1, OutcomeMoves DEF AcceptTriggers, OutcomeTriggers
    <3> QED
      BY <3>1, <3>2, <3>3 DEF OutcomeKept
  <2> QED
    BY <2>1, <2>2, <2>3, <2>4, <2>5, <2>6, <2>7, <2>8 DEF OtherActions
<1> QED
  BY <1>1, <1>2 DEF OutcomeAside

LEMMA OutcomeNext ==
    ASSUME CommitInv, OutcomeTruthful, [Next]_vars
    PROVE  OutcomeTruthful'
<1>1. CASE OtherActions
  BY <1>1, CompletedOutcome, NoDealOutcome, OthersOutcome, OutcomeAsideKeeps
<1>2. ASSUME NEW r \in Refs, AcceptOffer(r) PROVE OutcomeTruthful'
  <2>1. status' = "COMMIT_AUTHORIZED"
    BY <1>2, AcceptMoves DEF AcceptOffer, MayAccept, Move
  <2> QED
    BY <2>1 DEF OutcomeTruthful
<1>3. CASE Release \/ Revoked
  <2>1. PICK c \in InFlight : OnFloor
    BY <1>3 DEF Release, Revoked
  <2>2. status = "COMMIT_AUTHORIZED"
    BY <2>1, OnFloorState
  <2>3. status' \in {"COMMIT_AUTHORIZED", "NEEDS_REPLAN"}
    BY <1>3, <2>2, AcceptMoves DEF Release, Revoked, Move
  <2> QED
    BY <2>3 DEF OutcomeTruthful
<1>4. CASE Delivered
  <2>1. line = "speaking" /\ line' = "none" /\ caps' = caps /\ call # "ended"
    BY <1>4 DEF Delivered, Others, Running
  <2>2. status = "COMMIT_AUTHORIZED" /\ Consumed # {}
    BY <2>1 DEF CommitInv, CommitTracksLine
  <2>3. status' \in {"COMMITTED", "NEEDS_REPLAN"}
    BY <1>4, <2>2, AcceptMoves DEF Delivered, Move
  <2>4. Consumed' = Consumed
    BY <2>1 DEF Consumed
  <2> QED
    BY <2>1, <2>2, <2>3, <2>4 DEF OutcomeTruthful
<1>5. CASE HangUp
  <2>1. UNCHANGED <<caps, evidence, line>>
    BY <1>5 DEF HangUp
  <2>2. status' = status \/ status' = "ABANDONED"
    <3>1. \A row \in TRANSITIONS : row[2] # "hang_up"
      BY DEF TRANSITIONS
    <3> QED
      BY <1>5, <3>1, MoveFollowsRow DEF HangUp, Move
  <2>3. Consumed' = Consumed
    BY <2>1 DEF Consumed
  <2> QED
    BY <2>1, <2>2, <2>3 DEF OutcomeTruthful
<1> QED
  BY <1>1, <1>2, <1>3, <1>4, <1>5, NextSplit

(* A case is complete with one accept that went out and evidence of its    *)
(* terms, and closes with no deal only if none did or can                  *)
(* (guard/verify.py, slow/authority.py).                                   *)
THEOREM OutcomesTruthful == Spec => []OutcomeTruthful
<1>1. Init => OutcomeTruthful
  BY DEF Init, OutcomeTruthful
<1>2. CommitInv /\ OutcomeTruthful /\ [Next]_vars => OutcomeTruthful'
  BY OutcomeNext
<1> QED
  BY <1>1, <1>2, CommitInvariant, PTL DEF Spec

-----------------------------------------------------------------------------
(* A case that awaits the user. *)

(* Only a card that is stale, or expired, takes it to NEEDS_REPLAN. *)
LEMMA WaitingMoves ==
    ASSUME NEW t, NextStatus("AWAITING_APPROVAL", t) = "NEEDS_REPLAN"
    PROVE  t \in {"approval_stale", "approval_expired"}
<1>1. \E row \in TRANSITIONS : /\ row[1] = "AWAITING_APPROVAL" /\ row[2] = t
                               /\ row[3] = "NEEDS_REPLAN"
  BY MoveFollowsRow
<1> QED
  BY <1>1 DEF TRANSITIONS

LEMMA WaitingMove ==
    ASSUME NEW t, t \notin {"approval_stale", "approval_expired"}, Move(t),
           status = "AWAITING_APPROVAL"
    PROVE  status' # "NEEDS_REPLAN"
BY WaitingMoves DEF Move

LEMMA NewerEpoch == TypeOK /\ BumpEpoch => epoch' > epoch
BY DEF BumpEpoch, TypeOK

(* A timer that fires moves the case only if its card is the one pending   *)
(* (kernel/fence.py, _expires): ids that repeat, queued decisions and the  *)
(* cards of other offers never take a waiting case away from the user.     *)
THEOREM ReplansWhenDue == Spec => ReplanOnlyWhenDue
<1> DEFINE Due == status = "AWAITING_APPROVAL" /\ status' = "NEEDS_REPLAN"
                    => epoch' > epoch \/ card.expires <= now
<1>1. TypeOK /\ CommitInv /\ [Next]_vars => [Due]_vars
  <2> SUFFICES ASSUME TypeOK, CommitInv, [Next]_vars, status = "AWAITING_APPROVAL",
                      status' = "NEEDS_REPLAN"
               PROVE  epoch' > epoch \/ card.expires <= now
    OBVIOUS
  <2>1. CASE \/ StepStarted \/ Act \/ ProposeMandate \/ UserPosts \/ RefusePost
             \/ UserMsg \/ RepLine \/ CallClosed \/ SessionEnds \/ FenceWait \/ Tick
             \/ UNCHANGED vars
             \/ \E r \in Refs : RecordOffer(r) \/ DeclineOffer(r)
    BY <2>1 DEF StepStarted, Act, ProposeMandate, UserPosts, RefusePost, UserMsg,
       RepLine, CallClosed, SessionEnds, FenceWait, Tick, vars, RecordOffer, DeclineOffer
  <2>2. CASE StepCompleted
    BY <2>2, WaitingMoves DEF StepCompleted
  <2>3. ASSUME NEW t, NEW v, Finish(t, v), t \notin {"approval_stale", "approval_expired"}
        PROVE  FALSE
    BY <2>3, WaitingMove DEF Finish
  <2>4. CASE FinishCompleted \/ FinishNoDeal \/ FinishInfoOnly \/ FinishEscalate
    BY <2>3, <2>4 DEF FinishCompleted, FinishNoDeal, FinishInfoOnly, FinishEscalate
  <2>5. CASE DecideCard \/ CallOpened \/ \E r \in Refs : RequestApproval(r)
    BY <2>5, WaitingMove DEF DecideCard, CallOpened, RequestApproval
  <2>6. CASE \E conf \in Confs : CheckAccount(conf)
    BY <2>6, WaitingMove DEF CheckAccount
  <2>7. CASE TightenMandate \/ Revoke \/ FastRevoke
    BY <2>7, NewerEpoch DEF TightenMandate, Revoke, FastRevoke
  <2>8. CASE DecideMandate
    <3>1. epoch' = epoch + 1
      BY <2>8 DEF DecideMandate
    <3> QED
      BY <3>1 DEF TypeOK
  <2>9. CASE CardExpires
    BY <2>9 DEF CardExpires
  <2>10. ASSUME NEW r \in Refs, AcceptOffer(r) PROVE FALSE
    BY <2>10 DEF AcceptOffer, MayAccept
  <2>11. CASE Release \/ Revoked
    <3>1. PICK c \in InFlight : OnFloor
      BY <2>11 DEF Release, Revoked
    <3> QED
      BY <3>1, OnFloorState
  <2>12. CASE Delivered
    BY <2>12, WaitingMove DEF Delivered
  <2>13. CASE HangUp
    BY <2>13, WaitingMove DEF HangUp
  <2> QED
    BY <2>1, <2>2, <2>4, <2>5, <2>6, <2>7, <2>8, <2>9, <2>10, <2>11, <2>12, <2>13,
       NextSplit DEF OtherActions
<1> QED
  BY <1>1, CommitInvariant, PTL DEF Spec, ReplanOnlyWhenDue

-----------------------------------------------------------------------------
(* Authority implements Consent: the invariant. *)

(* Whatever was recorded, shown, decided or minted is terms of an offer.   *)
KnownInv ==
    /\ \A r \in Refs : offers[r].rev > 0 => TermsOf(r) \in KnownTerms
    /\ card # None => card.terms \in KnownTerms
    /\ \A a \in approvals : a.terms \in KnownTerms
    /\ \A c \in caps : c.terms \in KnownTerms

(* No decision is of a later epoch, and a mandate that grants is one the   *)
(* user granted.                                                           *)
DecisionInv ==
    /\ IsFiniteSet(consents)
    /\ \A m \in consents : m.epoch <= epoch
    /\ \A a \in approvals : a.epoch <= epoch
    /\ mandate # None /\ mandate.status = "granted" => mandate \in consents

(* A capability of this epoch rests on an approval that outlives it, or on *)
(* a mandate that no accept has used up.                                   *)
Backed(c) ==
    \/ \E a \in GrantedApprovals :
          a.terms = c.terms /\ a.epoch = epoch /\ c.expires <= a.expires
    \/ /\ Consumed = {}
       /\ \E m \in consents : m.epoch = epoch /\ c.terms.price <= m.max

BackedInv ==
    \A c \in InFlight : c.epoch <= epoch /\ (c.epoch = epoch => Backed(c))

ConsentInv == KnownInv /\ DecisionInv /\ BackedInv

-----------------------------------------------------------------------------
(* What a step does to decisions, capabilities, epoch and clock. *)

Quiet == UNCHANGED <<epoch, now, approvals, consents, caps>>

Bumps == epoch' = epoch + 1 /\ UNCHANGED <<now, approvals, consents, caps>>

(* A proposal may take a mandate's place; only a decision grants one.      *)
Proposes == mandate' = mandate \/ mandate'.status = "proposed"

LEMMA StepKinds ==
    ASSUME [Next]_vars
    PROVE  \/ Quiet /\ Proposes
           \/ Bumps /\ Proposes
           \/ Tick \/ DecideCard \/ DecideMandate \/ Release \/ Revoked
           \/ \E r \in Refs : AcceptOffer(r)
<1>1. CASE \/ StepStarted \/ Act \/ StepCompleted \/ UserPosts \/ RefusePost
           \/ CardExpires \/ CallOpened \/ UserMsg \/ RepLine \/ CallClosed \/ HangUp
           \/ SessionEnds \/ FenceWait \/ Delivered \/ UNCHANGED vars
           \/ \E r \in Refs : RecordOffer(r) \/ DeclineOffer(r) \/ RequestApproval(r)
           \/ \E conf \in Confs : CheckAccount(conf)
  BY <1>1 DEF StepStarted, Act, StepCompleted, UserPosts, RefusePost, CardExpires,
     CallOpened, UserMsg, RepLine, CallClosed, HangUp, SessionEnds, FenceWait, Delivered,
     vars, RecordOffer, DeclineOffer, RequestApproval, CheckAccount, userVars, Quiet,
     Proposes
<1>2. CASE FinishCompleted \/ FinishNoDeal \/ FinishInfoOnly \/ FinishEscalate
  <2>1. ASSUME NEW t, NEW v, Finish(t, v) PROVE Quiet /\ Proposes
    BY <2>1 DEF Finish, userVars, Quiet, Proposes
  <2> QED
    BY <1>2, <2>1 DEF FinishCompleted, FinishNoDeal, FinishInfoOnly, FinishEscalate
<1>3. CASE ProposeMandate
  BY <1>3 DEF ProposeMandate, Quiet, Proposes
<1>4. CASE TightenMandate \/ Revoke \/ FastRevoke
  BY <1>4 DEF TightenMandate, Revoke, FastRevoke, BumpEpoch, userVars, Bumps, Proposes
<1> QED
  BY <1>1, <1>2, <1>3, <1>4 DEF Next, SlowTool

-----------------------------------------------------------------------------
(* The invariant holds. *)

(* The capability of a mint, and the grant behind it. *)
Minted(r, g) ==
    [terms |-> TermsOf(r), by |-> g.by, epoch |-> epoch,
     expires |-> Min2(Min2(g.expires, offers[r].expires), now + CAP_TTL),
     consumed |-> FALSE]

LEMMA MintedAccept ==
    ASSUME NEW r \in Refs, AcceptOffer(r)
    PROVE  \E g \in Grants(TermsOf(r)) : MayAccept(r, g) /\ caps' = caps \cup {Minted(r, g)}
BY DEF AcceptOffer, Minted

LEMMA CardKnown ==
    ASSUME TypeOK, KnownInv, NEW r \in Refs, RequestApproval(r)
    PROVE  KnownInv'
<1>1. card'.terms = TermsOf(r) /\ TermsOf(r) \in KnownTerms
  BY DEF RequestApproval, OpenOffer, KnownInv
<1>2. UNCHANGED <<offers, approvals, caps>>
  BY DEF RequestApproval
<1> QED
  BY <1>1, <1>2 DEF KnownInv, TermsOf

LEMMA OffersKnown ==
    ASSUME TypeOK, KnownInv, UNCHANGED <<card, approvals, caps>>,
           \A r \in Refs : offers'[r].rev > 0 =>
               \/ TermsOf(r)' = TermsOf(r) /\ offers[r].rev > 0
               \/ TermsOf(r)' \in KnownTerms
    PROVE  KnownInv'
BY DEF KnownInv

LEMMA ReadbackKnown ==
    ASSUME TypeOK, KnownInv, Readback, UNCHANGED <<card, approvals, caps>>
    PROVE  KnownInv'
<1>1. ASSUME NEW r \in Refs PROVE offers'[r].rev = offers[r].rev /\ TermsOf(r)' = TermsOf(r)
  <2>1. offers[r] \in Offer
    BY DEF TypeOK
  <2>2. offers'[r] = offers[r] \/ offers'[r] = [offers[r] EXCEPT !.bound = offers[r].complete]
    BY DEF Readback
  <2>3. /\ offers'[r].rev = offers[r].rev /\ offers'[r].price = offers[r].price
        /\ offers'[r].change = offers[r].change
    BY <2>1, <2>2 DEF Offer
  <2> QED
    BY <2>3 DEF TermsOf
<1> QED
  BY <1>1, OffersKnown

LEMMA OfferToolKnown ==
    ASSUME TypeOK, KnownInv, NEW r \in Refs, RecordOffer(r) \/ DeclineOffer(r)
    PROVE  KnownInv'
<1>1. UNCHANGED <<card, approvals, caps>>
  BY DEF RecordOffer, DeclineOffer, userVars
<1>2. offers \in [Refs -> Offer]
  BY DEF TypeOK
<1>3. CASE RecordOffer(r)
  <2>1. PICK p \in Prices, ch \in Changes, whole \in BOOLEAN,
             e \in {now + d : d \in Lives} \cup {Never} :
          offers' = [offers EXCEPT ![r] =
            [rev |-> offers[r].rev + 1, price |-> p, change |-> ch,
             complete |-> whole, status |-> "open", bound |-> FALSE,
             expires |-> e]]
    BY <1>3 DEF RecordOffer
  <2>2. offers[r].rev + 1 \in 1..MaxRev
    BY <1>2, <1>3, BoundsAssumption DEF RecordOffer, Offer, BoundsAssumption
  <2>3. TermsOf(r)' = [ref |-> r, rev |-> offers[r].rev + 1, price |-> p, change |-> ch]
    BY <1>2, <2>1 DEF TermsOf
  <2>4. TermsOf(r)' \in KnownTerms
    BY <2>2, <2>3 DEF KnownTerms
  <2>5. \A s \in Refs : s # r => offers'[s] = offers[s] /\ TermsOf(s)' = TermsOf(s)
    BY <1>2, <2>1 DEF TermsOf
  <2> QED
    BY <1>1, <2>4, <2>5, OffersKnown
<1>4. CASE DeclineOffer(r)
  <2>1. offers' = [offers EXCEPT ![r].status = "declined"]
    BY <1>4 DEF DeclineOffer
  <2>2. ASSUME NEW s \in Refs PROVE offers'[s].rev = offers[s].rev /\ TermsOf(s)' = TermsOf(s)
    <3>1. offers[s] \in Offer
      BY <1>2
    <3>2. offers'[s] = offers[s] \/ offers'[s] = [offers[s] EXCEPT !.status = "declined"]
      BY <1>2, <2>1
    <3>3. /\ offers'[s].rev = offers[s].rev /\ offers'[s].price = offers[s].price
          /\ offers'[s].change = offers[s].change
      BY <3>1, <3>2 DEF Offer
    <3> QED
      BY <3>3 DEF TermsOf
  <2> QED
    BY <1>1, <2>2, OffersKnown
<1> QED
  BY <1>3, <1>4

LEMMA LineKnown ==
    ASSUME TypeOK, KnownInv, Release \/ Revoked \/ \E r \in Refs : AcceptOffer(r)
    PROVE  KnownInv'
<1>1. UNCHANGED <<offers, card, approvals>>
  BY DEF Release, Revoked, AcceptOffer, userVars
<1>2. \A c \in caps' : c.terms \in KnownTerms
  <2>1. CASE Release
    <3>1. PICK c \in InFlight : caps' = (caps \ {c}) \cup {[c EXCEPT !.consumed = TRUE]}
      BY <2>1 DEF Release
    <3>2. c \in caps /\ c \in Capability
      BY DEF InFlight, TypeOK
    <3>3. [c EXCEPT !.consumed = TRUE].terms = c.terms
      BY <3>2 DEF Capability
    <3> QED
      BY <3>1, <3>2, <3>3 DEF KnownInv
  <2>2. CASE Revoked
    BY <2>2 DEF Revoked, KnownInv
  <2>3. ASSUME NEW r \in Refs, AcceptOffer(r) PROVE \A c \in caps' : c.terms \in KnownTerms
    <3>1. PICK g : caps' = caps \cup {Minted(r, g)}
      BY <2>3, MintedAccept
    <3>2. Minted(r, g).terms = TermsOf(r)
      BY DEF Minted
    <3>3. TermsOf(r) \in KnownTerms
      BY <2>3 DEF AcceptOffer, MayAccept, OpenOffer, KnownInv
    <3> QED
      BY <3>1, <3>2, <3>3 DEF KnownInv
  <2> QED
    BY <2>1, <2>2, <2>3
<1> QED
  BY <1>1, <1>2 DEF KnownInv, TermsOf

LEMMA KnownNext ==
    ASSUME TypeOK, KnownInv, [Next]_vars
    PROVE  KnownInv'
<1>1. CASE StepStarted \/ Act
  BY <1>1, ReadbackKnown DEF StepStarted, Act, userVars
<1>2. ASSUME NEW r \in Refs, RecordOffer(r) \/ DeclineOffer(r) \/ RequestApproval(r)
      PROVE  KnownInv'
  BY <1>2, OfferToolKnown, CardKnown
<1>3. CASE Release \/ Revoked \/ \E r \in Refs : AcceptOffer(r)
  BY <1>3, LineKnown
<1>4. CASE DecideCard
  <2>1. /\ card # None /\ card' = None /\ UNCHANGED <<offers, caps>>
        /\ approvals' = approvals \cup
             {[terms |-> card.terms, epoch |-> card.epoch, n |-> card.n,
               expires |-> card.expires, decision |-> Head(posts).decision]}
    BY <1>4 DEF DecideCard, MayDecideCard
  <2> QED
    BY <2>1 DEF KnownInv, TermsOf
<1>5. CASE FinishCompleted \/ FinishNoDeal \/ FinishInfoOnly \/ FinishEscalate
  <2>1. ASSUME NEW t, NEW v, Finish(t, v) PROVE UNCHANGED <<offers, card, approvals, caps>>
    BY <2>1 DEF Finish, userVars
  <2>2. UNCHANGED <<offers, card, approvals, caps>>
    BY <1>5, <2>1 DEF FinishCompleted, FinishNoDeal, FinishInfoOnly, FinishEscalate
  <2> QED
    BY <2>2 DEF KnownInv, TermsOf
<1>6. CASE \/ StepCompleted \/ UserPosts \/ RefusePost \/ DecideMandate \/ CardExpires
           \/ CallOpened \/ UserMsg \/ RepLine \/ FastRevoke \/ CallClosed \/ HangUp
           \/ SessionEnds \/ FenceWait \/ Delivered \/ Tick \/ UNCHANGED vars
           \/ ProposeMandate \/ TightenMandate \/ Revoke
           \/ \E conf \in Confs : CheckAccount(conf)
  <2>1. UNCHANGED <<offers, card, approvals, caps>>
    BY <1>6 DEF StepCompleted, UserPosts, RefusePost, DecideMandate, CardExpires,
       CallOpened, UserMsg, RepLine, FastRevoke, CallClosed, HangUp, SessionEnds,
       FenceWait, Delivered, Tick, vars, ProposeMandate, TightenMandate, Revoke,
       CheckAccount, userVars
  <2> QED
    BY <2>1 DEF KnownInv, TermsOf
<1> QED
  BY <1>1, <1>2, <1>3, <1>4, <1>5, <1>6 DEF Next, SlowTool

LEMMA DecisionNext ==
    ASSUME TypeOK, DecisionInv, [Next]_vars
    PROVE  DecisionInv'
<1>1. epoch \in Nat /\ (\A m \in consents : m.epoch \in Nat) /\ \A a \in approvals : a.epoch \in Nat
  BY DEF TypeOK, Mandate, Approval
<1>2. CASE Quiet /\ Proposes
  BY <1>2 DEF Quiet, Proposes, DecisionInv
<1>3. CASE Bumps /\ Proposes
  BY <1>1, <1>3 DEF Bumps, Proposes, DecisionInv
<1>4. CASE Tick \/ Release \/ Revoked \/ \E r \in Refs : AcceptOffer(r)
  <2>1. UNCHANGED <<epoch, approvals, consents, mandate>>
    BY <1>4 DEF Tick, Release, Revoked, AcceptOffer, userVars
  <2> QED
    BY <2>1 DEF DecisionInv
<1>5. CASE DecideCard
  <2> DEFINE a == [terms |-> card.terms, epoch |-> card.epoch, n |-> card.n,
                   expires |-> card.expires, decision |-> Head(posts).decision]
  <2>1. UNCHANGED <<epoch, consents, mandate>> /\ approvals' = approvals \cup {a}
    BY <1>5 DEF DecideCard
  <2>2. a.epoch = epoch
    BY <1>5 DEF DecideCard, MayDecideCard
  <2> HIDE DEF a
  <2> QED
    BY <1>1, <2>1, <2>2 DEF DecisionInv
<1>6. CASE DecideMandate
  <2>1. /\ epoch' = epoch + 1 /\ approvals' = approvals
        /\ consents' \in {consents, consents \cup {mandate'}}
        /\ Head(posts).decision = "granted" => mandate' \in consents'
    BY <1>6 DEF DecideMandate
  <2>2. mandate \in Mandate
    BY <1>6 DEF DecideMandate, MayDecideMandate, TypeOK
  <2>3. mandate'.status = Head(posts).decision /\ mandate'.epoch = epoch + 1
    BY <1>6, <2>2 DEF DecideMandate, Mandate
  <2>4. IsFiniteSet(consents')
    BY <2>1, FS_AddElement DEF DecisionInv
  <2>5. \A m \in consents' : m.epoch <= epoch'
    BY <1>1, <2>1, <2>3 DEF DecisionInv
  <2>6. \A a \in approvals' : a.epoch <= epoch'
    BY <1>1, <2>1 DEF DecisionInv
  <2> QED
    BY <2>1, <2>3, <2>4, <2>5, <2>6 DEF DecisionInv
<1> QED
  BY <1>2, <1>3, <1>4, <1>5, <1>6, StepKinds

(* A mint is backed by the grant it was checked against: the mandate, with *)
(* no accept out, or an approval that was not denied.                      *)
LEMMA MintBacked ==
    ASSUME TypeOK, KnownInv, DecisionInv, NEW r \in Refs, NEW g \in Grants(TermsOf(r))
    PROVE  Backed(Minted(r, g))
<1> DEFINE t == TermsOf(r)
<1>1. Minted(r, g).terms = t
  BY DEF Minted
<1>2. CASE MandateCovers(t) /\ Consumed = {}
  <2>1. mandate \in consents /\ mandate.epoch = epoch /\ t.price <= mandate.max
    BY <1>2 DEF MandateCovers, DecisionInv
  <2> HIDE DEF t
  <2> QED
    BY <1>1, <1>2, <2>1 DEF Backed
<1>3. CASE ~(MandateCovers(t) /\ Consumed = {})
  <2>1. PICK a \in Live(t) : g = [by |-> [kind |-> "approval", epoch |-> a.epoch, n |-> a.n],
                                 expires |-> a.expires]
    BY <1>3 DEF Grants
  <2>2. a \in approvals /\ a.terms = t /\ a.epoch = epoch /\ a \in ThisEpoch(t)
    BY DEF Live, ThisEpoch
  <2>3. a.decision = "granted"
    <3>1. ~Denied(t)
      BY DEF Grants
    <3>2. a.decision \in {"granted", "denied"}
      BY <2>2 DEF TypeOK, Approval
    <3> QED
      BY <2>2, <3>1, <3>2 DEF Denied
  <2>4. a.expires \in Nat /\ offers[r].expires \in Nat /\ now + CAP_TTL \in Nat
    BY <2>2, BoundsType DEF TypeOK, Approval, Offer
  <2>5. Minted(r, g).expires = Min2(Min2(a.expires, offers[r].expires), now + CAP_TTL)
    BY <2>1 DEF Minted
  <2>6. Minted(r, g).expires <= a.expires
    BY <2>4, <2>5 DEF Min2
  <2> HIDE DEF t
  <2> QED
    BY <1>1, <2>2, <2>3, <2>6 DEF Backed, GrantedApprovals
<1> QED
  BY <1>2, <1>3

(* Decisions that are added, and a clock that moves, back what was backed. *)
LEMMA BackedStays ==
    ASSUME BackedInv, epoch' = epoch, approvals \subseteq approvals',
           consents \subseteq consents', Consumed' = Consumed, InFlight' \subseteq InFlight
    PROVE  BackedInv'
BY DEF BackedInv, Backed, GrantedApprovals

LEMMA BackedNext ==
    ASSUME TypeOK, CommitInv, ConsentInv, [Next]_vars
    PROVE  BackedInv'
<1> USE DEF ConsentInv
<1>1. CASE Quiet \/ Tick
  <2>1. UNCHANGED <<epoch, approvals, consents, caps>>
    BY <1>1 DEF Quiet, Tick, userVars
  <2> QED
    BY <2>1, BackedStays DEF Consumed, InFlight
<1>2. CASE Bumps \/ DecideMandate
  <2>1. epoch' = epoch + 1 /\ caps' = caps
    BY <1>2 DEF Bumps, DecideMandate
  <2>2. epoch \in Nat /\ \A c \in caps : c.epoch \in Nat
    BY DEF TypeOK, Capability
  <2>3. InFlight' = InFlight /\ InFlight \subseteq caps
    BY <2>1 DEF InFlight
  <2>4. \A c \in InFlight : c.epoch <= epoch
    BY DEF BackedInv
  <2>5. \A c \in InFlight : c.epoch <= epoch' /\ c.epoch # epoch'
    BY <2>1, <2>2, <2>3, <2>4
  <2> QED
    BY <2>3, <2>5 DEF BackedInv
<1>3. CASE DecideCard
  <2>1. UNCHANGED <<epoch, consents, caps>> /\ approvals \subseteq approvals'
    BY <1>3 DEF DecideCard
  <2> QED
    BY <2>1, BackedStays DEF Consumed, InFlight
<1>4. CASE Release
  <2>1. PICK c \in InFlight : caps' = (caps \ {c}) \cup {[c EXCEPT !.consumed = TRUE]}
    BY <1>4 DEF Release
  <2>2. InFlight = {c} /\ c \in Capability
    BY <1>4, OnFloorState DEF Release, TypeOK
  <2>3. [c EXCEPT !.consumed = TRUE].consumed
    BY <2>2 DEF Capability
  <2>4. InFlight' = {}
    BY <2>1, <2>2, <2>3 DEF InFlight
  <2> QED
    BY <2>4 DEF BackedInv
<1>5. CASE Revoked
  <2>1. PICK c \in InFlight : caps' = caps \ {c}
    BY <1>5 DEF Revoked
  <2>2. UNCHANGED <<epoch, approvals, consents>>
    BY <1>5 DEF Revoked, userVars
  <2>3. Consumed' = Consumed /\ InFlight' \subseteq InFlight
    BY <2>1 DEF Consumed, InFlight
  <2> QED
    BY <2>2, <2>3, BackedStays
<1>6. ASSUME NEW r \in Refs, AcceptOffer(r) PROVE BackedInv'
  <2>1. PICK g \in Grants(TermsOf(r)) : MayAccept(r, g) /\ caps' = caps \cup {Minted(r, g)}
    BY <1>6, MintedAccept
  <2>2. Backed(Minted(r, g)) /\ Minted(r, g).epoch = epoch /\ ~Minted(r, g).consumed
    BY MintBacked DEF Minted
  <2>3. UNCHANGED <<epoch, approvals, consents>>
    BY <1>6 DEF AcceptOffer, userVars
  <2> DEFINE new == Minted(r, g)
  <2>4. caps' = caps \cup {new} /\ Backed(new) /\ new.epoch = epoch /\ ~new.consumed
    BY <2>1, <2>2
  <2>5. InFlight = {}
    BY <2>1 DEF MayAccept
  <2> HIDE DEF new
  <2>6. InFlight' = {new} /\ Consumed' = Consumed
    BY <2>4, <2>5 DEF InFlight, Consumed
  <2>7. epoch <= epoch
    BY DEF TypeOK
  <2> QED
    BY <2>3, <2>4, <2>6, <2>7 DEF BackedInv, Backed, GrantedApprovals
<1> QED
  BY <1>1, <1>2, <1>3, <1>4, <1>5, <1>6, StepKinds

LEMMA ConsentInit == Init => ConsentInv
<1> SUFFICES ASSUME Init PROVE ConsentInv
  OBVIOUS
<1>1. IsFiniteSet(consents)
  BY FS_EmptySet DEF Init
<1> QED
  BY <1>1 DEF Init, ConsentInv, KnownInv, DecisionInv, BackedInv, InFlight

LEMMA ConsentInvariant == Spec => [](TypeOK /\ CommitInv /\ ConsentInv)
<1>1. Init => TypeOK /\ CommitInv /\ ConsentInv
  BY AuthorityTypeInit, CommitInit, ConsentInit
<1>2. TypeOK /\ CommitInv /\ ConsentInv /\ [Next]_vars => (TypeOK /\ CommitInv /\ ConsentInv)'
  <2> SUFFICES ASSUME TypeOK, CommitInv, ConsentInv, [Next]_vars
               PROVE  (TypeOK /\ CommitInv /\ ConsentInv)'
    OBVIOUS
  <2>1. TypeOK' /\ CommitInv'
    BY AuthorityTypeNext, CommitNext DEF TypeOK
  <2>2. ConsentInv'
    BY KnownNext, DecisionNext, BackedNext DEF ConsentInv
  <2> QED
    BY <2>1, <2>2
<1> QED
  BY <1>1, <1>2, PTL DEF Spec

-----------------------------------------------------------------------------
(* The refinement. *)

decisionsMade == Cardinality(GrantedApprovals) + Cardinality(consents)

Allowed == <<decisionsMade, approvedTerms, coveredTerms>>

LEMMA AllowedKnown ==
    ASSUME KnownInv PROVE approvedTerms \subseteq KnownTerms /\ coveredTerms \subseteq KnownTerms
BY DEF KnownInv, approvedTerms, coveredTerms, GrantedApprovals

LEMMA CommittedStays ==
    ASSUME Consumed' = Consumed PROVE committedTerms' = committedTerms
BY DEF committedTerms

LEMMA AllowedStays ==
    ASSUME UNCHANGED <<epoch, now, consents>>, GrantedApprovals' = GrantedApprovals
    PROVE  Allowed' = Allowed
<1>1. approvedTerms' = approvedTerms
  BY DEF approvedTerms
<1>2. coveredTerms' = coveredTerms
  BY DEF coveredTerms
<1> QED
  BY <1>1, <1>2 DEF Allowed, decisionsMade

(* A newer epoch: all that was allowed lapses. *)
LEMMA BumpLapses ==
    ASSUME TypeOK, DecisionInv, epoch' = epoch + 1, UNCHANGED <<approvals, now>>
    PROVE  /\ GrantedApprovals' = GrantedApprovals /\ approvedTerms' = {}
           /\ consents' = consents => coveredTerms' = {}
<1>1. epoch \in Nat /\ (\A m \in consents : m.epoch \in Nat) /\ \A a \in approvals : a.epoch \in Nat
  BY DEF TypeOK, Mandate, Approval
<1>2. \A a \in approvals : a.epoch # epoch'
  BY <1>1 DEF DecisionInv
<1>3. \A m \in consents : m.epoch # epoch'
  BY <1>1 DEF DecisionInv
<1>4. GrantedApprovals' = GrantedApprovals
  BY DEF GrantedApprovals
<1> QED
  BY <1>2, <1>3, <1>4 DEF approvedTerms, coveredTerms, GrantedApprovals

LEMMA DecisionsFinite ==
    ASSUME TypeOK, DecisionInv
    PROVE  IsFiniteSet(GrantedApprovals) /\ IsFiniteSet(consents)
BY FS_Subset DEF GrantedApprovals, TypeOK, DecisionInv

(* A card granted is a decision that was not made before. *)
LEMMA CardDecision ==
    ASSUME TypeOK, DecideCard
    PROVE  \/ GrantedApprovals' = GrantedApprovals
           \/ Cardinality(GrantedApprovals') = Cardinality(GrantedApprovals) + 1
<1> DEFINE a == [terms |-> card.terms, epoch |-> card.epoch, n |-> card.n,
                 expires |-> card.expires, decision |-> Head(posts).decision]
<1>1. approvals' = approvals \cup {a} /\ MayDecideCard(Head(posts))
  BY DEF DecideCard
<1>2. a \notin approvals
  BY <1>1 DEF MayDecideCard, SameId
<1>3. IsFiniteSet(GrantedApprovals)
  BY FS_Subset DEF GrantedApprovals, TypeOK
<1> HIDE DEF a
<1>4. CASE a.decision = "granted"
  <2>1. GrantedApprovals' = GrantedApprovals \cup {a} /\ a \notin GrantedApprovals
    BY <1>1, <1>2, <1>4 DEF GrantedApprovals
  <2> QED
    BY <1>3, <2>1, FS_AddElement
<1>5. CASE a.decision # "granted"
  BY <1>1, <1>5 DEF GrantedApprovals
<1> QED
  BY <1>4, <1>5

(* So is a mandate granted, for it carries the new epoch. *)
LEMMA MandateDecision ==
    ASSUME TypeOK, DecisionInv, DecideMandate
    PROVE  \/ consents' = consents
           \/ Cardinality(consents') = Cardinality(consents) + 1
<1>1. consents' \in {consents, consents \cup {mandate'}} /\ epoch' = epoch + 1
  BY DEF DecideMandate
<1>2. mandate \in Mandate
  BY DEF DecideMandate, MayDecideMandate, TypeOK
<1>3. mandate'.epoch = epoch + 1
  BY <1>2 DEF DecideMandate, Mandate
<1>4. mandate' \notin consents
  <2>1. \A m \in consents : m.epoch <= epoch /\ m.epoch \in Nat
    BY DEF DecisionInv, TypeOK, Mandate
  <2> QED
    BY <1>3, <2>1 DEF TypeOK
<1> QED
  BY <1>1, <1>4, FS_AddElement DEF DecisionInv

(* A release commits to terms that are allowed and new: its capability is  *)
(* of this epoch, backed, and expires after now.                           *)
LEMMA ReleaseCommits ==
    ASSUME TypeOK, CommitInv, ConsentInv, Release
    PROVE  \E t \in KnownTerms :
              /\ t \notin committedTerms
              /\ t \in approvedTerms \/ (t \in coveredTerms /\ committedTerms = {})
              /\ committedTerms' = committedTerms \cup {t}
<1>1. PICK c \in InFlight : /\ Verdict(c) = "ok"
                            /\ caps' = (caps \ {c}) \cup {[c EXCEPT !.consumed = TRUE]}
  BY DEF Release
<1>2. c \in caps /\ ~c.consumed /\ c \in Capability /\ c.terms \in KnownTerms /\ InFlight = {c}
  BY OnFloorState DEF Release, TypeOK, ConsentInv, KnownInv
<1>3. c.epoch = epoch /\ ~(Min2(c.expires, offers[c.terms.ref].expires) <= now + Speech)
  <2>1. Revalidate(c, now + Speech) \in {"ok", "fence"}
    BY <1>1 DEF Verdict
  <2>2. Revalidate(c, now + Speech) # "fence"
    BY <1>1 DEF Verdict
  <2>3. Revalidate(c, now + Speech) = "ok"
    BY <2>1, <2>2
  <2> QED
    BY <2>3 DEF Revalidate
<1>4. c.expires > now
  <2>1. c.terms.ref \in Refs
    BY <1>2 DEF KnownTerms
  <2>2. c.expires \in Nat /\ offers[c.terms.ref].expires \in Nat /\ now \in Nat
    BY <1>2, <2>1 DEF TypeOK, Offer, Capability
  <2>3. Speech \in Nat
    BY BoundsAssumption DEF BoundsAssumption
  <2> QED
    BY <1>3, <2>2, <2>3 DEF Min2
<1>5. c.terms \in approvedTerms \/ (c.terms \in coveredTerms /\ committedTerms = {})
  <2>1. Backed(c)
    BY <1>3 DEF ConsentInv, BackedInv
  <2>2. CASE \E a \in GrantedApprovals :
                a.terms = c.terms /\ a.epoch = epoch /\ c.expires <= a.expires
    <3>1. PICK a \in GrantedApprovals :
                a.terms = c.terms /\ a.epoch = epoch /\ c.expires <= a.expires
      BY <2>2
    <3>2. a.expires \in Nat /\ c.expires \in Nat /\ now \in Nat
      BY <1>2 DEF GrantedApprovals, TypeOK, Approval, Capability
    <3>3. a.expires > now
      BY <1>4, <3>1, <3>2
    <3> QED
      BY <3>1, <3>3 DEF approvedTerms
  <2>3. CASE Consumed = {} /\ \E m \in consents : m.epoch = epoch /\ c.terms.price <= m.max
    BY <1>2, <2>3 DEF coveredTerms, committedTerms
  <2> QED
    BY <2>1, <2>2, <2>3 DEF Backed
<1>6. c.terms \notin committedTerms
  BY <1>2 DEF committedTerms, Consumed, CommitInv, AcceptOnce
<1>7. committedTerms' = committedTerms \cup {c.terms}
  <2> DEFINE out == [c EXCEPT !.consumed = TRUE]
  <2>1. out.consumed /\ out.terms = c.terms
    BY <1>2 DEF Capability
  <2>2. caps' = (caps \ {c}) \cup {out}
    BY <1>1
  <2> HIDE DEF out
  <2>3. Consumed' = Consumed \cup {out}
    BY <1>2, <2>1, <2>2 DEF Consumed
  <2> QED
    BY <2>1, <2>3 DEF committedTerms
<1> QED
  BY <1>2, <1>5, <1>6, <1>7

(* Every step is one of Consent's, or leaves what it speaks of alone.      *)
LEMMA ConsentStep ==
    ASSUME TypeOK, CommitInv, ConsentInv, [Next]_vars
    PROVE  [C!Next]_(C!vars)
<1>1. approvedTerms \subseteq KnownTerms /\ coveredTerms \subseteq KnownTerms
  BY AllowedKnown DEF ConsentInv
<1>2. KnownInv'
  BY KnownNext DEF ConsentInv
<1>3. approvedTerms' \subseteq KnownTerms /\ coveredTerms' \subseteq KnownTerms
  BY <1>2 DEF KnownInv, approvedTerms, coveredTerms, GrantedApprovals
<1>4. ASSUME Allowed' = Allowed, committedTerms' = committedTerms PROVE UNCHANGED C!vars
  BY <1>4 DEF Allowed, decisionsMade, C!vars
<1>5. ASSUME decisionsMade' = decisionsMade, committedTerms' = committedTerms,
             approvedTerms' \subseteq approvedTerms, coveredTerms' \subseteq coveredTerms
      PROVE  C!Lapse
  BY <1>5 DEF C!Lapse, decisionsMade
<1>6. ASSUME decisionsMade' = decisionsMade + 1, committedTerms' = committedTerms
      PROVE  C!Decide
  BY <1>3, <1>6 DEF C!Decide, decisionsMade
<1>7. CASE Quiet \/ Revoked \/ \E r \in Refs : AcceptOffer(r)
  <2>1. UNCHANGED <<epoch, now, approvals, consents>>
    BY <1>7 DEF Quiet, Revoked, AcceptOffer, userVars
  <2>2. Consumed' = Consumed
    <3>1. CASE Quiet
      BY <3>1 DEF Quiet, Consumed
    <3>2. CASE Revoked
      BY <3>2 DEF Revoked, InFlight, Consumed
    <3>3. ASSUME NEW r \in Refs, AcceptOffer(r) PROVE Consumed' = Consumed
      <4>1. PICK g : caps' = caps \cup {Minted(r, g)}
        BY <3>3, MintedAccept
      <4>2. ~Minted(r, g).consumed
        BY DEF Minted
      <4> QED
        BY <4>1, <4>2 DEF Consumed
    <3> QED
      BY <1>7, <3>1, <3>2, <3>3
  <2>3. GrantedApprovals' = GrantedApprovals
    BY <2>1 DEF GrantedApprovals
  <2> QED
    BY <1>4, <2>1, <2>2, <2>3, CommittedStays, AllowedStays
<1>8. CASE Bumps
  <2>1. epoch' = epoch + 1 /\ UNCHANGED <<approvals, now, consents>> /\ Consumed' = Consumed
    BY <1>8 DEF Bumps, Consumed
  <2>2. GrantedApprovals' = GrantedApprovals /\ approvedTerms' = {} /\ coveredTerms' = {}
    BY <2>1, BumpLapses DEF ConsentInv
  <2> QED
    BY <1>5, <2>1, <2>2, CommittedStays DEF decisionsMade, C!Next
<1>9. CASE Tick
  <2>1. UNCHANGED <<epoch, approvals, consents, caps>> /\ now' = now + 1 /\ now \in Nat
    BY <1>9 DEF Tick, userVars, TypeOK
  <2>2. /\ Consumed' = Consumed /\ GrantedApprovals' = GrantedApprovals
        /\ coveredTerms' = coveredTerms
    BY <2>1 DEF Consumed, GrantedApprovals, coveredTerms
  <2>3. approvedTerms' \subseteq approvedTerms
    <3>1. \A a \in GrantedApprovals : a.expires \in Nat
      BY DEF GrantedApprovals, TypeOK, Approval
    <3>2. \A a \in GrantedApprovals : a.expires > now' => a.expires > now
      BY <2>1, <3>1
    <3> QED
      BY <2>1, <2>2, <3>2 DEF approvedTerms
  <2> QED
    BY <1>5, <2>1, <2>2, <2>3, CommittedStays DEF decisionsMade, C!Next
<1>10. CASE DecideCard
  <2>1. UNCHANGED <<epoch, now, consents>> /\ Consumed' = Consumed
    BY <1>10 DEF DecideCard, Consumed
  <2>2. CASE GrantedApprovals' = GrantedApprovals
    BY <1>4, <2>1, <2>2, CommittedStays, AllowedStays
  <2>3. CASE Cardinality(GrantedApprovals') = Cardinality(GrantedApprovals) + 1
    <3>1. Cardinality(GrantedApprovals) \in Nat /\ Cardinality(consents) \in Nat
      BY DecisionsFinite, FS_CardinalityType DEF ConsentInv
    <3>2. Cardinality(GrantedApprovals)' = Cardinality(GrantedApprovals) + 1
      BY <2>3
    <3>3. Cardinality(consents)' = Cardinality(consents)
      BY <2>1
    <3>4. decisionsMade' = decisionsMade + 1
      BY <3>1, <3>2, <3>3 DEF decisionsMade
    <3> QED
      BY <1>6, <2>1, <3>4, CommittedStays DEF C!Next
  <2> QED
    BY <1>10, <2>2, <2>3, CardDecision
<1>11. CASE DecideMandate
  <2>1. epoch' = epoch + 1 /\ UNCHANGED <<approvals, now>> /\ Consumed' = Consumed
    BY <1>11 DEF DecideMandate, Consumed
  <2>2. GrantedApprovals' = GrantedApprovals /\ approvedTerms' = {}
    BY <2>1, BumpLapses DEF ConsentInv
  <2>3. CASE consents' = consents
    <3>1. coveredTerms' = {}
      BY <2>1, <2>3, BumpLapses DEF ConsentInv
    <3> QED
      BY <1>5, <2>1, <2>2, <2>3, <3>1, CommittedStays DEF decisionsMade, C!Next
  <2>4. CASE Cardinality(consents') = Cardinality(consents) + 1
    <3>1. Cardinality(GrantedApprovals) \in Nat /\ Cardinality(consents) \in Nat
      BY DecisionsFinite, FS_CardinalityType DEF ConsentInv
    <3>2. Cardinality(GrantedApprovals)' = Cardinality(GrantedApprovals)
      BY <2>2
    <3>3. Cardinality(consents)' = Cardinality(consents) + 1
      BY <2>4
    <3>4. decisionsMade' = decisionsMade + 1
      BY <3>1, <3>2, <3>3 DEF decisionsMade
    <3> QED
      BY <1>6, <2>1, <3>4, CommittedStays DEF C!Next
  <2> QED
    BY <1>11, <2>3, <2>4, MandateDecision DEF ConsentInv
<1>12. CASE Release
  <2>1. UNCHANGED <<epoch, now, approvals, consents>>
    BY <1>12 DEF Release, userVars
  <2>2. Allowed' = Allowed
    BY <2>1, AllowedStays DEF GrantedApprovals
  <2>3. PICK t \in KnownTerms :
          /\ t \notin committedTerms
          /\ t \in approvedTerms \/ (t \in coveredTerms /\ committedTerms = {})
          /\ committedTerms' = committedTerms \cup {t}
    BY <1>12, ReleaseCommits
  <2>4. C!Commit(t)
    BY <2>2, <2>3 DEF C!Commit, Allowed, decisionsMade
  <2> QED
    BY <2>4 DEF C!Next
<1> QED
  BY <1>7, <1>8, <1>9, <1>10, <1>11, <1>12, StepKinds

(* No accept goes out but by a decision of the user that still stands,     *)
(* whatever Slow, the rep, the clock and other decisions do between the    *)
(* grant and the floor, and whatever is retried (I6; guard/authorize.py,   *)
(* capability.py, kernel/speaker.py).                                      *)
THEOREM AuthorityImplementsConsent == Spec => ImplementsConsent
<1>1. Init => C!Init
  <2> SUFFICES ASSUME Init PROVE C!Init
    OBVIOUS
  <2>1. approvals = {} /\ consents = {} /\ caps = {}
    BY DEF Init
  <2>2. GrantedApprovals = {} /\ Consumed = {}
    BY <2>1 DEF GrantedApprovals, Consumed
  <2>3. Cardinality(GrantedApprovals) = 0 /\ Cardinality(consents) = 0
    BY <2>1, <2>2, FS_EmptySet
  <2>4. approvedTerms = {} /\ coveredTerms = {} /\ committedTerms = {}
    BY <2>1, <2>2 DEF approvedTerms, coveredTerms, committedTerms
  <2> QED
    BY <2>3, <2>4 DEF C!Init
<1>2. TypeOK /\ CommitInv /\ ConsentInv /\ [Next]_vars => [C!Next]_(C!vars)
  BY ConsentStep
<1> QED
  BY <1>1, <1>2, ConsentInvariant, PTL DEF Spec, ImplementsConsent, C!Spec

-----------------------------------------------------------------------------
(* The hints of the status bar. *)

(* A nonempty set of numbers has a least one. *)
LEMMA Least == ASSUME NEW T, T \subseteq Nat, T # {} PROVE \E x \in T : \A y \in T : x <= y
<1> DEFINE R == OpToRel(<, Nat)
<1>1. IsWellFoundedOn(R, Nat)
  BY NatLessThanWellFounded
<1>2. \E x \in T : \A y \in T : ~(<<y, x>> \in R)
  BY <1>1, WFMin
<1>3. \A x, y \in Nat : x < y => <<x, y>> \in R
  BY DEF OpToRel
<1> HIDE DEF R
<1>4. PICK x \in T : \A y \in T : ~(<<y, x>> \in R)
  BY <1>2
<1>5. ASSUME NEW y \in T PROVE x <= y
  <2>1. x \in Nat /\ y \in Nat
    OBVIOUS
  <2>2. ~(y < x)
    BY <1>3, <1>4, <2>1
  <2> QED
    BY <2>1, <2>2
<1> QED
  BY <1>5

(* Terms are bound only once they are complete. *)
WholeInv == \A r \in Refs : offers[r].bound => offers[r].complete

HintInv == TypeOK /\ CommitInv /\ KnownInv /\ WholeInv

LEMMA WholeNext ==
    ASSUME TypeOK, WholeInv, [Next]_vars
    PROVE  WholeInv'
<1>0. offers \in [Refs -> Offer]
  BY DEF TypeOK
<1>1. CASE StepStarted \/ Act
  <2>1. Readback
    BY <1>1 DEF StepStarted, Act
  <2>2. ASSUME NEW r \in Refs PROVE offers'[r].bound => offers'[r].complete
    <3>1. offers[r] \in Offer
      BY <1>0
    <3>2. offers'[r] = offers[r] \/ offers'[r] = [offers[r] EXCEPT !.bound = offers[r].complete]
      BY <2>1 DEF Readback
    <3>3. CASE offers'[r] = offers[r]
      BY <3>3 DEF WholeInv
    <3>4. CASE offers'[r] = [offers[r] EXCEPT !.bound = offers[r].complete]
      BY <3>1, <3>4 DEF Offer
    <3> QED
      BY <3>2, <3>3, <3>4
  <2> QED
    BY <2>2 DEF WholeInv
<1>2. ASSUME NEW r \in Refs, RecordOffer(r) PROVE WholeInv'
  <2>1. PICK p \in Prices, ch \in Changes, whole \in BOOLEAN,
             e \in {now + d : d \in Lives} \cup {Never} :
          offers' = [offers EXCEPT ![r] =
            [rev |-> offers[r].rev + 1, price |-> p, change |-> ch,
             complete |-> whole, status |-> "open", bound |-> FALSE,
             expires |-> e]]
    BY <1>2 DEF RecordOffer
  <2>2. ASSUME NEW s \in Refs PROVE offers'[s].bound => offers'[s].complete
    BY <1>0, <2>1 DEF WholeInv
  <2> QED
    BY <2>2 DEF WholeInv
<1>3. ASSUME NEW r \in Refs, DeclineOffer(r) PROVE WholeInv'
  <2>1. offers' = [offers EXCEPT ![r].status = "declined"]
    BY <1>3 DEF DeclineOffer
  <2>2. ASSUME NEW s \in Refs PROVE offers'[s].bound => offers'[s].complete
    <3>1. offers[s] \in Offer
      BY <1>0
    <3>2. offers'[s] = offers[s] \/ offers'[s] = [offers[s] EXCEPT !.status = "declined"]
      BY <1>0, <2>1
    <3>3. CASE offers'[s] = offers[s]
      BY <3>3 DEF WholeInv
    <3>4. CASE offers'[s] = [offers[s] EXCEPT !.status = "declined"]
      BY <3>1, <3>4 DEF Offer, WholeInv
    <3> QED
      BY <3>2, <3>3, <3>4
  <2> QED
    BY <2>2 DEF WholeInv
<1>4. CASE \/ StepCompleted \/ UserPosts \/ RefusePost \/ DecideCard \/ DecideMandate
           \/ CardExpires \/ CallOpened \/ UserMsg \/ RepLine \/ FastRevoke \/ CallClosed
           \/ HangUp \/ SessionEnds \/ FenceWait \/ Release \/ Revoked \/ Delivered
           \/ Tick \/ UNCHANGED vars \/ ProposeMandate \/ TightenMandate \/ Revoke
           \/ \E conf \in Confs : CheckAccount(conf)
           \/ \E r \in Refs : RequestApproval(r) \/ AcceptOffer(r)
  <2>1. UNCHANGED offers
    BY <1>4 DEF StepCompleted, UserPosts, RefusePost, DecideCard, DecideMandate,
       CardExpires, CallOpened, UserMsg, RepLine, FastRevoke, CallClosed, HangUp,
       SessionEnds, FenceWait, Release, Revoked, Delivered, Tick, vars, ProposeMandate,
       TightenMandate, Revoke, CheckAccount, RequestApproval, AcceptOffer
  <2> QED
    BY <2>1 DEF WholeInv
<1>5. CASE FinishCompleted \/ FinishNoDeal \/ FinishInfoOnly \/ FinishEscalate
  <2>1. ASSUME NEW t, NEW v, Finish(t, v) PROVE UNCHANGED offers
    BY <2>1 DEF Finish
  <2>2. UNCHANGED offers
    BY <1>5, <2>1 DEF FinishCompleted, FinishNoDeal, FinishInfoOnly, FinishEscalate
  <2> QED
    BY <2>2 DEF WholeInv
<1> QED
  BY <1>1, <1>2, <1>3, <1>4, <1>5 DEF Next, SlowTool

LEMMA HintInvariant == Spec => []HintInv
<1>1. Init => WholeInv
  BY DEF Init, WholeInv
<1>2. TypeOK /\ WholeInv /\ [Next]_vars => WholeInv'
  BY WholeNext
<1>3. ConsentInv => KnownInv
  BY DEF ConsentInv
<1> QED
  BY <1>1, <1>2, <1>3, ConsentInvariant, PTL DEF Spec, HintInv

-----------------------------------------------------------------------------
(* What a view shows of an offer. *)

LEMMA ShownOffer ==
    ASSUME HintInv, NEW r \in Shown
    PROVE  /\ r \in Refs /\ offers[r] \in Offer /\ offers[r].rev \in 1..MaxRev
           /\ TermsOf(r).price \in Nat
           /\ Term(r) \in Nat /\ Fees(r) \in Nat
           /\ offers[r].bound => offers[r].complete /\ TermsHash(r) = TermsOf(r)
<1>1. r \in Refs /\ offers[r] \in Offer /\ offers[r].rev > 0
  BY DEF Shown, HintInv, TypeOK
<1>2. TermsOf(r) \in KnownTerms
  BY <1>1 DEF HintInv, KnownInv
<1>3. offers[r].rev \in 1..MaxRev
  BY <1>1, <1>2 DEF KnownTerms, TermsOf
<1>4. TermsOf(r).price \in Nat
  BY <1>1 DEF TermsOf, Offer
<1>5. Rest[<<r, offers[r].rev>>] \in Nat \X Nat
  BY <1>1, <1>3, RestAssumption DEF RestAssumption
<1>6. offers[r].bound => offers[r].complete /\ TermsHash(r) = TermsOf(r)
  BY <1>1 DEF HintInv, WholeInv, TermsHash
<1> QED
  BY <1>1, <1>3, <1>4, <1>5, <1>6 DEF Term, Fees

LEMMA SeenOffer ==
    ASSUME HintInv, NEW v \in Views, NEW r \in Shown
    PROVE  /\ Seen(r, v).price \in Nat
           /\ offers[r].complete => Seen(r, v) = TermsOf(r) /\ Priced(r, v)
           /\ r \in v.sure => offers[r].bound
<1>1. TermsOf(r).price \in Nat
  BY ShownOffer
<1>2. Seen(r, v).price = IF "price" \in v.have[r] THEN TermsOf(r).price ELSE 0
  BY DEF Seen, TermsOf
<1>3. offers[r].complete => v.have[r] = Slots
  BY DEF Views
<1>4. v.have[r] = Slots => Seen(r, v) = TermsOf(r) /\ Priced(r, v)
  BY DEF Seen, TermsOf, Priced, Slots
<1>5. r \in v.sure => offers[r].bound
  BY DEF Views
<1> QED
  BY <1>1, <1>2, <1>3, <1>4, <1>5

(* A mandate covers terms or leaves them outside, never both. *)
LEMMA CoversOrOutside ==
    ASSUME TypeOK, NEW t, t.price \in Nat
    PROVE  /\ ~(MandateCovers(t) /\ Outside(t))
           /\ Outside(t) => /\ mandate # None /\ mandate.status = "granted"
                            /\ mandate.epoch = epoch
           /\ mandate # None /\ mandate.status = "granted" /\ mandate.epoch = epoch
                => MandateCovers(t) \/ Outside(t)
<1>1. mandate # None => mandate.max \in Nat
  BY DEF TypeOK, Mandate
<1> QED
  BY <1>1 DEF MandateCovers, Outside

-----------------------------------------------------------------------------
(* The steps and the Guard. *)

(* The dry run of an accept passes only where the Guard's rule does, as    *)
(* long as no accept went out: in IN_CALL none is in flight.               *)
LEMMA DryRunTrue ==
    ASSUME HintInv, NEW v \in Views, NEW r \in Shown, Consumed = {}, DryAccept(r, v)
    PROVE  Accepted(r)
<1> DEFINE t == TermsOf(r)
<1>1. status = "IN_CALL" /\ OpenOffer(r) /\ ~Denied(t)
  BY DEF DryAccept, Confirmed
<1>2. caps = {}
  <2>1. InFlight = {}
    BY <1>1 DEF HintInv, CommitInv, CommitTracksLine
  <2> QED
    BY <2>1 DEF InFlight, Consumed
<1>3. \E g : g \in Grants(t)
  <2>1. CASE MandateCovers(t)
    BY <1>1, <2>1 DEF Grants
  <2>2. CASE ~MandateCovers(t)
    <3>1. Live(t) # {}
      BY <2>2 DEF DryAccept
    <3>2. {a.n : a \in Live(t)} \subseteq Nat /\ {a.n : a \in Live(t)} # {}
      BY <3>1 DEF Live, ThisEpoch, HintInv, TypeOK, Approval
    <3>3. PICK n \in {a.n : a \in Live(t)} : \A m \in {a.n : a \in Live(t)} : n <= m
      BY <3>2, Least
    <3>4. PICK a \in Live(t) : a.n = n
      BY <3>3
    <3>5. \A y \in Live(t) : a.n <= y.n
      BY <3>3, <3>4
    <3> QED
      BY <1>1, <2>2, <3>5 DEF Grants
  <2> QED
    BY <2>1, <2>2
<1>4. PICK g : g \in Grants(t)
  BY <1>3
<1>5. MayAccept(r, g)
  BY <1>1, <1>2, <1>4 DEF MayAccept, ReleasedAccept, Consumed, InFlight
<1> QED
  BY <1>4, <1>5 DEF Accepted

LEMMA StepsPassAlways == ASSUME HintInv, NEW v \in Views PROVE StepsPass(v)
<1> SUFFICES ASSUME NEW r \in Shown
             PROVE  /\ Consumed = {} /\ NamesAccept(r, v) => Accepted(r)
                    /\ NamesApproval(r, v) => ~Accepted(r)
  BY DEF StepsPass
<1>1. ASSUME Consumed = {}, NamesAccept(r, v) PROVE Accepted(r)
  <2>1. DryAccept(r, v)
    BY <1>1 DEF NamesAccept, NamesAccepted, NamesBefore, Approved
  <2> QED
    BY <1>1, <2>1, DryRunTrue
<1>2. ASSUME NamesApproval(r, v) PROVE ~Accepted(r)
  <2>1. TermsHash(r) = TermsOf(r) /\ TermsOf(r).price \in Nat
    BY <1>2, ShownOffer DEF NamesApproval, MayAsk, Confirmed, OpenOffer
  <2>2. Live(TermsOf(r)) = {}
    BY <1>2, <2>1 DEF NamesApproval, Undecided, Live
  <2>3. ~MandateCovers(TermsOf(r))
    BY <1>2, <2>1, CoversOrOutside DEF NamesApproval, HintInv
  <2>4. Grants(TermsOf(r)) = {}
    BY <2>2, <2>3 DEF Grants
  <2> QED
    BY <2>4 DEF Accepted
<1> QED
  BY <1>1, <1>2

(* An offer the Guard finds open and confirmed, as the bar sees it. *)
LEMMA ConfirmedSeen ==
    ASSUME HintInv, NEW v \in Views, NEW r \in Shown, Confirmed(r, v)
    PROVE  /\ Open(r) /\ Seen(r, v) = TermsOf(r) /\ ~HardViolations(Seen(r, v))
<1>1. Seen(r, v) = TermsOf(r)
  BY ShownOffer, SeenOffer DEF Confirmed, OpenOffer
<1> QED
  BY <1>1 DEF Confirmed, OpenOffer, Open

LEMMA LeversAlways == ASSUME HintInv, NEW v \in Views PROVE LeversAgree(v)
<1> SUFFICES ASSUME NEW r \in Shown, NamesLever(r, v) PROVE NeedsLever(v)
  BY DEF LeversAgree
<1>0. Seen(r, v).price \in Nat /\ TypeOK
  BY SeenOffer DEF HintInv
<1>1. CASE NamesApproval(r, v)
  <2>1. First(r, v) /\ Confirmed(r, v) /\ ~Approved(r, v) /\ Outside(TermsOf(r))
    BY <1>1 DEF NamesApproval, MayAsk
  <2>2. Open(r) /\ ~HardViolations(Seen(r, v)) /\ Outside(Seen(r, v))
    BY <2>1, ConfirmedSeen
  <2>3. ~MandateCovers(Seen(r, v))
    BY <1>0, <2>2, CoversOrOutside
  <2> QED
    BY <2>1, <2>2, <2>3 DEF NeedsLever
<1>2. CASE NamesReadback(r, v)
  <2>1. /\ First(r, v) /\ Open(r) /\ r \notin v.sure
        /\ ~HardViolations(Seen(r, v)) /\ Outside(Seen(r, v))
    BY <1>2 DEF NamesReadback
  <2>2. ~MandateCovers(Seen(r, v))
    BY <1>0, <2>1, CoversOrOutside
  <2>3. ~Approved(r, v)
    BY <2>1 DEF Approved, DryAccept, Confirmed
  <2> QED
    BY <2>1, <2>2, <2>3 DEF NeedsLever
<1> QED
  BY <1>1, <1>2 DEF NamesLever

LEMMA OneStepAlways == ASSUME HintInv, NEW v \in Views PROVE OneStep(v)
<1> SUFFICES ASSUME NEW r \in Shown
             PROVE  /\ ~(NamesReadback(r, v) /\ (NamesAccepted(r, v) \/ NamesApproval(r, v)))
                    /\ ~(NamesInside(r, v) /\ HasStep(r, v))
  BY DEF OneStep
<1>1. NamesAccepted(r, v) \/ NamesApproval(r, v) => r \in v.sure
  BY DEF NamesAccepted, NamesApproval, MayAsk, Confirmed
<1>2. NamesReadback(r, v) => r \notin v.sure /\ Outside(Seen(r, v))
  BY DEF NamesReadback
<1>3. NamesInside(r, v) => r \notin v.sure /\ MandateCovers(Seen(r, v))
  BY DEF NamesInside, CheapestInside, Rivals, Inside
<1>4. ~(MandateCovers(Seen(r, v)) /\ Outside(Seen(r, v)))
  BY SeenOffer, CoversOrOutside DEF HintInv
<1> QED
  BY <1>1, <1>2, <1>3, <1>4 DEF HasStep

-----------------------------------------------------------------------------
(* Deferring. *)

(* The offers outside the mandate that nothing inside it precedes. *)
LEMMA DefersOutside ==
    ASSUME HintInv, NEW v \in Views, NEW r \in Shown, Defers(r, v)
    PROVE  /\ r \notin Inside(v)
           /\ mandate # None /\ mandate.status = "granted" /\ mandate.epoch = epoch
<1>1. Outside(Seen(r, v)) /\ Seen(r, v).price \in Nat /\ TypeOK
  BY SeenOffer DEF Defers, HintInv
<1> QED
  BY <1>1, CoversOrOutside DEF Inside

(* One cheapest offer inside comes first, if any is.                       *)
LEMMA InsideFirst ==
    ASSUME HintInv, NEW v \in Views, NEW r \in Shown, Defers(r, v), Rivals(v) # {}
    PROVE  ~First(r, v)
<1> DEFINE P == {Seen(b, v).price : b \in Rivals(v)}
<1>1. Rivals(v) \subseteq Shown
  BY DEF Rivals, Inside
<1>2. P \subseteq Nat /\ P # {}
  BY <1>1, SeenOffer
<1>3. PICK p \in P : \A q \in P : p <= q
  BY <1>2, Least
<1>4. PICK b \in Rivals(v) : p = Seen(b, v).price
  BY <1>3
<1>5. b \in CheapestInside(v)
  BY <1>3, <1>4 DEF CheapestInside
<1>6. [offer |-> b, why |-> "inside"] \in Better(r, v)
  BY <1>5 DEF Better
<1> QED
  BY <1>6 DEF First

(* Dominance is transitive, and what dominates is cheaper. *)
LEMMA Dominance ==
    ASSUME HintInv, NEW v \in Views, NEW x \in Shown, NEW b \in Shown, NEW r \in Shown
    PROVE  /\ Dominates(x, b, v) /\ Dominates(b, r, v) => Dominates(x, r, v) /\ x # r
           /\ Dominates(x, b, v) => Cheaper(x, b, v)
<1>1. /\ Seen(x, v).price \in Nat /\ Term(x) \in Nat /\ Fees(x) \in Nat
      /\ Seen(b, v).price \in Nat /\ Term(b) \in Nat /\ Fees(b) \in Nat
      /\ Seen(r, v).price \in Nat /\ Term(r) \in Nat /\ Fees(r) \in Nat
  BY ShownOffer, SeenOffer
<1>2. Dominates(x, b, v) => Cheaper(x, b, v)
  BY <1>1 DEF Dominates, Cheaper
<1>3. Dominates(x, b, v) /\ Dominates(b, r, v) => Dominates(x, r, v)
  BY <1>1 DEF Dominates
<1>4. Dominates(x, b, v) /\ Dominates(b, r, v) => x # r
  <2> SUFFICES ASSUME Dominates(x, b, v), Dominates(b, x, v) PROVE FALSE
    OBVIOUS
  <2> QED
    BY <1>1 DEF Dominates
<1> QED
  BY <1>2, <1>3, <1>4

(* The cheapest that dominates is dominated by none. *)
LEMMA CheapestUnbeaten ==
    ASSUME HintInv, NEW v \in Views, NEW r \in Shown,
           NEW b \in Beats(r, v), \A x \in Beats(r, v) : ~Cheaper(x, b, v)
    PROVE  Beats(b, v) = {}
<1> SUFFICES ASSUME NEW x \in Beats(b, v) PROVE FALSE
  OBVIOUS
<1>1. b \in Shown /\ x \in Shown /\ Dominates(x, b, v) /\ Dominates(b, r, v)
  BY DEF Beats
<1>2. Dominates(x, r, v) /\ x # r /\ Cheaper(x, b, v)
  BY <1>1, Dominance
<1>3. x \in Beats(r, v)
  BY <1>1, <1>2 DEF Beats
<1> QED
  BY <1>2, <1>3

(* What comes first, by the why of it. *)
LEMMA BetterOffer ==
    ASSUME NEW r, NEW v, NEW b \in Better(r, v)
    PROVE  /\ Defers(r, v)
           /\ \/ Rivals(v) # {} /\ b.offer \in CheapestInside(v) /\ b.why = "inside"
              \/ /\ Rivals(v) = {} /\ b.offer \in Beats(r, v)
                 /\ \A x \in Beats(r, v) : ~Cheaper(x, b.offer, v)
                 /\ b.why = "dominates" => ~Decided(b.offer, "denied")
                 /\ b.why # "inside"
<1>1. Defers(r, v)
  BY DEF Better
<1>2. CASE Rivals(v) # {}
  <2>1. PICK c \in CheapestInside(v) : b = [offer |-> c, why |-> "inside"]
    BY <1>1, <1>2 DEF Better
  <2> QED
    BY <1>1, <1>2, <2>1
<1>3. CASE Rivals(v) = {}
  <2>1. PICK c \in Beats(r, v) :
          /\ \A x \in Beats(r, v) : ~Cheaper(x, c, v)
          /\ b = [offer |-> c,
                  why |-> IF Decided(c, "denied") THEN "denied" ELSE "dominates"]
    BY <1>1, <1>3 DEF Better
  <2>2. b.offer = c /\ b.why = IF Decided(c, "denied") THEN "denied" ELSE "dominates"
    BY <2>1
  <2> QED
    BY <1>1, <1>3, <2>1, <2>2
<1> QED
  BY <1>2, <1>3

(* The offer that comes first has a step, if nothing stands in its way. *)
LEMMA DominantSteps ==
    ASSUME HintInv, NEW v \in Views, NEW r \in Shown, Defers(r, v), Rivals(v) = {},
           NEW b \in Beats(r, v), First(b, v), ~Decided(b, "denied"),
           fences = {}, ~CardBlocks, Undecided(b)
    PROVE  HasStep(b, v)
<1>1. /\ b \in Shown /\ Open(b) /\ ~HardViolations(Seen(b, v)) /\ Priced(b, v)
  BY DEF Beats
<1>2. Outside(Seen(b, v))
  <2>1. b \notin Inside(v)
    BY DEF Rivals
  <2>2. ~MandateCovers(Seen(b, v))
    BY <1>1, <2>1 DEF Inside, Priced
  <2>3. Seen(b, v).price \in Nat /\ TypeOK
    BY <1>1, SeenOffer DEF HintInv
  <2> QED
    BY <2>2, <2>3, DefersOutside, CoversOrOutside
<1>3. CASE b \notin v.sure
  <2>1. NamesReadback(b, v)
    BY <1>1, <1>2, <1>3 DEF NamesReadback
  <2> QED
    BY <2>1 DEF HasStep
<1>4. CASE b \in v.sure
  <2>1. offers[b].bound /\ Seen(b, v) = TermsOf(b) /\ offers[b].rev > 0
    BY <1>1, <1>4, ShownOffer, SeenOffer DEF Shown
  <2>2. Confirmed(b, v)
    BY <1>1, <1>4, <2>1 DEF Confirmed, OpenOffer, Open
  <2>3. NamesAccepted(b, v) \/ NamesApproval(b, v)
    BY <1>2, <2>1, <2>2 DEF NamesAccepted, NamesApproval, MayAsk
  <2> QED
    BY <2>3 DEF HasStep
<1> QED
  BY <1>3, <1>4

LEMMA DeferralsAlways == ASSUME HintInv, NEW v \in Views PROVE DeferralsEnd(v)
<1>1. ASSUME NEW r \in Shown, Defers(r, v), Rivals(v) # {} PROVE ~First(r, v)
  BY <1>1, InsideFirst
<1>2. ASSUME NEW r \in Shown, NEW b \in Better(r, v)
      PROVE  /\ First(b.offer, v)
             /\ b.why = "inside" => b.offer \in v.sure \/ NamesInside(b.offer, v)
             /\ b.why = "dominates" /\ fences = {} /\ ~CardBlocks /\ Undecided(b.offer)
                  => HasStep(b.offer, v)
  <2>1. Defers(r, v)
    BY <1>2, BetterOffer
  <2>2. CASE Rivals(v) # {} /\ b.offer \in CheapestInside(v) /\ b.why = "inside"
    <3>1. b.offer \in Shown /\ b.offer \in Inside(v)
      BY <2>2 DEF CheapestInside, Rivals, Inside
    <3>2. ~Defers(b.offer, v)
      BY <3>1, DefersOutside
    <3>3. First(b.offer, v)
      BY <3>2 DEF First, Better
    <3> QED
      BY <2>2, <3>3 DEF NamesInside
  <2>3. CASE /\ Rivals(v) = {} /\ b.offer \in Beats(r, v)
             /\ \A x \in Beats(r, v) : ~Cheaper(x, b.offer, v)
             /\ b.why = "dominates" => ~Decided(b.offer, "denied")
             /\ b.why # "inside"
    <3>1. Beats(b.offer, v) = {}
      BY <1>2, <2>3, CheapestUnbeaten
    <3>2. First(b.offer, v)
      BY <2>3, <3>1 DEF First, Better
    <3>3. ASSUME b.why = "dominates", fences = {}, ~CardBlocks, Undecided(b.offer)
          PROVE  HasStep(b.offer, v)
      BY <1>2, <2>1, <2>3, <3>2, <3>3, DominantSteps
    <3> QED
      BY <2>3, <3>2, <3>3
  <2> QED
    BY <1>2, <2>2, <2>3, BetterOffer
<1> QED
  BY <1>1, <1>2 DEF DeferralsEnd

(* The steps the status bar names agree with the Guard, with the levers    *)
(* line and with each other, whatever the offers are (slow/hints.py).      *)
THEOREM HintsInAgreement == Spec => []HintsAgree
<1>1. HintInv => HintsAgree
  <2> SUFFICES ASSUME HintInv, NEW v \in Views
               PROVE  StepsPass(v) /\ LeversAgree(v) /\ DeferralsEnd(v) /\ OneStep(v)
    BY DEF HintsAgree
  <2> QED
    BY StepsPassAlways, LeversAlways, DeferralsAlways, OneStepAlways
<1> QED
  BY <1>1, HintInvariant, PTL

=============================================================================
