------------------------------ MODULE Consent ------------------------------
(***************************************************************************)
(* What the Guard promises the user, in the user's terms: the agent        *)
(* commits to terms only while the user's own decision allows exactly      *)
(* them, at most once per terms, and on a mandate's strength only once.    *)
(* What is allowed may lapse at any time; it grows only when the user      *)
(* decides something.                                                      *)
(***************************************************************************)
EXTENDS Integers

CONSTANT AllTerms

VARIABLES
    decisions,  \* granting decisions the user made
    approved,   \* terms an approval allows now
    covered,    \* terms a mandate allows now
    committed   \* terms the agent committed to

vars == <<decisions, approved, covered, committed>>

Init == decisions = 0 /\ approved = {} /\ covered = {} /\ committed = {}

(* The user grants something; anything may lapse with it. *)
Decide ==
    /\ decisions' = decisions + 1
    /\ approved' \in SUBSET AllTerms /\ covered' \in SUBSET AllTerms
    /\ UNCHANGED committed

(* A revocation, a newer epoch, an expiry. *)
Lapse ==
    /\ approved' \in SUBSET approved /\ covered' \in SUBSET covered
    /\ UNCHANGED <<decisions, committed>>

Commit(t) ==
    /\ t \notin committed
    /\ t \in approved \/ (t \in covered /\ committed = {})
    /\ committed' = committed \cup {t}
    /\ UNCHANGED <<decisions, approved, covered>>

Next == Decide \/ Lapse \/ \E t \in AllTerms : Commit(t)

Spec == Init /\ [][Next]_vars
=============================================================================
