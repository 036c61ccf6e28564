----------------------------- MODULE CaseStatus -----------------------------
(***************************************************************************)
(* The status machine of a case (guard/status.py).  Every status.changed   *)
(* event the Guard emits is a row of TRANSITIONS or the hang_up rule; the  *)
(* fold (core/fold.py, _status) rejects any other edge.                    *)
(***************************************************************************)

Statuses ==
    {"INTAKE", "MANDATED", "IN_CALL", "AWAITING_APPROVAL", "COMMIT_AUTHORIZED",
     "COMMITTED", "EVIDENCE_PENDING", "NEEDS_REPLAN", "VERIFIED_COMPLETE",
     "VERIFIED_NO_DEAL", "ESCALATED", "ABANDONED", "CLOSED_NO_ACTION"}

TERMINAL ==
    {"VERIFIED_COMPLETE", "VERIFIED_NO_DEAL", "ESCALATED", "ABANDONED",
     "CLOSED_NO_ACTION"}

(* from, trigger, to: one triple per row of the table. *)
TRANSITIONS ==
    { <<"INTAKE",            "mandate_granted",    "MANDATED">>,
      <<"INTAKE",            "call_opened",        "IN_CALL">>,
      <<"MANDATED",          "call_opened",        "IN_CALL">>,
      <<"IN_CALL",           "approval_requested", "AWAITING_APPROVAL">>,
      <<"AWAITING_APPROVAL", "approval_decided",   "IN_CALL">>,
      <<"AWAITING_APPROVAL", "approval_stale",     "NEEDS_REPLAN">>,
      <<"AWAITING_APPROVAL", "approval_expired",   "NEEDS_REPLAN">>,
      <<"IN_CALL",           "accept_authorized",  "COMMIT_AUTHORIZED">>,
      <<"COMMIT_AUTHORIZED", "accept_heard",       "COMMITTED">>,
      <<"COMMIT_AUTHORIZED", "accept_revoked",     "NEEDS_REPLAN">>,
      <<"COMMIT_AUTHORIZED", "accept_truncated",   "NEEDS_REPLAN">>,
      <<"COMMITTED",         "evidence_recorded",  "EVIDENCE_PENDING">>,
      <<"COMMITTED",         "escalate",           "ESCALATED">>,
      <<"EVIDENCE_PENDING",  "completion_ok",      "VERIFIED_COMPLETE">>,
      <<"EVIDENCE_PENDING",  "completion_fail",    "NEEDS_REPLAN">>,
      <<"NEEDS_REPLAN",      "replan",             "IN_CALL">>,
      <<"NEEDS_REPLAN",      "escalate",           "ESCALATED">>,
      <<"IN_CALL",           "no_deal_verified",   "VERIFIED_NO_DEAL">>,
      <<"IN_CALL",           "info_only",          "CLOSED_NO_ACTION">> }

(* A trigger that is a transition of s; hang_up abandons any open case. *)
MayMove(s, trigger) ==
    \/ trigger = "hang_up" /\ s \notin TERMINAL
    \/ \E row \in TRANSITIONS : row[1] = s /\ row[2] = trigger

(* The status after trigger: s itself if trigger is not a transition of s. *)
NextStatus(s, trigger) ==
    IF ~MayMove(s, trigger) THEN s
    ELSE IF trigger = "hang_up" THEN "ABANDONED"
    ELSE (CHOOSE row \in TRANSITIONS : row[1] = s /\ row[2] = trigger)[3]
=============================================================================
