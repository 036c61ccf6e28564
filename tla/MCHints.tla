------------------------------ MODULE MCHints -------------------------------
(***************************************************************************)
(* Hints under three sets of bounds, checked in one run: part, chosen by   *)
(* PartInit, says which.  The bounds act in guards only: the constants of  *)
(* this module, which the properties range over, cover every part.         *)
(***************************************************************************)
EXTENDS MCOffers

VARIABLE part

(* Two offers under a mandate. *)
M == INSTANCE Hints WITH
        Refs <- {o1, o2}, Prices <- {1, 2}, Changes <- {"none"},
        Lives <- {}, Confs <- {}, Lanes <- {}, MaxRev <- 1, MaxEpoch <- 1,
        MaxMandates <- 1, MaxDecided <- 0, MaxPosts <- 1, Horizon <- 0,
        CARD_TTL <- 1, CAP_TTL <- 1, Speech <- 1

(* Approvals of two offers. *)
A == INSTANCE Hints WITH
        Refs <- {o1, o2}, Prices <- {1}, Changes <- {"none"},
        Lives <- {}, Confs <- {}, Lanes <- {"user"}, MaxRev <- 1, MaxEpoch <- 0,
        MaxMandates <- 0, MaxDecided <- 1, MaxPosts <- 1, Horizon <- 2,
        CARD_TTL <- 2, CAP_TTL <- 2, Speech <- 1

(* Approvals outside a mandate. *)
B == INSTANCE Hints WITH
        Refs <- {o1}, Prices <- {1, 2}, Changes <- {"none", "unsupported"},
        Lives <- {}, Confs <- {}, Lanes <- {}, MaxRev <- 1, MaxEpoch <- 1,
        MaxMandates <- 1, MaxDecided <- 1, MaxPosts <- 1, Horizon <- 1,
        CARD_TTL <- 1, CAP_TTL <- 1, Speech <- 1

PartInit ==
    \/ part = "mandates" /\ M!Init
    \/ part = "approvals" /\ A!Init
    \/ part = "both" /\ B!Init

PartNext ==
    /\ part' = part
    /\ \/ part = "mandates" /\ M!Next
       \/ part = "approvals" /\ A!Next
       \/ part = "both" /\ B!Next

PartSpec == PartInit /\ [][PartNext]_<<part, vars>>
=============================================================================
