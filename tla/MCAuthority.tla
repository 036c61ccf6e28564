----------------------------- MODULE MCAuthority ----------------------------
(***************************************************************************)
(* Authority under six sets of bounds, checked in one run: part, chosen   *)
(* by PartInit, says which.  The bounds act in guards only: the constants  *)
(* of this module, which the properties range over, cover every part.      *)
(***************************************************************************)
EXTENDS AuthorityConsent

CONSTANTS r1, r2, c1

VARIABLE part

(* Mandates: two of them, decided in turn, over two prices. *)
M == INSTANCE AuthorityConsent WITH
        Refs <- {r1}, Prices <- {1, 2}, Changes <- {"none"},
        Lives <- {}, Confs <- {}, Lanes <- {}, MaxRev <- 2, MaxEpoch <- 2,
        MaxMandates <- 2, MaxDecided <- 0, MaxPosts <- 1, Horizon <- 1,
        CARD_TTL <- 2, CAP_TTL <- 2, Speech <- 1

(* A mandate that may forbid the change of an offer. *)
F == INSTANCE AuthorityConsent WITH
        Refs <- {r1}, Prices <- {1, 2}, Changes <- {"none", "forbidden"},
        Lives <- {}, Confs <- {}, Lanes <- {}, MaxRev <- 2, MaxEpoch <- 1,
        MaxMandates <- 1, MaxDecided <- 0, MaxPosts <- 1, Horizon <- 2,
        CARD_TTL <- 2, CAP_TTL <- 2, Speech <- 1

(* Approvals of two offers. *)
T == INSTANCE AuthorityConsent WITH
        Refs <- {r1, r2}, Prices <- {1}, Changes <- {"none"},
        Lives <- {}, Confs <- {}, Lanes <- {}, MaxRev <- 1, MaxEpoch <- 1,
        MaxMandates <- 0, MaxDecided <- 2, MaxPosts <- 1, Horizon <- 1,
        CARD_TTL <- 2, CAP_TTL <- 2, Speech <- 1

(* Cards: offers that live shorter, or longer, than a card. *)
E == INSTANCE AuthorityConsent WITH
        Refs <- {r1}, Prices <- {1}, Changes <- {"none"},
        Lives <- {1, 3}, Confs <- {}, Lanes <- {}, MaxRev <- 1, MaxEpoch <- 1,
        MaxMandates <- 0, MaxDecided <- 2, MaxPosts <- 1, Horizon <- 4,
        CARD_TTL <- 2, CAP_TTL <- 2, Speech <- 1

(* Retries: an accept cut or revoked and granted again, to the case's end. *)
R == INSTANCE AuthorityConsent WITH
        Refs <- {r1}, Prices <- {1}, Changes <- {"none"},
        Lives <- {}, Confs <- {c1}, Lanes <- {}, MaxRev <- 1, MaxEpoch <- 1,
        MaxMandates <- 1, MaxDecided <- 1, MaxPosts <- 1, Horizon <- 3,
        CARD_TTL <- 2, CAP_TTL <- 2, Speech <- 1

(* Fences: a partner speaks while an accept waits for the floor. *)
W == INSTANCE AuthorityConsent WITH
        Refs <- {r1}, Prices <- {1}, Changes <- {"none"},
        Lives <- {}, Confs <- {}, Lanes <- {"user", "cp"}, MaxRev <- 1, MaxEpoch <- 1,
        MaxMandates <- 1, MaxDecided <- 1, MaxPosts <- 1, Horizon <- 2,
        CARD_TTL <- 2, CAP_TTL <- 2, Speech <- 1

PartInit ==
    \/ part = "mandates" /\ M!Init
    \/ part = "changes" /\ F!Init
    \/ part = "two offers" /\ T!Init
    \/ part = "cards" /\ E!Init
    \/ part = "retries" /\ R!Init
    \/ part = "fences" /\ W!Init

PartNext ==
    /\ part' = part
    /\ \/ part = "mandates" /\ M!Next
       \/ part = "changes" /\ F!Next
       \/ part = "two offers" /\ T!Next
       \/ part = "cards" /\ E!Next
       \/ part = "retries" /\ R!Next
       \/ part = "fences" /\ W!Next

PartSpec == PartInit /\ [][PartNext]_<<part, vars>>
=============================================================================
