-------------------------- MODULE AuthorityConsent --------------------------
(***************************************************************************)
(* Authority implements Consent: what the blackboard holds, read as what   *)
(* the user allows.  consents keeps a granted mandate even if Slow puts a  *)
(* proposal in its place: a proposal does not withdraw the user's grant.   *)
(***************************************************************************)
EXTENDS Authority

KnownTerms == [ref : Refs, rev : 1..MaxRev, price : Prices, change : Changes]

GrantedApprovals == {a \in approvals : a.decision = "granted"}

approvedTerms ==
    {a.terms : a \in {x \in GrantedApprovals : x.epoch = epoch /\ x.expires > now}}

coveredTerms ==
    {t \in KnownTerms : \E m \in consents : m.epoch = epoch /\ t.price <= m.max}

committedTerms == {c.terms : c \in Consumed}

C == INSTANCE Consent WITH
        AllTerms <- KnownTerms,
        decisions <- Cardinality(GrantedApprovals) + Cardinality(consents),
        approved <- approvedTerms,
        covered <- coveredTerms,
        committed <- committedTerms

(* Every accept the Speaker releases is one the user's decisions of this   *)
(* epoch allow, for terms not committed to before (I6).                    *)
ImplementsConsent == C!Spec
=============================================================================
