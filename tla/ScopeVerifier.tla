---------------------------- MODULE ScopeVerifier ----------------------------
(***************************************************************************)
(* ScopeAwareVerifier.verify_scoped (src/scope_enforce.py): L1-L3 of the    *)
(* base verifier, then an L4 that re-derives the requested act's hash and   *)
(* compares it with the credential and with the acts its issuer committed   *)
(* to.  One credential may serve many sessions, as in the self-check of     *)
(* interop/mint_run_credential.py; the clock moves between the two          *)
(* verifications of one call.                                               *)
(***************************************************************************)
EXTENDS ScopeGate, FiniteSets

CONSTANTS
    Nonce, Holder,
    Mandates,               \* what is minted: [action_id, outcome, scope]
    Requests,               \* what is requested: [action_id, outcome, amount]
    Statuses,               \* values of ear_status
    Nothing,
    MaxTime, MaxCredentials \* bounds

ASSUME ScopeVerifierAssumption ==
    /\ Mandates \subseteq [action_id : Text, outcome : Outcome, scope : ScopeObject]
    /\ Requests \subseteq [action_id : Text, outcome : Outcome, amount : Amount]
    /\ MaxTime \in Nat /\ MaxCredentials \in Nat

VARIABLES
    now,
    credentials,    \* history: what the issuers minted, and over which mandate
    session,        \* the nonce the relying party asked for
    token,          \* the presentation answering it
    base,           \* between the two verifications: the issuer asked about, the base gates
    verdicts        \* history: [nonce, jwt, requested, verdict]

vars == <<now, credentials, session, token, base, verdicts>>

TypeOK ==
    /\ now \in Nat
    /\ \A c \in credentials : c.mandate \in Mandates /\ c.jwt.exp \in Nat
    /\ session \in Nonce \cup {Nothing}
    /\ token # Nothing => token.kb.nonce = session
    /\ base # Nothing => token # Nothing /\ base.issuer \in Issuer
    /\ \A v \in verdicts : v.verdict \in {"ACCEPT", "DENY", "raised"} /\ v.requested \in Requests

Init ==
    /\ now = 0
    /\ credentials = {} /\ verdicts = {}
    /\ session = Nothing /\ token = Nothing /\ base = Nothing

Tick ==
    /\ now < MaxTime /\ now' = now + 1
    /\ UNCHANGED <<credentials, session, token, base, verdicts>>

(* issue_sd with the structured scope and the hash of one act.              *)
Mint(m, issuer, holder, status) ==
    /\ Cardinality(credentials) < MaxCredentials
    /\ LET sd_claims == [principal |-> "P", ear_status |-> status]
           jwt == issue_sd(issuer, m.scope, action_hash_of(m.action_id, m.outcome), holder,
                           sd_claims, Cardinality(credentials), now)
       IN credentials' = credentials \cup {[mandate |-> m, jwt |-> jwt]}
    /\ UNCHANGED <<now, session, token, base, verdicts>>

(* Mutant: the next case begins while the last is still being answered.     *)
Bug_Request(n) ==
    /\ \A v \in verdicts : v.nonce # n
    /\ session' = n
    /\ UNCHANGED <<now, credentials, token, base, verdicts>>

(* A case begins: a new relying party asks under a new nonce.               *)
Request(n) ==
    /\ session = Nothing
    /\ \A v \in verdicts : v.nonce # n
    /\ session' = n
    /\ UNCHANGED <<now, credentials, token, base, verdicts>>

(* scoped_wallet_present, its second half: the holder's KB-JWT.             *)
Present(c, holder) ==
    /\ session # Nothing /\ token = Nothing
    /\ token' = present_sd(c.jwt, holder, session, AUD, {"principal", "ear_status"}, now)
    /\ UNCHANGED <<now, credentials, session, base, verdicts>>

(* self.verify, over evidence that is affirming or not, and fresh or not.   *)
VerifyBase(issuer, status, fresh) ==
    /\ token # Nothing /\ base = Nothing
    /\ LET quote == [nonce |-> "quote", status |-> status]
           s == [nonce |-> session, challenge |-> IF fresh THEN "quote" ELSE "later"]
       IN base' = [issuer |-> issuer, gates |-> verify(s, AUD, token, issuer, quote, quote, now)]
    /\ UNCHANGED <<now, credentials, session, token, verdicts>>

(* The rest of verify_scoped.                                               *)
VerifyScoped(req) ==
    /\ base # Nothing
    /\ LET verdict == verify_scoped(base.gates, token, base.issuer, session, req, now)
       IN verdicts' = verdicts \cup
              {[nonce |-> session, jwt |-> token.jwt, requested |-> req, verdict |-> verdict]}
    /\ base' = Nothing /\ token' = Nothing /\ session' = Nothing
    /\ UNCHANGED <<now, credentials>>

Next ==
    \/ Tick
    \/ \E m \in Mandates, issuer \in Issuer, holder \in Holder, st \in Statuses :
          Mint(m, issuer, holder, st)
    \/ \E n \in Nonce : Request(n)
    \/ \E c \in credentials, holder \in Holder : Present(c, holder)
    \/ \E issuer \in Issuer, st \in Statuses, fresh \in BOOLEAN : VerifyBase(issuer, st, fresh)
    \/ \E req \in Requests : VerifyScoped(req)

Spec == Init /\ [][Next]_vars

-----------------------------------------------------------------------------
Accepted == {v \in verdicts : v.verdict = "ACCEPT"}

(* An accepted act is the one its credential was minted for, pre-authorised *)
(* in the scope the issuer signed, by an endorser, and affordable in whole  *)
(* units.                                                                   *)
AcceptedWasPreAuthorised ==
    \A v \in Accepted : \E c \in credentials :
        /\ c.jwt = v.jwt
        /\ c.jwt.signer \in Endorsers
        /\ nfc[c.mandate.action_id] = nfc[v.requested.action_id]
        /\ c.mandate.outcome = v.requested.outcome
        /\ action_hash_of(c.mandate.action_id, c.mandate.outcome)
              \in c.mandate.scope.action_commitments
        /\ v.requested.action_id \in c.mandate.scope.allowed_actions
        /\ Int_(v.requested.amount) <= c.mandate.scope.max_spend

(* However many sessions one credential serves, it serves one act.          *)
OneCredentialOneAct ==
    \A v, w \in Accepted : v.jwt = w.jwt =>
        /\ nfc[v.requested.action_id] = nfc[w.requested.action_id]
        /\ v.requested.outcome = w.requested.outcome

(* scope_enforce.py:28: "amount <= scope.max_spend (within the spend        *)
(* limit)", of the amount requested.                                        *)
AmountWithinLimit ==
    \A v \in Accepted :
        \/ v.requested.amount.floor < v.jwt.scope.max_spend
        \/ v.requested.amount.floor = v.jwt.scope.max_spend /\ ~v.requested.amount.frac

-----------------------------------------------------------------------------
(* The inductive invariant, in named parts.                                 *)

(* A credential carries the hash and the scope of its mandate, and no claim *)
(* but these two travels as a disclosure.                                   *)
MintedAsMandated ==
    \A c \in credentials :
        /\ {"scope", "action_hash"} \subseteq DOMAIN c.jwt
        /\ c.jwt.scope = c.mandate.scope
        /\ c.jwt.action_hash = action_hash_of(c.mandate.action_id, c.mandate.outcome)
        /\ {d.name : d \in c.jwt.sd} \subseteq {"principal", "ear_status"}

(* The token is a presentation of a credential minted, for the live session.*)
TokenMinted ==
    /\ session = Nothing => token = Nothing
    /\ token # Nothing =>
          /\ \E c \in credentials : c.jwt = token.jwt
          /\ token.discs \subseteq token.jwt.sd

BaseEndorsed == base # Nothing => (BaseAccepts(base.gates) => base.issuer \in Endorsers)

ScopeInv ==
    /\ TypeOK
    /\ MintedAsMandated
    /\ TokenMinted
    /\ BaseEndorsed
    /\ AcceptedWasPreAuthorised
=============================================================================
