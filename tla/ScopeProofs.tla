----------------------------- MODULE ScopeProofs -----------------------------
(***************************************************************************)
(* Theorems about ScopeVerifier: for any mandates, requests, holders,       *)
(* issuers and sessions, any lifetime and any number of credentials.        *)
(***************************************************************************)
EXTENDS ScopeVerifier, TLAPS

(* L4 works with the scope and the hash the issuer signed: the disclosures  *)
(* of the mint have other names.                                            *)
LEMMA ScopeClaims ==
    ASSUME NEW vp, NEW c \in credentials, MintedAsMandated, c.jwt = vp.jwt,
           vp.discs \subseteq vp.jwt.sd
    PROVE  /\ Claims(vp).scope = c.mandate.scope
           /\ Claims(vp).action_hash = action_hash_of(c.mandate.action_id, c.mandate.outcome)
<1> DEFINE names == {d.name : d \in vp.discs}
<1>1. names \cap {"scope", "action_hash"} = {}
  BY DEF MintedAsMandated
<1>2. {"scope", "action_hash"} \subseteq (DOMAIN vp.jwt \cup names) \ {"sd"}
  BY DEF MintedAsMandated
<1>3. Claims(vp).scope = vp.jwt.scope /\ Claims(vp).action_hash = vp.jwt.action_hash
  BY <1>1, <1>2 DEF Claims
<1> QED
  BY <1>3 DEF MintedAsMandated

LEMMA ScopeInit == Init => ScopeInv
BY DEF Init, ScopeInv, TypeOK, MintedAsMandated, TokenMinted, BaseEndorsed,
       AcceptedWasPreAuthorised, Accepted

(* issue_sd over a mandate: the credential says what was mandated.          *)
LEMMA ScopeMint ==
    ASSUME NEW m \in Mandates, NEW issuer \in Issuer, NEW holder \in Holder, NEW st \in Statuses,
           ScopeInv, Mint(m, issuer, holder, st)
    PROVE  ScopeInv'
<1> DEFINE sd_claims == [principal |-> "P", ear_status |-> st]
<1>1. PICK salt : credentials' = credentials \cup {[mandate |-> m,
        jwt |-> issue_sd(issuer, m.scope, action_hash_of(m.action_id, m.outcome), holder,
                         sd_claims, salt, now)]}
  BY DEF Mint
<1>2. PICK jwt : jwt = issue_sd(issuer, m.scope, action_hash_of(m.action_id, m.outcome), holder,
                                sd_claims, salt, now)
  OBVIOUS
<1>3. credentials' = credentials \cup {[mandate |-> m, jwt |-> jwt]}
  BY <1>1, <1>2
<1>4. /\ {"scope", "action_hash"} \subseteq DOMAIN jwt
      /\ jwt.scope = m.scope
      /\ jwt.action_hash = action_hash_of(m.action_id, m.outcome)
      /\ jwt.exp = now + Ttl
  BY <1>2 DEF issue_sd
<1>5. {d.name : d \in jwt.sd} \subseteq {"principal", "ear_status"}
  <2>1. jwt.sd = {make_disclosure(salt, k, sd_claims[k]) : k \in DOMAIN sd_claims}
    BY <1>2 DEF issue_sd
  <2>2. DOMAIN sd_claims = {"principal", "ear_status"}
    OBVIOUS
  <2> QED
    BY <2>1, <2>2 DEF make_disclosure
<1>6. UNCHANGED <<now, session, token, base, verdicts>>
  BY DEF Mint
<1>7. MintedAsMandated'
  BY <1>3, <1>4, <1>5 DEF ScopeInv, MintedAsMandated
<1>8. TypeOK'
  BY <1>3, <1>4, <1>6, MandateAssumption DEF ScopeInv, TypeOK
<1>9. TokenMinted' /\ BaseEndorsed' /\ AcceptedWasPreAuthorised'
  BY <1>3, <1>6 DEF ScopeInv, TokenMinted, BaseEndorsed, AcceptedWasPreAuthorised, Accepted
<1> QED
  BY <1>7, <1>8, <1>9 DEF ScopeInv

(* The holder's answer carries the nonce of the session, whoever the holder *)
(* is.                                                                      *)
LEMMA ScopePresent ==
    ASSUME NEW c \in credentials, NEW holder \in Holder, ScopeInv, Present(c, holder)
    PROVE  ScopeInv'
<1>1. /\ session # Nothing /\ token = Nothing
      /\ token' = present_sd(c.jwt, holder, session, AUD, {"principal", "ear_status"}, now)
      /\ UNCHANGED <<now, credentials, session, base, verdicts>>
  BY DEF Present
<1>2. token'.jwt = c.jwt /\ token'.discs \subseteq c.jwt.sd /\ token'.kb.nonce = session
  BY <1>1 DEF present_sd
<1>3. base = Nothing
  BY <1>1 DEF ScopeInv, TypeOK
<1>4. TypeOK' /\ TokenMinted'
  BY <1>1, <1>2, <1>3 DEF ScopeInv, TypeOK, TokenMinted
<1>5. MintedAsMandated' /\ BaseEndorsed' /\ AcceptedWasPreAuthorised'
  BY <1>1 DEF ScopeInv, MintedAsMandated, BaseEndorsed, AcceptedWasPreAuthorised, Accepted
<1> QED
  BY <1>4, <1>5 DEF ScopeInv

(* The base gates accept listed endorsers only (L3).                        *)
LEMMA ScopeBase ==
    ASSUME NEW issuer \in Issuer, NEW st \in Statuses, NEW fresh \in BOOLEAN,
           ScopeInv, VerifyBase(issuer, st, fresh)
    PROVE  ScopeInv'
<1> DEFINE quote == [nonce |-> "quote", status |-> st]
           s == [nonce |-> session, challenge |-> IF fresh THEN "quote" ELSE "later"]
           gates == verify(s, AUD, token, issuer, quote, quote, now)
<1>1. /\ token # Nothing
      /\ base' = [issuer |-> issuer, gates |-> gates]
      /\ UNCHANGED <<now, credentials, session, token, verdicts>>
  BY DEF VerifyBase
<1>2. BaseAccepts(gates) => issuer \in Endorsers
  BY DEF BaseAccepts, verify, L3_endorser_role
<1> HIDE DEF gates
<1>3. TypeOK' /\ BaseEndorsed'
  BY <1>1, <1>2 DEF ScopeInv, TypeOK, BaseEndorsed
<1>4. MintedAsMandated' /\ TokenMinted' /\ AcceptedWasPreAuthorised'
  BY <1>1 DEF ScopeInv, MintedAsMandated, TokenMinted, AcceptedWasPreAuthorised, Accepted
<1> QED
  BY <1>3, <1>4 DEF ScopeInv

(* verify_scoped accepts the committed act of the credential presented.     *)
LEMMA ScopeVerdict ==
    ASSUME NEW req \in Requests, ScopeInv, VerifyScoped(req)
    PROVE  ScopeInv'
<1>1. PICK verdict : verdict = verify_scoped(base.gates, token, base.issuer, session, req, now)
  OBVIOUS
<1>2. PICK v : v = [nonce |-> session, jwt |-> token.jwt, requested |-> req, verdict |-> verdict]
  OBVIOUS
<1>3. /\ base # Nothing /\ base' = Nothing /\ token' = Nothing /\ session' = Nothing
      /\ verdicts' = verdicts \cup {v}
      /\ UNCHANGED <<now, credentials>>
  BY <1>1, <1>2 DEF VerifyScoped
<1>4. verdict \in {"ACCEPT", "DENY", "raised"}
  BY <1>1 DEF verify_scoped
<1>5. TypeOK' /\ TokenMinted' /\ BaseEndorsed' /\ MintedAsMandated'
  BY <1>2, <1>3, <1>4 DEF ScopeInv, TypeOK, TokenMinted, BaseEndorsed, MintedAsMandated
<1>6. ASSUME verdict = "ACCEPT"
      PROVE  \E c \in credentials :
                /\ c.jwt = v.jwt
                /\ c.jwt.signer \in Endorsers
                /\ nfc[c.mandate.action_id] = nfc[v.requested.action_id]
                /\ c.mandate.outcome = v.requested.outcome
                /\ action_hash_of(c.mandate.action_id, c.mandate.outcome)
                      \in c.mandate.scope.action_commitments
                /\ v.requested.action_id \in c.mandate.scope.allowed_actions
                /\ Int_(v.requested.amount) <= c.mandate.scope.max_spend
  <2>1. BaseAccepts(base.gates) /\ L4_in_scope(token, base.issuer, session, req, now)
    BY <1>1, <1>6 DEF verify_scoped
  <2>2. base.issuer \in Endorsers /\ token.jwt.signer = base.issuer
    BY <1>3, <2>1 DEF ScopeInv, BaseEndorsed, L4_in_scope, verify_presentation_sd, IssuerSigned, SignedBy
  <2>3. token # Nothing
    BY <1>3 DEF ScopeInv, TypeOK
  <2>4. PICK c \in credentials : c.jwt = token.jwt
    BY <2>3 DEF ScopeInv, TokenMinted
  <2>5. /\ Claims(token).scope = c.mandate.scope
        /\ Claims(token).action_hash = action_hash_of(c.mandate.action_id, c.mandate.outcome)
    BY <2>3, <2>4, ScopeClaims DEF ScopeInv, TokenMinted
  <2>6. /\ req.action_id \in c.mandate.scope.allowed_actions
        /\ action_hash_of(req.action_id, req.outcome)
              = action_hash_of(c.mandate.action_id, c.mandate.outcome)
        /\ action_hash_of(req.action_id, req.outcome) \in c.mandate.scope.action_commitments
        /\ Int_(req.amount) <= c.mandate.scope.max_spend
    BY <2>1, <2>5 DEF L4_in_scope, Committed, WithinLimit
  <2>7. nfc[req.action_id] = nfc[c.mandate.action_id] /\ req.outcome = c.mandate.outcome
    BY <2>6 DEF action_hash_of
  <2> QED
    BY <1>2, <2>2, <2>4, <2>6, <2>7
<1>7. AcceptedWasPreAuthorised'
  <2> SUFFICES ASSUME NEW w \in verdicts', w.verdict = "ACCEPT"
               PROVE  \E c \in credentials :
                          /\ c.jwt = w.jwt
                          /\ c.jwt.signer \in Endorsers
                          /\ nfc[c.mandate.action_id] = nfc[w.requested.action_id]
                          /\ c.mandate.outcome = w.requested.outcome
                          /\ action_hash_of(c.mandate.action_id, c.mandate.outcome)
                                \in c.mandate.scope.action_commitments
                          /\ w.requested.action_id \in c.mandate.scope.allowed_actions
                          /\ Int_(w.requested.amount) <= c.mandate.scope.max_spend
    BY <1>3 DEF AcceptedWasPreAuthorised, Accepted
  <2>1. CASE w \in verdicts
    BY <2>1 DEF ScopeInv, AcceptedWasPreAuthorised, Accepted
  <2>2. CASE w = v
    BY <1>2, <1>6, <2>2
  <2> QED
    BY <1>3, <2>1, <2>2
<1> QED
  BY <1>5, <1>7 DEF ScopeInv

LEMMA ScopeNext == ScopeInv /\ [Next]_vars => ScopeInv'
<1> SUFFICES ASSUME ScopeInv, [Next]_vars PROVE ScopeInv'
  OBVIOUS
<1>1. CASE Tick
  BY <1>1 DEF Tick, ScopeInv, TypeOK, MintedAsMandated, TokenMinted, BaseEndorsed,
              AcceptedWasPreAuthorised, Accepted
<1>2. ASSUME NEW n \in Nonce, Request(n) PROVE ScopeInv'
  <2>1. token = Nothing
    BY <1>2 DEF Request, ScopeInv, TokenMinted
  <2> QED
    BY <1>2, <2>1 DEF Request, ScopeInv, TypeOK, MintedAsMandated, TokenMinted, BaseEndorsed,
                      AcceptedWasPreAuthorised, Accepted
<1>3. CASE UNCHANGED vars
  BY <1>3 DEF vars, ScopeInv, TypeOK, MintedAsMandated, TokenMinted, BaseEndorsed,
              AcceptedWasPreAuthorised, Accepted
<1> QED
  BY <1>1, <1>2, <1>3, ScopeMint, ScopePresent, ScopeBase, ScopeVerdict DEF Next

(* The invariant: a token presents a credential that says what was          *)
(* mandated, and what verify_scoped accepted was pre-authorised.            *)
THEOREM ScopeSafe == Spec => []ScopeInv
BY ScopeInit, ScopeNext, PTL DEF Spec

(* No two sessions mix: a token is for the live session, a pending verdict  *)
(* has a token, and every verdict is one verify_scoped can give.            *)
THEOREM ScopeTypeCorrect == Spec => []TypeOK
<1>1. ScopeInv => TypeOK
  BY DEF ScopeInv
<1> QED
  BY <1>1, ScopeSafe, PTL

(* verify_scoped accepts only what the issuer, a listed endorser, minted    *)
(* the credential for, committed to and allowed, within the limit as int()  *)
(* counts it, although clock and list are consulted twice in one call.      *)
THEOREM PreAuthorised == Spec => []AcceptedWasPreAuthorised
<1>1. ScopeInv => AcceptedWasPreAuthorised
  BY DEF ScopeInv
<1> QED
  BY <1>1, ScopeSafe, PTL

(* A credential is good for one act, in however many sessions: the hash it  *)
(* carries decides, and hashes of two acts differ.                          *)
THEOREM OneAct == Spec => []OneCredentialOneAct
<1>1. ScopeInv => OneCredentialOneAct
  <2> SUFFICES ASSUME ScopeInv, NEW v \in Accepted, NEW w \in Accepted, v.jwt = w.jwt
               PROVE  /\ nfc[v.requested.action_id] = nfc[w.requested.action_id]
                      /\ v.requested.outcome = w.requested.outcome
    BY DEF OneCredentialOneAct
  <2>1. PICK c \in credentials : /\ c.jwt = v.jwt
                                /\ nfc[c.mandate.action_id] = nfc[v.requested.action_id]
                                /\ c.mandate.outcome = v.requested.outcome
    BY DEF ScopeInv, AcceptedWasPreAuthorised
  <2>2. PICK e \in credentials : /\ e.jwt = w.jwt
                                /\ nfc[e.mandate.action_id] = nfc[w.requested.action_id]
                                /\ e.mandate.outcome = w.requested.outcome
    BY DEF ScopeInv, AcceptedWasPreAuthorised
  <2>3. action_hash_of(c.mandate.action_id, c.mandate.outcome)
          = action_hash_of(e.mandate.action_id, e.mandate.outcome)
    BY <2>1, <2>2 DEF ScopeInv, MintedAsMandated
  <2> QED
    BY <2>1, <2>2, <2>3 DEF action_hash_of
<1> QED
  BY <1>1, ScopeSafe, PTL
=============================================================================
