-------------------------- MODULE PresentationProofs --------------------------
(***************************************************************************)
(* Theorems about Presentation for every set of relying parties, holders,   *)
(* issuers, nonces, texts, scopes and every clock, and for every value of   *)
(* the bounds.                                                              *)
(***************************************************************************)
EXTENDS PresentationInv, TLAPS

-----------------------------------------------------------------------------
(* The operators of Mandate and ActionSeal.                                 *)

(* issue_sd over a sealable action makes a credential.                      *)
LEMMA IssueType ==
    ASSUME NEW issuer \in Issuer, NEW holder \in Holder, NEW a \in Actions, Sealable(a),
           NEW scope \in Scopes, NEW status \in EarStatus, NEW salt \in Salt, NEW t \in Nat
    PROVE  issue_sd(issuer, scope, action_hash(a), holder,
                    [principal |-> "P", ear_status |-> status], salt, t) \in Credential
<1> DEFINE c == [principal |-> "P", ear_status |-> status]
           sd == {make_disclosure(salt, k, c[k]) : k \in DOMAIN c}
<1>1. action_hash(a) \in Seal
  BY TextAssumption, PresentationAssumption
     DEF Sealable, _exact_str, _exact_int, action_hash, Seal, Action, Amount
<1>2. sd \subseteq Disclosure
  <2>1. DOMAIN c = SdName
    BY DEF SdName
  <2>2. \A k \in SdName : c[k] \in SdValue
    BY DEF SdName, SdValue
  <2> QED
    BY <2>1, <2>2 DEF make_disclosure, Disclosure
<1>3. t + Ttl \in Nat
  BY MandateAssumption
<1> QED
  BY <1>1, <1>2, <1>3 DEF issue_sd, Credential, Time

(* present_sd over a credential makes a presentation.                       *)
LEMMA PresentType ==
    ASSUME NEW jwt \in Credential, NEW holder \in Holder, NEW n \in Nonce,
           NEW a \in Audience, NEW reveal, NEW t \in Nat
    PROVE  present_sd(jwt, holder, n, a, reveal, t) \in VpToken
<1>1. {d \in jwt.sd : d.name \in reveal} \subseteq Disclosure
  BY DEF Credential
<1> QED
  BY <1>1 DEF present_sd, VpToken, KbJwt, SdHash, Time

(* The overlay of disclosed claims never reaches the registered ones.       *)
LEMMA ClaimsRegistered ==
    ASSUME NEW vp \in VpToken
    PROVE  /\ Claims(vp).scope = vp.jwt.scope
           /\ Claims(vp).action_hash = vp.jwt.action_hash
           /\ Claims(vp).cnf = vp.jwt.cnf
<1> DEFINE names == {d.name : d \in vp.discs}
<1>1. names \subseteq SdName
  BY DEF VpToken, Disclosure
<1>2. {"scope", "action_hash", "cnf"} \cap names = {}
  BY <1>1 DEF SdName
<1>3. {"scope", "action_hash", "cnf"} \subseteq (DOMAIN vp.jwt \cup names) \ {"sd"}
  BY DEF VpToken, Credential
<1> QED
  BY <1>2, <1>3 DEF Claims

(* Two sealable actions with one hash are one action: the seal coerces      *)
(* nothing, a fractional amount cannot pass for its integer part.           *)
LEMMA SealBinds ==
    ASSUME NEW a \in Actions, NEW b \in Actions, Sealable(a), Sealable(b),
           action_hash(a) = action_hash(b)
    PROVE  SameAction(a, b)
<1>1. nfc[a.tool] = nfc[b.tool] /\ nfc[a.to] = nfc[b.to] /\ a.amount_eur.floor = b.amount_eur.floor
  BY DEF action_hash
<1>2. a.amount_eur \in Amount /\ b.amount_eur \in Amount
  BY PresentationAssumption DEF Action
<1>3. a.amount_eur = b.amount_eur
  BY <1>1, <1>2 DEF Sealable, _exact_int, Amount
<1> QED
  BY <1>1, <1>3 DEF SameAction

-----------------------------------------------------------------------------
(* Type correctness.                                                        *)

LEMMA TypeInit == Init => TypeOK
BY PresentationAssumption
   DEF Init, TypeOK, Time, Session, Evidence, Request

LEMMA TypeNext == TypeOK /\ [Next]_vars => TypeOK'
<1> SUFFICES ASSUME TypeOK, [Next]_vars PROVE TypeOK'
  OBVIOUS
<1> USE DEF TypeOK
<1>1. CASE Tick
  BY <1>1 DEF Tick, Time
<1>2. ASSUME NEW r \in RP, request(r) PROVE TypeOK'
  BY <1>2 DEF request, Session, Request
<1>3. ASSUME NEW issuer \in Issuer, NEW holder \in Holder, NEW a \in Actions,
             NEW scope \in Scopes, NEW status \in EarStatus,
             Issue(issuer, holder, a, scope, status)
      PROVE  TypeOK'
  <2>1. PICK salt \in Salt : 
          /\ Sealable(a)
          /\ grants' = grants \cup
                {[action |-> a,
                  jwt |-> issue_sd(issuer, scope, action_hash(a), holder,
                            [principal |-> "P", ear_status |-> status], salt, now)]}
    BY <1>3 DEF Issue
  <2>2. grants' \subseteq Grant
    BY <2>1, IssueType DEF Grant, Time
  <2> QED
    BY <1>3, <2>2 DEF Issue
<1>4. ASSUME NEW g \in grants, NEW holder \in Holder, NEW q \in asked,
             NEW audience \in Audience, NEW reveal \in Reveals,
             Present(g, holder, q, audience, reveal)
      PROVE  TypeOK'
  <2> DEFINE vp == present_sd(g.jwt, holder, q.nonce, audience, reveal, now)
  <2>1. vp \in VpToken
    BY PresentType DEF Grant, Request, Time
  <2>2. wallet' = wallet \cup {vp} /\ network' = network \cup {vp}
    BY <1>4 DEF Present
  <2> QED
    BY <1>4, <2>1, <2>2 DEF Present
<1>5. ASSUME NEW vp \in wallet, NEW discs \in SUBSET vp.jwt.sd, Reassemble(vp, discs)
      PROVE  TypeOK'
  <2>1. [vp EXCEPT !.discs = discs] \in VpToken
    BY DEF VpToken, Credential
  <2> QED
    BY <1>5, <2>1 DEF Reassemble
<1>6. ASSUME NEW vp \in wallet, Damage(vp) PROVE TypeOK'
  <2>1. [vp EXCEPT !.jwt.signer = Broken] \in VpToken
    BY DEF VpToken, Credential
  <2> QED
    BY <1>6, <2>1 DEF Damage
<1>7. ASSUME NEW q \in asked, NEW st \in EarStatus, Attest(q, st) PROVE TypeOK'
  BY <1>7 DEF Attest, Evidence, Request
<1>8. ASSUME NEW r \in RP, NEW vp \in network, NEW issuer \in Issuer,
             NEW ear \in evidence, NEW quote \in evidence, Verify(r, vp, issuer, ear, quote)
      PROVE  TypeOK'
  <2>1. [vp |-> vp, issuer |-> issuer, quote |-> quote] \in Pending
    BY DEF Pending
  <2> QED
    BY <1>8, <2>1 DEF Verify
<1>9. ASSUME NEW r \in RP, NEW a \in Actions, VerifyL4(r, a) PROVE TypeOK'
  <2> DEFINE d == [rp |-> r, vp |-> pending[r].vp, issuer |-> pending[r].issuer,
                   quote |-> pending[r].quote, action |-> a, at |-> now]
  <2>1. d \in Acceptance
    BY <1>9 DEF VerifyL4, Pending, Acceptance
  <2>2. accepted' = accepted \/ accepted' = accepted \cup {d}
    BY <1>9 DEF VerifyL4
  <2>3. pending' \in [RP -> Pending \cup {Nothing}]
    BY <1>9 DEF VerifyL4
  <2> QED
    BY <1>9, <2>1, <2>2, <2>3 DEF VerifyL4
<1>10. CASE UNCHANGED vars
  BY <1>10 DEF vars
<1> QED
  BY <1>1, <1>2, <1>3, <1>4, <1>5, <1>6, <1>7, <1>8, <1>9, <1>10 DEF Next

(* In every reachable state every variable has its type: no call of         *)
(* request, issue_sd, present_sd, verify or verify_l4_scope leaves a        *)
(* credential, a token or a session malformed.                              *)
THEOREM TypeCorrect == Spec => []TypeOK
BY TypeInit, TypeNext, PTL DEF Spec

-----------------------------------------------------------------------------
(* What the two verifications establish about the token they let through.   *)

(* L1-L3: the session's nonce and challenge, the audience, a listed issuer. *)
LEMMA BaseAcceptsImplies ==
    ASSUME NEW s \in Session, NEW a \in Audience, NEW vp \in VpToken, NEW issuer \in Issuer,
           NEW ear, NEW quote \in Evidence, NEW t \in Nat,
           BaseAccepts(verify(s, a, vp, issuer, ear, quote, t))
    PROVE  /\ vp.kb.nonce = s.nonce
           /\ vp.kb.aud = a
           /\ quote.nonce = s.challenge
           /\ issuer \in Endorsers
BY DEF BaseAccepts, verify, verify_presentation_sd, HolderBound, L2_attested, L3_endorser_role

(* L4: the issuer's signature, and the seal and the scope it signed.        *)
LEMMA L4Implies ==
    ASSUME NEW vp \in VpToken, NEW issuer \in Issuer, NEW n, NEW a \in Actions, NEW t \in Nat,
           verify_l4_scope(vp, issuer, n, a, t) = "ok"
    PROVE  /\ vp.jwt.signer = issuer
           /\ Sealable(a)
           /\ vp.jwt.action_hash = action_hash(a)
           /\ InScope(vp.jwt, a)
<1>1. /\ verify_presentation_sd(vp, issuer, n, AUD, t)
      /\ Sealable(a)
      /\ Claims(vp).action_hash = action_hash(a)
      /\ a.tool \in Claims(vp).scope.allowed_actions
      /\ ~(a.amount_eur.floor > Claims(vp).scope.max_spend)
  BY DEF verify_l4_scope
<1>2. Claims(vp).scope = vp.jwt.scope /\ Claims(vp).action_hash = vp.jwt.action_hash
  BY ClaimsRegistered
<1>3. vp.jwt.signer = issuer
  BY <1>1 DEF verify_presentation_sd, IssuerSigned, SignedBy
<1>4. vp.jwt.scope.max_spend \in Int /\ a.amount_eur.floor \in Int
  BY PresentationAssumption DEF VpToken, Credential, Action, Amount
<1> QED
  BY <1>1, <1>2, <1>3, <1>4 DEF InScope

-----------------------------------------------------------------------------
(* The inductive invariant.                                                 *)

LEMMA ProvenanceInit == Init => IInv
BY TypeInit
   DEF Init, IInv, RequestsUnique, RequestsPast, SessionWasAsked, AnswersFollow, QuoteAnswers,
       PendingAnswers, AcceptedAnswers, GrantsSealed, TokensGranted, ExecutedActionWasMandated

(* Time passes.                                                             *)
LEMMA TickStep == IInv /\ Tick => IInv'
<1> SUFFICES ASSUME IInv, Tick PROVE IInv'
  OBVIOUS
<1>1. TypeOK /\ TypeOK'
  BY TypeNext DEF IInv, Next
<1>2. now' = now + 1 /\ now \in Nat
  BY <1>1 DEF Tick, TypeOK, Time
<1>3. UNCHANGED <<session, asked, grants, wallet, network, evidence, pending, accepted>>
  BY DEF Tick
<1>4. RequestsPast' /\ RequestsUnique' /\ SessionWasAsked'
  BY <1>1, <1>2, <1>3 DEF IInv, RequestsPast, RequestsUnique, SessionWasAsked, TypeOK, Request, Time
<1>5. AnswersFollow'
  BY <1>1, <1>2, <1>3 DEF IInv, AnswersFollow, KbAnswers, QuoteAnswers, TypeOK, VpToken, KbJwt, Evidence, Time
<1>6. PendingAnswers' /\ AcceptedAnswers'
  BY <1>1, <1>2, <1>3 DEF IInv, PendingAnswers, AcceptedAnswers, OneRequest, TypeOK, Acceptance, Time
<1>7. GrantsSealed' /\ TokensGranted' /\ ExecutedActionWasMandated'
  BY <1>3 DEF IInv, GrantsSealed, TokensGranted, ExecutedActionWasMandated
<1> QED
  BY <1>1, <1>4, <1>5, <1>6, <1>7 DEF IInv

(* A relying party asks: a new request, whose nonce and challenge no other  *)
(* request has.                                                             *)
LEMMA RequestStep == ASSUME NEW r \in RP PROVE IInv /\ request(r) => IInv'
<1> SUFFICES ASSUME IInv, request(r) PROVE IInv'
  OBVIOUS
<1>1. TypeOK /\ TypeOK'
  BY TypeNext DEF IInv, Next
<1>2. PICK n \in Nonce, c \in Challenge :
        /\ \A q \in asked : q.nonce # n /\ q.challenge # c
        /\ session' = [session EXCEPT ![r] = [nonce |-> n, challenge |-> c]]
        /\ asked' = asked \cup {[rp |-> r, nonce |-> n, challenge |-> c, at |-> now]}
  BY DEF request
<1>3. UNCHANGED <<now, grants, wallet, network, evidence, pending, accepted>>
  BY DEF request
<1>4. RequestsUnique' /\ RequestsPast'
  BY <1>1, <1>2, <1>3 DEF IInv, RequestsUnique, RequestsPast, TypeOK, Time
<1>5. SessionWasAsked'
  <2> SUFFICES ASSUME NEW p \in RP,
                      session'[p] # [nonce |-> NoNonce, challenge |-> NoNonce]
               PROVE  \E q \in asked' :
                         q.rp = p /\ q.nonce = session'[p].nonce /\ q.challenge = session'[p].challenge
    BY DEF SessionWasAsked
  <2>1. CASE p = r
    <3>1. session'[p] = [nonce |-> n, challenge |-> c]
      BY <1>1, <1>2, <2>1 DEF TypeOK
    <3>2. [rp |-> r, nonce |-> n, challenge |-> c, at |-> now] \in asked'
      BY <1>2
    <3> QED
      BY <2>1, <3>1, <3>2
  <2>2. CASE p # r
    <3>1. session'[p] = session[p]
      BY <1>1, <1>2, <2>2 DEF TypeOK
    <3> QED
      BY <1>2, <3>1 DEF IInv, SessionWasAsked
  <2> QED
    BY <2>1, <2>2
<1>6. AnswersFollow'
  BY <1>2, <1>3 DEF IInv, AnswersFollow, KbAnswers, QuoteAnswers
<1>7. PendingAnswers' /\ AcceptedAnswers'
  BY <1>2, <1>3 DEF IInv, PendingAnswers, AcceptedAnswers, OneRequest
<1>8. GrantsSealed' /\ TokensGranted' /\ ExecutedActionWasMandated'
  BY <1>3 DEF IInv, GrantsSealed, TokensGranted, ExecutedActionWasMandated
<1> QED
  BY <1>1, <1>4, <1>5, <1>6, <1>7, <1>8 DEF IInv

(* A credential is issued: it carries the seal of the approved action.      *)
LEMMA IssueStep ==
    ASSUME NEW issuer \in Issuer, NEW holder \in Holder, NEW a \in Actions,
           NEW scope \in Scopes, NEW status \in EarStatus
    PROVE  IInv /\ Issue(issuer, holder, a, scope, status) => IInv'
<1> SUFFICES ASSUME IInv, Issue(issuer, holder, a, scope, status) PROVE IInv'
  OBVIOUS
<1>1. TypeOK'
  BY TypeNext DEF IInv, Next
<1>2. PICK salt \in Salt :
        /\ Sealable(a)
        /\ grants' = grants \cup
              {[action |-> a,
                jwt |-> issue_sd(issuer, scope, action_hash(a), holder,
                          [principal |-> "P", ear_status |-> status], salt, now)]}
  BY DEF Issue
<1>3. UNCHANGED <<now, session, asked, wallet, network, evidence, pending, accepted>>
  BY DEF Issue
<1>4. GrantsSealed'
  BY <1>2 DEF IInv, GrantsSealed, issue_sd
<1>5. TokensGranted' /\ ExecutedActionWasMandated'
  BY <1>2, <1>3 DEF IInv, TokensGranted, ExecutedActionWasMandated
<1>6. RequestsUnique' /\ RequestsPast' /\ SessionWasAsked' /\ AnswersFollow'
  BY <1>3 DEF IInv, RequestsUnique, RequestsPast, SessionWasAsked, AnswersFollow, KbAnswers, QuoteAnswers
<1>7. PendingAnswers' /\ AcceptedAnswers'
  BY <1>3 DEF IInv, PendingAnswers, AcceptedAnswers, OneRequest
<1> QED
  BY <1>1, <1>4, <1>5, <1>6, <1>7 DEF IInv

(* A holder presents: the KB-JWT carries the nonce of a request already     *)
(* sent, and the credential is one that was granted.                        *)
LEMMA PresentStep ==
    ASSUME NEW g \in grants, NEW holder \in Holder, NEW q \in asked,
           NEW audience \in Audience, NEW reveal \in Reveals
    PROVE  IInv /\ Present(g, holder, q, audience, reveal) => IInv'
<1> SUFFICES ASSUME IInv, Present(g, holder, q, audience, reveal) PROVE IInv'
  OBVIOUS
<1>0. PICK vp : vp = present_sd(g.jwt, holder, q.nonce, audience, reveal, now)
  OBVIOUS
<1>1. TypeOK /\ TypeOK'
  BY TypeNext DEF IInv, Next
<1>2. wallet' = wallet \cup {vp} /\ network' = network \cup {vp}
  BY <1>0 DEF Present
<1>3. UNCHANGED <<now, session, asked, grants, evidence, pending, accepted>>
  BY DEF Present
<1>4. vp.jwt = g.jwt /\ vp.kb.nonce = q.nonce /\ vp.kb.iat = now
  BY <1>0 DEF present_sd
<1>5. AnswersFollow'
  <2>1. q.at <= now /\ now <= now
    BY <1>1 DEF IInv, RequestsPast, TypeOK, Time
  <2>2. KbAnswers(vp.kb)'
    BY <1>3, <1>4, <2>1 DEF KbAnswers
  <2>3. \A v \in wallet \cup network : KbAnswers(v.kb)'
    BY <1>3 DEF IInv, AnswersFollow, KbAnswers
  <2>4. \A e \in evidence' : QuoteAnswers(e)'
    BY <1>3 DEF IInv, AnswersFollow, QuoteAnswers
  <2> QED
    BY <1>2, <2>2, <2>3, <2>4 DEF AnswersFollow
<1>6. TokensGranted'
  BY <1>2, <1>3, <1>4 DEF IInv, TokensGranted
<1>7. PendingAnswers' /\ AcceptedAnswers'
  BY <1>2, <1>3 DEF IInv, PendingAnswers, AcceptedAnswers, OneRequest
<1>8. RequestsUnique' /\ RequestsPast' /\ SessionWasAsked' /\ GrantsSealed' /\ ExecutedActionWasMandated'
  BY <1>3 DEF IInv, RequestsUnique, RequestsPast, SessionWasAsked, GrantsSealed, ExecutedActionWasMandated
<1> QED
  BY <1>1, <1>5, <1>6, <1>7, <1>8 DEF IInv

(* The network alters a token: its KB-JWT stays, and its credential stays   *)
(* or verifies under no key.                                                *)
LEMMA AlteredStep ==
    ASSUME NEW vp \in wallet, NEW altered,
           altered.kb = vp.kb,
           altered.jwt = vp.jwt \/ altered.jwt.signer = Broken,
           network' = network \cup {altered},
           UNCHANGED <<now, session, asked, grants, wallet, evidence, pending, accepted>>,
           IInv, TypeOK'
    PROVE  IInv'
<1>1. AnswersFollow'
  <2>1. KbAnswers(altered.kb)'
    BY DEF IInv, AnswersFollow, KbAnswers
  <2>2. \A v \in wallet \cup network : KbAnswers(v.kb)'
    BY DEF IInv, AnswersFollow, KbAnswers
  <2>3. \A e \in evidence' : QuoteAnswers(e)'
    BY DEF IInv, AnswersFollow, QuoteAnswers
  <2> QED
    BY <2>1, <2>2, <2>3 DEF AnswersFollow
<1>2. TokensGranted'
  BY DEF IInv, TokensGranted
<1>3. PendingAnswers' /\ AcceptedAnswers'
  BY DEF IInv, PendingAnswers, AcceptedAnswers, OneRequest
<1>4. RequestsUnique' /\ RequestsPast' /\ SessionWasAsked' /\ GrantsSealed' /\ ExecutedActionWasMandated'
  BY DEF IInv, RequestsUnique, RequestsPast, SessionWasAsked, GrantsSealed, ExecutedActionWasMandated
<1> QED
  BY <1>1, <1>2, <1>3, <1>4 DEF IInv

LEMMA ReassembleStep ==
    ASSUME NEW vp \in wallet, NEW discs \in SUBSET vp.jwt.sd
    PROVE  IInv /\ Reassemble(vp, discs) => IInv'
<1> SUFFICES ASSUME IInv, Reassemble(vp, discs) PROVE IInv'
  OBVIOUS
<1> DEFINE altered == [vp EXCEPT !.discs = discs]
<1>1. TypeOK /\ TypeOK'
  BY TypeNext DEF IInv, Next
<1>2. altered.kb = vp.kb /\ altered.jwt = vp.jwt
  BY <1>1 DEF TypeOK, VpToken
<1> QED
  BY <1>1, <1>2, AlteredStep DEF Reassemble

LEMMA DamageStep == ASSUME NEW vp \in wallet PROVE IInv /\ Damage(vp) => IInv'
<1> SUFFICES ASSUME IInv, Damage(vp) PROVE IInv'
  OBVIOUS
<1> DEFINE altered == [vp EXCEPT !.jwt.signer = Broken]
<1>1. TypeOK /\ TypeOK'
  BY TypeNext DEF IInv, Next
<1>2. altered.kb = vp.kb /\ altered.jwt.signer = Broken
  BY <1>1 DEF TypeOK, VpToken, Credential
<1> QED
  BY <1>1, <1>2, AlteredStep DEF Damage

(* The attester quotes the challenge of a request already sent.             *)
LEMMA AttestStep ==
    ASSUME NEW q \in asked, NEW st \in EarStatus PROVE IInv /\ Attest(q, st) => IInv'
<1> SUFFICES ASSUME IInv, Attest(q, st) PROVE IInv'
  OBVIOUS
<1>0. PICK e : e = [nonce |-> q.challenge, status |-> st, at |-> now]
  OBVIOUS
<1>1. TypeOK /\ TypeOK'
  BY TypeNext DEF IInv, Next
<1>2. evidence' = evidence \cup {e}
  BY <1>0 DEF Attest
<1>3. UNCHANGED <<now, session, asked, grants, wallet, network, pending, accepted>>
  BY DEF Attest
<1>4. AnswersFollow'
  <2>1. q.at <= now /\ now <= now
    BY <1>1 DEF IInv, RequestsPast, TypeOK, Time
  <2>2. QuoteAnswers(e)'
    BY <1>0, <1>3, <2>1 DEF QuoteAnswers
  <2>3. \A f \in evidence : QuoteAnswers(f)'
    BY <1>3 DEF IInv, AnswersFollow, QuoteAnswers
  <2>4. \A v \in wallet' \cup network' : KbAnswers(v.kb)'
    BY <1>3 DEF IInv, AnswersFollow, KbAnswers
  <2> QED
    BY <1>2, <2>2, <2>3, <2>4 DEF AnswersFollow
<1>5. PendingAnswers' /\ AcceptedAnswers'
  BY <1>2, <1>3 DEF IInv, PendingAnswers, AcceptedAnswers, OneRequest
<1>6. /\ RequestsUnique' /\ RequestsPast' /\ SessionWasAsked' /\ GrantsSealed' /\ TokensGranted'
      /\ ExecutedActionWasMandated'
  BY <1>3 DEF IInv, RequestsUnique, RequestsPast, SessionWasAsked, GrantsSealed, TokensGranted,
              ExecutedActionWasMandated
<1> QED
  BY <1>1, <1>4, <1>5, <1>6 DEF IInv

(* verify lets a token wait for L4 only if it answers the live request.     *)
LEMMA VerifyStep ==
    ASSUME NEW r \in RP, NEW vp \in network, NEW issuer \in Issuer,
           NEW ear \in evidence, NEW quote \in evidence
    PROVE  IInv /\ Verify(r, vp, issuer, ear, quote) => IInv'
<1> SUFFICES ASSUME IInv, Verify(r, vp, issuer, ear, quote) PROVE IInv'
  OBVIOUS
<1> DEFINE gates == verify(session[r], aud[r], vp, issuer, ear, quote, now)
           p == [vp |-> vp, issuer |-> issuer, quote |-> quote]
<1>1. TypeOK /\ TypeOK'
  BY TypeNext DEF IInv, Next
<1>2. pending' = [pending EXCEPT ![r] = IF BaseAccepts(gates) THEN p ELSE Nothing]
  BY DEF Verify
<1>3. UNCHANGED <<now, session, asked, grants, wallet, network, evidence, accepted>>
  BY DEF Verify
<1>4. ASSUME BaseAccepts(gates) PROVE issuer \in Endorsers /\ OneRequest(r, vp, quote)
  <2>1. /\ vp.kb.nonce = session[r].nonce /\ vp.kb.aud = aud[r]
        /\ quote.nonce = session[r].challenge /\ issuer \in Endorsers
    BY <1>1, <1>4, BaseAcceptsImplies, PresentationAssumption DEF TypeOK, Time
  <2>2. session[r].nonce # NoNonce
    BY <1>1, <2>1, PresentationAssumption DEF TypeOK, VpToken, KbJwt
  <2>3. session[r] # [nonce |-> NoNonce, challenge |-> NoNonce]
    BY <2>2
  <2> QED
    BY <2>1, <2>3 DEF IInv, SessionWasAsked, OneRequest
<1>5. PendingAnswers'
  <2> SUFFICES ASSUME NEW x \in RP, pending'[x] # Nothing
               PROVE  /\ pending'[x].vp \in network
                      /\ pending'[x].quote \in evidence
                      /\ pending'[x].issuer \in Endorsers
                      /\ OneRequest(x, pending'[x].vp, pending'[x].quote)
    BY <1>3 DEF PendingAnswers, OneRequest
  <2>1. CASE x # r
    <3>1. pending'[x] = pending[x]
      BY <1>1, <1>2, <2>1 DEF TypeOK
    <3> QED
      BY <3>1 DEF IInv, PendingAnswers
  <2>2. CASE x = r
    <3>1. pending'[r] = IF BaseAccepts(gates) THEN p ELSE Nothing
      BY <1>1, <1>2 DEF TypeOK
    <3>2. BaseAccepts(gates) /\ pending'[x] = p
      BY <2>2, <3>1
    <3> QED
      BY <1>4, <2>2, <3>2
  <2> QED
    BY <2>1, <2>2
<1>6. AcceptedAnswers' /\ AnswersFollow'
  BY <1>3 DEF IInv, AcceptedAnswers, OneRequest, AnswersFollow, KbAnswers, QuoteAnswers
<1>7. /\ RequestsUnique' /\ RequestsPast' /\ SessionWasAsked' /\ GrantsSealed' /\ TokensGranted'
      /\ ExecutedActionWasMandated'
  BY <1>3 DEF IInv, RequestsUnique, RequestsPast, SessionWasAsked, GrantsSealed, TokensGranted,
              ExecutedActionWasMandated
<1> QED
  BY <1>1, <1>5, <1>6, <1>7 DEF IInv

(* verify_l4_scope lets a waiting token through only with the session's     *)
(* nonce still in place and the approved action, in scope, to execute.      *)
LEMMA L4Step == ASSUME NEW r \in RP, NEW a \in Actions PROVE IInv /\ VerifyL4(r, a) => IInv'
<1> SUFFICES ASSUME IInv, VerifyL4(r, a) PROVE IInv'
  OBVIOUS
<1>0. PICK p : p = pending[r]
  OBVIOUS
<1>1. TypeOK /\ TypeOK'
  BY TypeNext DEF IInv, Next
<1>2. p # Nothing /\ p \in Pending
  BY <1>0, <1>1 DEF VerifyL4, TypeOK
<1>3. /\ pending' = [pending EXCEPT ![r] = Nothing]
      /\ UNCHANGED <<now, session, asked, grants, wallet, network, evidence>>
  BY DEF VerifyL4
<1>4. PICK d : d = [rp |-> r, vp |-> p.vp, issuer |-> p.issuer, quote |-> p.quote,
                    action |-> a, at |-> now]
  OBVIOUS
<1>5. \/ accepted' = accepted
      \/ /\ verify_l4_scope(p.vp, p.issuer, session[r].nonce, a, now) = "ok"
         /\ accepted' = accepted \cup {d}
  BY <1>0, <1>4 DEF VerifyL4
<1>6. PendingAnswers'
  BY <1>1, <1>3 DEF IInv, PendingAnswers, OneRequest, TypeOK
<1>7. AcceptedAnswers'
  <2>1. p.vp \in network /\ p.quote \in evidence /\ OneRequest(r, p.vp, p.quote)
    BY <1>0, <1>2 DEF IInv, PendingAnswers
  <2>2. p.vp.kb.iat <= now
    <3>1. KbAnswers(p.vp.kb)
      BY <2>1 DEF IInv, AnswersFollow
    <3> QED
      BY <3>1 DEF KbAnswers
  <2>3. p.quote.at <= now
    <3>1. p.quote.nonce # StaleChallenge
      BY <1>1, <2>1, PresentationAssumption DEF OneRequest, TypeOK, Request
    <3>2. QuoteAnswers(p.quote)
      BY <2>1 DEF IInv, AnswersFollow
    <3> QED
      BY <3>1, <3>2 DEF QuoteAnswers
  <2>4. now <= now
    BY <1>1 DEF TypeOK, Time
  <2> QED
    BY <1>3, <1>4, <1>5, <2>1, <2>2, <2>3, <2>4 DEF IInv, AcceptedAnswers, OneRequest
<1>8. ExecutedActionWasMandated'
  <2>1. CASE accepted' = accepted
    BY <1>3, <2>1 DEF IInv, ExecutedActionWasMandated
  <2>2. CASE /\ verify_l4_scope(p.vp, p.issuer, session[r].nonce, a, now) = "ok"
             /\ accepted' = accepted \cup {d}
    <3>1. p.vp \in network /\ p.issuer \in Endorsers /\ p.vp \in VpToken /\ p.issuer \in Issuer
      BY <1>0, <1>2 DEF IInv, PendingAnswers, Pending
    <3>2. /\ p.vp.jwt.signer = p.issuer
          /\ Sealable(a)
          /\ p.vp.jwt.action_hash = action_hash(a)
          /\ InScope(p.vp.jwt, a)
      BY <1>1, <2>2, <3>1, L4Implies DEF TypeOK, Time
    <3>3. p.vp.jwt.signer # Broken
      BY <3>1, <3>2, PresentationAssumption
    <3>4. PICK g \in grants : g.jwt = p.vp.jwt
      BY <3>1, <3>3 DEF IInv, TokensGranted
    <3>5. Sealable(g.action) /\ action_hash(g.action) = action_hash(a)
      BY <3>2, <3>4 DEF IInv, GrantsSealed
    <3>6. g.action \in Actions
      BY <1>1 DEF TypeOK, Grant
    <3>7. SameAction(g.action, a)
      BY <3>2, <3>5, <3>6, SealBinds
    <3> QED
      BY <1>3, <1>4, <2>2, <3>1, <3>2, <3>4, <3>7 DEF IInv, ExecutedActionWasMandated
  <2> QED
    BY <1>5, <2>1, <2>2
<1>9. /\ RequestsUnique' /\ RequestsPast' /\ SessionWasAsked' /\ AnswersFollow'
      /\ GrantsSealed' /\ TokensGranted'
  BY <1>3 DEF IInv, RequestsUnique, RequestsPast, SessionWasAsked, AnswersFollow, KbAnswers,
              QuoteAnswers, GrantsSealed, TokensGranted
<1> QED
  BY <1>1, <1>6, <1>7, <1>8, <1>9 DEF IInv

LEMMA ProvenanceNext == IInv /\ [Next]_vars => IInv'
<1>1. IInv /\ UNCHANGED vars => IInv'
  BY DEF vars, IInv, TypeOK, RequestsUnique, RequestsPast, SessionWasAsked, AnswersFollow,
         KbAnswers, QuoteAnswers, PendingAnswers, AcceptedAnswers, OneRequest, GrantsSealed,
         TokensGranted, ExecutedActionWasMandated
<1> QED
  BY <1>1, TickStep, RequestStep, IssueStep, PresentStep, ReassembleStep, DamageStep,
     AttestStep, VerifyStep, L4Step DEF Next

(* Every state reachable keeps the invariant that ties an execution to its  *)
(* request, its token, its quote and its grant.                             *)
THEOREM Provenance == Spec => []IInv
BY ProvenanceInit, ProvenanceNext, PTL DEF Spec

-----------------------------------------------------------------------------
(* What follows from it.                                                    *)

(* What verify and verify_l4_scope let through is an action that a listed   *)
(* endorser approved in this credential, within its scope.                  *)
THEOREM Mandated == Spec => []ExecutedActionWasMandated
<1>1. IInv => ExecutedActionWasMandated
  BY DEF IInv
<1> QED
  BY <1>1, Provenance, PTL

(* A token or a quote accepted for one request is accepted for no other, at *)
(* no relying party, although the verifier consumes neither.                *)
THEOREM NoCrossSessionReplay == Spec => []NoReplay
<1>1. IInv => NoReplay
  <2> SUFFICES ASSUME IInv, NEW d1 \in accepted, NEW d2 \in accepted,
                      d1.vp = d2.vp \/ d1.quote.nonce = d2.quote.nonce
               PROVE  d1.rp = d2.rp /\ d1.vp.kb.nonce = d2.vp.kb.nonce
    BY DEF NoReplay
  <2>1. PICK q1 \in asked : q1.rp = d1.rp /\ q1.nonce = d1.vp.kb.nonce /\ q1.challenge = d1.quote.nonce
    BY DEF IInv, AcceptedAnswers, OneRequest
  <2>2. PICK q2 \in asked : q2.rp = d2.rp /\ q2.nonce = d2.vp.kb.nonce /\ q2.challenge = d2.quote.nonce
    BY DEF IInv, AcceptedAnswers, OneRequest
  <2>3. q1 = q2
    BY <2>1, <2>2 DEF IInv, RequestsUnique
  <2> QED
    BY <2>1, <2>2, <2>3
<1> QED
  BY <1>1, Provenance, PTL

(* Token and quote were both made after the one request they answer, even   *)
(* when request() replaced the session between verify and verify_l4_scope.  *)
THEOREM OneRequestAnswered == Spec => []AnswersOneRequest
<1>1. IInv => AnswersOneRequest
  <2> SUFFICES ASSUME IInv, NEW d \in accepted
               PROVE  \E q \in asked :
                         /\ q.rp = d.rp /\ q.nonce = d.vp.kb.nonce /\ q.challenge = d.quote.nonce
                         /\ d.vp.kb.aud = aud[d.rp]
                         /\ q.at <= d.vp.kb.iat /\ d.vp.kb.iat <= d.at
                         /\ q.at <= d.quote.at /\ d.quote.at <= d.at
    BY DEF AnswersOneRequest
  <2>1. /\ d.vp \in network /\ d.quote \in evidence /\ d.vp.kb.aud = aud[d.rp]
        /\ d.vp.kb.iat <= d.at /\ d.quote.at <= d.at
    BY DEF IInv, AcceptedAnswers, OneRequest
  <2>2. PICK q \in asked : q.rp = d.rp /\ q.nonce = d.vp.kb.nonce /\ q.challenge = d.quote.nonce
    BY DEF IInv, AcceptedAnswers, OneRequest
  <2>3. q.at <= d.vp.kb.iat
    <3>1. PICK p \in asked : p.nonce = d.vp.kb.nonce /\ p.at <= d.vp.kb.iat
      BY <2>1 DEF IInv, AnswersFollow, KbAnswers
    <3>2. p = q
      BY <2>2, <3>1 DEF IInv, RequestsUnique
    <3> QED
      BY <3>1, <3>2
  <2>4. q.at <= d.quote.at
    <3>1. d.quote.nonce # StaleChallenge
      BY <2>2, PresentationAssumption DEF IInv, TypeOK, Request
    <3>2. PICK p \in asked : p.challenge = d.quote.nonce /\ p.at <= d.quote.at
      BY <2>1, <3>1 DEF IInv, AnswersFollow, QuoteAnswers
    <3>3. p = q
      BY <2>2, <3>2 DEF IInv, RequestsUnique
    <3> QED
      BY <3>2, <3>3
  <2> QED
    BY <2>1, <2>2, <2>3, <2>4
<1> QED
  BY <1>1, Provenance, PTL
=============================================================================
