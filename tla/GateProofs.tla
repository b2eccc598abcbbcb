----------------------------- MODULE GateProofs -----------------------------
(***************************************************************************)
(* More about Presentation, on top of its inductive invariant: what is      *)
(* executed is what the wallet sent, while the credential lasts; an honest  *)
(* answer passes; and the four gates implement AuthorityGate.               *)
(***************************************************************************)
EXTENDS PresentationProofs

-----------------------------------------------------------------------------
(* What a token that passed L4 showed at that moment.                       *)

(* The second verification of verify_l4_scope checks the window and the     *)
(* holder's signature over what was sent.                                   *)
LEMMA L4Verified ==
    ASSUME NEW vp \in VpToken, NEW issuer \in Issuer, NEW n, NEW a \in Actions, NEW t \in Nat,
           verify_l4_scope(vp, issuer, n, a, t) = "ok"
    PROVE  /\ vp.jwt.iat <= t + Leeway
           /\ t < vp.jwt.exp + Leeway
           /\ vp.kb.signer = vp.jwt.cnf
           /\ vp.kb.sd_hash = SdHash(vp.jwt, vp.discs)
<1>1. verify_presentation_sd(vp, issuer, n, AUD, t)
  BY DEF verify_l4_scope
<1>2. Claims(vp).cnf = vp.jwt.cnf
  BY ClaimsRegistered
<1>3. vp.jwt.exp \in Nat /\ Leeway \in Nat
  BY MandateAssumption DEF VpToken, Credential, Time
<1> QED
  BY <1>1, <1>2, <1>3
     DEF verify_presentation_sd, IssuerSigned, NotFromFuture, NotExpired, HolderBound, SignedBy

(* The hash in the KB-JWT fixes credential and disclosures: a token that    *)
(* carries the wallet's KB-JWT and its own hash is the wallet's token.      *)
LEMMA HashFixesToken ==
    ASSUME NEW vp \in VpToken, NEW w \in VpToken, w.kb = vp.kb,
           w.kb.sd_hash = SdHash(w.jwt, w.discs), vp.kb.sd_hash = SdHash(vp.jwt, vp.discs)
    PROVE  vp = w
<1>1. vp.jwt = w.jwt /\ vp.discs = w.discs
  BY DEF SdHash
<1> QED
  BY <1>1 DEF VpToken

-----------------------------------------------------------------------------
(* The second inductive invariant.                                          *)

LEMMA PresentedInit == Init => PresentedInv
BY DEF Init, PresentedInv, GrantsWindowed, WalletSigned, KbsFromWallet, AcceptedAsPresented,
       ExecutedWithinLifetime

(* It speaks of the clock, the grants, the wallet, the network, the         *)
(* requests and the executions, and of the first and the fifth only as they *)
(* grow.                                                                    *)
LEMMA PresentedKept ==
    ASSUME IInv, TypeOK', PresentedInv, asked \subseteq asked', now <= now',
           UNCHANGED <<grants, wallet, network, accepted>>
    PROVE  PresentedInv'
<1>1. GrantsWindowed'
  BY DEF PresentedInv, GrantsWindowed, IInv, TypeOK, Time, Grant, Credential
<1>2. WalletSigned'
  BY DEF PresentedInv, WalletSigned
<1>3. KbsFromWallet' /\ AcceptedAsPresented' /\ ExecutedWithinLifetime'
  BY DEF PresentedInv, KbsFromWallet, AcceptedAsPresented, ExecutedWithinLifetime
<1> QED
  BY <1>1, <1>2, <1>3 DEF PresentedInv

(* issue_sd reads the clock once: exp is iat and the lifetime.              *)
LEMMA PresentedIssue ==
    ASSUME NEW issuer \in Issuer, NEW holder \in Holder, NEW a \in Actions,
           NEW scope \in Scopes, NEW status \in EarStatus,
           IInv, TypeOK', PresentedInv, Issue(issuer, holder, a, scope, status)
    PROVE  PresentedInv'
<1> DEFINE c == [principal |-> "P", ear_status |-> status]
<1>1. PICK salt \in Salt :
        grants' = grants \cup {[action |-> a,
            jwt |-> issue_sd(issuer, scope, action_hash(a), holder, c, salt, now)]}
  BY DEF Issue
<1>2. PICK jwt : jwt = issue_sd(issuer, scope, action_hash(a), holder, c, salt, now)
  OBVIOUS
<1>3. grants' = grants \cup {[action |-> a, jwt |-> jwt]}
  BY <1>1, <1>2
<1>4. jwt.iat = now /\ jwt.exp = now + Ttl
  BY <1>2 DEF issue_sd
<1>5. \A d1, d2 \in jwt.sd : d1.name = d2.name => d1 = d2
  <2>1. jwt.sd = {make_disclosure(salt, k, c[k]) : k \in DOMAIN c}
    BY <1>2 DEF issue_sd
  <2> QED
    BY <2>1 DEF make_disclosure
<1>6. UNCHANGED <<now, session, asked, wallet, network, evidence, pending, accepted>>
  BY DEF Issue
<1>7. now <= now
  BY DEF IInv, TypeOK, Time
<1>8. GrantsWindowed'
  <2> SUFFICES ASSUME NEW g \in grants'
               PROVE  /\ g.jwt.iat <= now
                      /\ g.jwt.exp = g.jwt.iat + Ttl
                      /\ \A d1, d2 \in g.jwt.sd : d1.name = d2.name => d1 = d2
    BY <1>6 DEF GrantsWindowed
  <2>1. CASE g \in grants
    BY <2>1 DEF PresentedInv, GrantsWindowed
  <2>2. CASE g.jwt = jwt
    BY <1>4, <1>5, <1>7, <2>2
  <2> QED
    BY <1>3, <2>1, <2>2
<1>9. WalletSigned' /\ KbsFromWallet' /\ AcceptedAsPresented' /\ ExecutedWithinLifetime'
  BY <1>6 DEF PresentedInv, WalletSigned, KbsFromWallet, AcceptedAsPresented, ExecutedWithinLifetime
<1> QED
  BY <1>8, <1>9 DEF PresentedInv

(* present_sd hashes exactly what it sends.                                 *)
LEMMA PresentedPresent ==
    ASSUME NEW g \in grants, NEW holder \in Holder, NEW q \in asked,
           NEW audience \in Audience, NEW reveal \in Reveals,
           IInv, PresentedInv, Present(g, holder, q, audience, reveal)
    PROVE  PresentedInv'
<1>1. PICK vp : vp = present_sd(g.jwt, holder, q.nonce, audience, reveal, now)
  OBVIOUS
<1>2. wallet' = wallet \cup {vp} /\ network' = network \cup {vp}
  BY <1>1 DEF Present
<1>3. UNCHANGED <<now, session, asked, grants, evidence, pending, accepted>>
  BY DEF Present
<1>4. WalletSigned'
  <2>1. vp.discs \subseteq vp.jwt.sd /\ vp.kb.sd_hash = SdHash(vp.jwt, vp.discs)
    BY <1>1 DEF present_sd
  <2> QED
    BY <1>2, <1>3, <2>1 DEF PresentedInv, WalletSigned
<1>5. KbsFromWallet' /\ AcceptedAsPresented'
  BY <1>2, <1>3 DEF PresentedInv, KbsFromWallet, AcceptedAsPresented
<1>6. GrantsWindowed' /\ ExecutedWithinLifetime'
  BY <1>3 DEF PresentedInv, GrantsWindowed, ExecutedWithinLifetime
<1> QED
  BY <1>4, <1>5, <1>6 DEF PresentedInv

(* Whatever the network does to a token, the KB-JWT in it is the wallet's.  *)
LEMMA PresentedAltered ==
    ASSUME NEW vp \in wallet, NEW altered, altered.kb = vp.kb,
           network' = network \cup {altered},
           UNCHANGED <<now, asked, grants, wallet, accepted>>, PresentedInv
    PROVE  PresentedInv'
<1>1. KbsFromWallet'
  BY DEF PresentedInv, KbsFromWallet
<1>2. GrantsWindowed' /\ WalletSigned' /\ AcceptedAsPresented' /\ ExecutedWithinLifetime'
  BY DEF PresentedInv, GrantsWindowed, WalletSigned, AcceptedAsPresented, ExecutedWithinLifetime
<1> QED
  BY <1>1, <1>2 DEF PresentedInv

(* The mandate behind a token L4 lets through: a credential a listed        *)
(* endorser issued over this action, still in force.                        *)
LEMMA L4Mandate ==
    ASSUME NEW r \in RP, NEW a \in Actions, IInv, PresentedInv, pending[r] # Nothing,
           verify_l4_scope(pending[r].vp, pending[r].issuer, session[r].nonce, a, now) = "ok"
    PROVE  \E g \in grants :
              /\ g.jwt = pending[r].vp.jwt
              /\ g.jwt.signer \in Endorsers
              /\ SameAction(g.action, a) /\ InScope(g.jwt, a)
              /\ g.jwt.exp = g.jwt.iat + Ttl
              /\ now < g.jwt.exp + Leeway
<1>1. PICK p : p = pending[r]
  OBVIOUS
<1>2. p.vp \in network /\ p.issuer \in Endorsers /\ p.vp \in VpToken /\ p.issuer \in Issuer
  BY <1>1 DEF IInv, PendingAnswers, TypeOK, Pending
<1>3. now \in Nat /\ verify_l4_scope(p.vp, p.issuer, session[r].nonce, a, now) = "ok"
  BY <1>1 DEF IInv, TypeOK, Time
<1>4. /\ p.vp.jwt.signer = p.issuer /\ Sealable(a)
      /\ p.vp.jwt.action_hash = action_hash(a) /\ InScope(p.vp.jwt, a)
  BY <1>2, <1>3, L4Implies
<1>5. now < p.vp.jwt.exp + Leeway
  BY <1>2, <1>3, L4Verified
<1>6. p.vp.jwt.signer # Broken
  BY <1>2, <1>4, PresentationAssumption
<1>7. PICK g \in grants : g.jwt = p.vp.jwt
  BY <1>2, <1>6 DEF IInv, TokensGranted
<1>8. SameAction(g.action, a)
  <2>1. Sealable(g.action) /\ action_hash(g.action) = action_hash(a)
    BY <1>4, <1>7 DEF IInv, GrantsSealed
  <2>2. g.action \in Actions
    BY DEF IInv, TypeOK, Grant
  <2> QED
    BY <1>4, <2>1, <2>2, SealBinds
<1>9. g.jwt.exp = g.jwt.iat + Ttl
  BY DEF PresentedInv, GrantsWindowed
<1> QED
  BY <1>1, <1>2, <1>4, <1>5, <1>7, <1>8, <1>9

(* L4 verifies window and holder once more, at the time of the execution.   *)
LEMMA PresentedL4 ==
    ASSUME NEW r \in RP, NEW a \in Actions, IInv, PresentedInv, VerifyL4(r, a)
    PROVE  PresentedInv'
<1>1. PICK p : p = pending[r]
  OBVIOUS
<1>2. PICK d : d = [rp |-> r, vp |-> p.vp, issuer |-> p.issuer, quote |-> p.quote,
                    action |-> a, at |-> now]
  OBVIOUS
<1>3. /\ p # Nothing /\ p.vp \in network /\ p.vp \in VpToken /\ p.issuer \in Issuer /\ now \in Nat
  BY <1>1 DEF VerifyL4, IInv, PendingAnswers, TypeOK, Pending, Time
<1>4. UNCHANGED <<now, session, asked, grants, wallet, network, evidence>>
  BY DEF VerifyL4
<1>5. GrantsWindowed' /\ WalletSigned' /\ KbsFromWallet'
  BY <1>4 DEF PresentedInv, GrantsWindowed, WalletSigned, KbsFromWallet
<1>6. CASE accepted' = accepted
  BY <1>4, <1>5, <1>6 DEF PresentedInv, AcceptedAsPresented, ExecutedWithinLifetime
<1>7. CASE /\ verify_l4_scope(p.vp, p.issuer, session[r].nonce, a, now) = "ok"
           /\ accepted' = accepted \cup {d}
  <2>1. /\ p.vp.jwt.iat <= now + Leeway /\ p.vp.kb.signer = p.vp.jwt.cnf
        /\ p.vp.kb.sd_hash = SdHash(p.vp.jwt, p.vp.discs)
    BY <1>3, <1>7, L4Verified
  <2>2. PICK w \in wallet : w.kb = p.vp.kb
    BY <1>3 DEF PresentedInv, KbsFromWallet
  <2>3. w \in VpToken /\ w.kb.sd_hash = SdHash(w.jwt, w.discs)
    BY DEF IInv, TypeOK, PresentedInv, WalletSigned
  <2>4. p.vp = w
    BY <1>3, <2>1, <2>2, <2>3, HashFixesToken
  <2>5. now < p.vp.jwt.iat + Ttl + Leeway
    BY <1>1, <1>3, <1>7, L4Mandate
  <2>6. AcceptedAsPresented'
    BY <1>2, <1>4, <1>7, <2>1, <2>4 DEF PresentedInv, AcceptedAsPresented
  <2>7. ExecutedWithinLifetime'
    BY <1>2, <1>7, <2>1, <2>5 DEF PresentedInv, ExecutedWithinLifetime
  <2> QED
    BY <1>5, <2>6, <2>7 DEF PresentedInv
<1> QED
  BY <1>1, <1>2, <1>6, <1>7 DEF VerifyL4

LEMMA PresentedNext == IInv /\ PresentedInv /\ [Next]_vars => PresentedInv'
<1> SUFFICES ASSUME IInv, PresentedInv, [Next]_vars PROVE PresentedInv'
  OBVIOUS
<1>1. TypeOK /\ TypeOK'
  BY TypeNext DEF IInv
<1>2. now <= now
  BY <1>1 DEF TypeOK, Time
<1>3. CASE Tick
  BY <1>1, <1>3, PresentedKept DEF Tick, TypeOK, Time
<1>4. ASSUME NEW r \in RP, request(r) PROVE PresentedInv'
  <2>1. asked \subseteq asked' /\ UNCHANGED <<now, grants, wallet, network, accepted>>
    BY <1>4 DEF request
  <2> QED
    BY <1>1, <1>2, <2>1, PresentedKept
<1>5. ASSUME NEW vp \in wallet, NEW discs \in SUBSET vp.jwt.sd, Reassemble(vp, discs)
      PROVE  PresentedInv'
  <2>1. [vp EXCEPT !.discs = discs].kb = vp.kb
    BY <1>1 DEF TypeOK, VpToken
  <2> QED
    BY <1>5, <2>1, PresentedAltered DEF Reassemble
<1>6. ASSUME NEW vp \in wallet, Damage(vp) PROVE PresentedInv'
  <2>1. [vp EXCEPT !.jwt.signer = Broken].kb = vp.kb
    BY <1>1 DEF TypeOK, VpToken
  <2> QED
    BY <1>6, <2>1, PresentedAltered DEF Damage
<1>7. ASSUME NEW q \in asked, NEW st \in EarStatus, Attest(q, st) PROVE PresentedInv'
  BY <1>1, <1>2, <1>7, PresentedKept DEF Attest
<1>8. ASSUME NEW r \in RP, NEW vp \in network, NEW issuer \in Issuer,
             NEW ear \in evidence, NEW quote \in evidence, Verify(r, vp, issuer, ear, quote)
      PROVE  PresentedInv'
  BY <1>1, <1>2, <1>8, PresentedKept DEF Verify
<1>9. CASE UNCHANGED vars
  BY <1>1, <1>2, <1>9, PresentedKept DEF vars
<1> QED
  BY <1>1, <1>3, <1>4, <1>5, <1>6, <1>7, <1>8, <1>9, PresentedIssue, PresentedPresent, PresentedL4
     DEF Next

(* Both invariants hold in every state: where a token came from, and that   *)
(* the wallet signed over it.                                               *)
THEOREM Presented == Spec => [](IInv /\ PresentedInv)
<1>1. Init => IInv /\ PresentedInv
  BY ProvenanceInit, PresentedInit
<1>2. IInv /\ PresentedInv /\ [Next]_vars => (IInv /\ PresentedInv)'
  BY ProvenanceNext, PresentedNext
<1> QED
  BY <1>1, <1>2, PTL DEF Spec

(* What all four gates let through is a token the wallet made, with the     *)
(* disclosures chosen there, however the network changed others on the way. *)
THEOREM PresentedAsSent == Spec => []AcceptedAsPresented
<1>1. PresentedInv => AcceptedAsPresented
  BY DEF PresentedInv
<1> QED
  BY <1>1, Presented, PTL

(* No action is executed after the credential expired, up to the leeway of  *)
(* jwt.decode, whatever time passed between verify and verify_l4_scope.     *)
THEOREM WithinLifetime == Spec => []ExecutedWithinLifetime
<1>1. PresentedInv => ExecutedWithinLifetime
  BY DEF PresentedInv
<1> QED
  BY <1>1, Presented, PTL

-----------------------------------------------------------------------------
(* Completeness.                                                            *)

(* The value of a claim that is disclosed once is the disclosed one.        *)
LEMMA DisclosedValue ==
    ASSUME NEW vp \in VpToken, NEW d \in vp.discs,
           \A d1, d2 \in vp.discs : d1.name = d2.name => d1 = d2,
           d.name # "sd"
    PROVE  Get(Claims(vp), d.name, "absent") = d.value
<1> DEFINE names == {e.name : e \in vp.discs}
<1>1. d.name \in (DOMAIN vp.jwt \cup names) \ {"sd"}
  OBVIOUS
<1>2. (CHOOSE e \in vp.discs : e.name = d.name) = d
  OBVIOUS
<1>3. Claims(vp)[d.name] = d.value /\ d.name \in DOMAIN Claims(vp)
  BY <1>1, <1>2 DEF Claims
<1> QED
  BY <1>3 DEF Get

(* The signatures, the window and the binding of an unaltered presentation  *)
(* its holder made for the live request.                                    *)
LEMMA HonestL1 ==
    ASSUME IInv, PresentedInv, NEW r \in RP, NEW vp \in network, NEW issuer \in Issuer,
           NEW ear \in evidence, NEW quote \in evidence, HonestAnswer(r, vp, issuer, ear, quote)
    PROVE  /\ verify_presentation_sd(vp, issuer, session[r].nonce, aud[r], now)
           /\ \E g \in grants : g.jwt = vp.jwt
<1>1. /\ vp \in wallet /\ vp.kb.signer = vp.jwt.cnf
      /\ vp.kb.nonce = session[r].nonce /\ vp.kb.aud = aud[r]
      /\ issuer = vp.jwt.signer /\ now < vp.jwt.exp + Leeway
  BY DEF HonestAnswer
<1>2. vp \in VpToken /\ now \in Nat
  BY DEF IInv, TypeOK, Time
<1>3. PICK g \in grants : g.jwt = vp.jwt
  BY <1>1, PresentationAssumption DEF IInv, TokensGranted
<1>4. IssuerSigned(vp, issuer, now)
  <2>1. vp.jwt.iat <= now /\ vp.jwt.iat \in Nat /\ vp.jwt.exp \in Nat /\ Leeway \in Nat
    BY <1>2, <1>3, MandateAssumption DEF PresentedInv, GrantsWindowed, VpToken, Credential, Time
  <2> QED
    BY <1>1, <1>2, <2>1 DEF IssuerSigned, SignedBy, NotFromFuture, NotExpired
<1>5. HolderBound(vp, session[r].nonce, aud[r], now)
  <2>1. Claims(vp).cnf = vp.jwt.cnf
    BY <1>2, ClaimsRegistered
  <2>2. vp.kb.sd_hash = SdHash(vp.jwt, vp.discs)
    BY <1>1 DEF PresentedInv, WalletSigned
  <2>3. NotFromFuture(vp.kb, now)
    <3>1. vp.kb.iat <= now /\ vp.kb.iat \in Nat /\ Leeway \in Nat
      BY <1>2, MandateAssumption DEF IInv, AnswersFollow, KbAnswers, VpToken, KbJwt, Time
    <3> QED
      BY <1>2, <3>1 DEF NotFromFuture
  <2> QED
    BY <1>1, <2>1, <2>2, <2>3 DEF HolderBound, SignedBy
<1>6. vp.discs \subseteq vp.jwt.sd
  BY <1>1 DEF PresentedInv, WalletSigned
<1> QED
  BY <1>3, <1>4, <1>5, <1>6 DEF verify_presentation_sd

(* An unaltered presentation for the live request with affirming evidence   *)
(* over its challenge passes verify, and verify_l4_scope lets every         *)
(* encoding of the approved action through that the scope allows, if and    *)
(* only if the relying party's audience is AUD.                             *)
THEOREM HonestPasses == Spec => []HonestAnswerPasses
<1>1. IInv /\ PresentedInv => HonestAnswerPasses
  <2> SUFFICES ASSUME IInv, PresentedInv, NEW r \in RP, NEW vp \in network,
                      NEW issuer \in Issuer, NEW ear \in evidence, NEW quote \in evidence,
                      HonestAnswer(r, vp, issuer, ear, quote)
               PROVE  /\ BaseAccepts(verify(session[r], aud[r], vp, issuer, ear, quote, now))
                      /\ \A a \in Actions :
                            Sealable(a) /\ InScope(vp.jwt, a) /\ Approved(vp.jwt, a) =>
                                (verify_l4_scope(vp, issuer, session[r].nonce, a, now) = "ok"
                                    <=> aud[r] = AUD)
    BY DEF HonestAnswerPasses
  <2>1. verify_presentation_sd(vp, issuer, session[r].nonce, aud[r], now)
    BY HonestL1
  <2>2. vp \in VpToken
    BY DEF IInv, TypeOK
  <2>3. L2_attested(vp, session[r].challenge, ear, quote)
    <3>1. PICK d \in vp.discs : d.name = "ear_status" /\ d.value = "affirming"
      BY DEF HonestAnswer
    <3>2. \A d1, d2 \in vp.discs : d1.name = d2.name => d1 = d2
      <4>1. PICK g \in grants : g.jwt = vp.jwt
        BY HonestL1
      <4>2. vp.discs \subseteq vp.jwt.sd
        BY DEF HonestAnswer, PresentedInv, WalletSigned
      <4> QED
        BY <4>1, <4>2 DEF PresentedInv, GrantsWindowed
    <3>3. Get(Claims(vp), "ear_status", "absent") = "affirming"
      BY <2>2, <3>1, <3>2, DisclosedValue
    <3> QED
      BY <3>3 DEF HonestAnswer, L2_attested
  <2>4. L3_endorser_role(issuer)
    BY DEF HonestAnswer, L3_endorser_role
  <2>5. BaseAccepts(verify(session[r], aud[r], vp, issuer, ear, quote, now))
    BY <2>1, <2>3, <2>4 DEF BaseAccepts, verify
  <2>6. ASSUME aud[r] = AUD, NEW a \in Actions,
               Sealable(a), InScope(vp.jwt, a), Approved(vp.jwt, a)
        PROVE  verify_l4_scope(vp, issuer, session[r].nonce, a, now) = "ok"
    <3>1. PICK g \in grants : g.jwt = vp.jwt /\ SameAction(g.action, a)
      BY <2>6 DEF Approved
    <3>2. vp.jwt.action_hash = action_hash(g.action) /\ action_hash(g.action) = action_hash(a)
      BY <3>1 DEF IInv, GrantsSealed, SameAction, action_hash
    <3>3. Claims(vp).scope = vp.jwt.scope /\ Claims(vp).action_hash = vp.jwt.action_hash
      BY <2>2, ClaimsRegistered
    <3>4. vp.jwt.scope.max_spend \in Int /\ a.amount_eur.floor \in Int
      BY <2>2, PresentationAssumption DEF VpToken, Credential, Action, Amount
    <3> QED
      BY <2>1, <2>6, <3>2, <3>3, <3>4 DEF verify_l4_scope, InScope
  <2>7. ASSUME NEW a \in Actions, verify_l4_scope(vp, issuer, session[r].nonce, a, now) = "ok"
        PROVE  aud[r] = AUD
    BY <2>7 DEF verify_l4_scope, verify_presentation_sd, HolderBound, HonestAnswer
  <2> QED
    BY <2>5, <2>6, <2>7
<1> QED
  BY <1>1, Presented, PTL

-----------------------------------------------------------------------------
(* The refinement of AuthorityGate, action by action.                       *)

LEMMA GateAsk == ASSUME NEW r \in RP, request(r) PROVE Gate!Next
<1>1. PICK n \in Nonce, c \in Challenge :
        /\ \A q \in asked : q.nonce # n /\ q.challenge # c
        /\ asked' = asked \cup {[rp |-> r, nonce |-> n, challenge |-> c, at |-> now]}
  BY DEF request
<1> DEFINE question == [rp |-> r, nonce |-> n]
<1>2. UNCHANGED <<now, Mandates, Executed>>
  BY DEF request, Mandates, Executed
<1>3. Questions' = Questions \cup {question}
  <2>1. PICK q : q = [rp |-> r, nonce |-> n, challenge |-> c, at |-> now]
    OBVIOUS
  <2>2. asked' = asked \cup {q} /\ q.rp = r /\ q.nonce = n
    BY <1>1, <2>1
  <2> HIDE DEF question
  <2>3. Questions' = Questions \cup {[rp |-> q.rp, nonce |-> q.nonce]}
    BY <2>2 DEF Questions
  <2> QED
    BY <2>2, <2>3 DEF question
<1>4. \A p \in Questions : p.nonce # question.nonce
  BY <1>1 DEF Questions
<1>5. Gate!Ask(question)
  BY <1>2, <1>3, <1>4 DEF Gate!Ask
<1>6. question \in Questions'
  BY <1>3
<1> QED
  BY <1>5, <1>6 DEF Gate!Next

LEMMA GateGrant ==
    ASSUME NEW issuer \in Issuer, NEW holder \in Holder, NEW a \in Actions,
           NEW scope \in Scopes, NEW status \in EarStatus,
           Issue(issuer, holder, a, scope, status)
    PROVE  Gate!Next
<1>1. PICK g : grants' = grants \cup {g}
  BY DEF Issue
<1> DEFINE m == [issuer |-> g.jwt.signer, action |-> g.action, scope |-> g.jwt.scope,
                 until |-> g.jwt.exp + Leeway]
<1>2. UNCHANGED <<now, Questions, Executed>>
  BY DEF Issue, Questions, Executed
<1>3. Mandates' = Mandates \cup {m}
  BY <1>1 DEF Mandates
<1>4. Gate!Grant(m) /\ m \in Mandates'
  BY <1>2, <1>3 DEF Gate!Grant
<1> QED
  BY <1>4 DEF Gate!Next

(* What L4 lets through is an execution the gate allows: asked, mandated by *)
(* a credential in force, and on an attestation of this question only.      *)
LEMMA GateExecute ==
    ASSUME NEW r \in RP, NEW a \in Actions, IInv, PresentedInv, VerifyL4(r, a)
    PROVE  Gate!Next \/ UNCHANGED Gate!gateVars
<1>1. PICK p : p = pending[r]
  OBVIOUS
<1>2. PICK d : d = [rp |-> r, vp |-> p.vp, issuer |-> p.issuer, quote |-> p.quote,
                    action |-> a, at |-> now]
  OBVIOUS
<1>3. UNCHANGED <<now, Mandates, Questions>> /\ pending[r] # Nothing
  BY DEF VerifyL4, Mandates, Questions
<1>4. CASE accepted' = accepted
  BY <1>3, <1>4 DEF Gate!gateVars, Executed
<1>5. CASE /\ verify_l4_scope(pending[r].vp, pending[r].issuer, session[r].nonce, a, now) = "ok"
           /\ accepted' = accepted \cup {d}
  <2> DEFINE e == [question |-> [rp |-> r, nonce |-> p.vp.kb.nonce],
                   attestation |-> p.quote.nonce, action |-> a, at |-> now]
  <2>1. PICK q \in asked : q.rp = r /\ q.nonce = p.vp.kb.nonce /\ q.challenge = p.quote.nonce
    BY <1>1, <1>3 DEF IInv, PendingAnswers, OneRequest
  <2>2. e.question \in Questions
    BY <2>1 DEF Questions
  <2>3. \E m \in Mandates : m.issuer \in Gate!Endorsers /\ Gate!Covers(m, a) /\ now < m.until
    <3>1. PICK g \in grants : /\ g.jwt.signer \in Endorsers
                              /\ SameAction(g.action, a) /\ InScope(g.jwt, a)
                              /\ now < g.jwt.exp + Leeway
      BY <1>3, <1>5, L4Mandate
    <3> DEFINE m == [issuer |-> g.jwt.signer, action |-> g.action, scope |-> g.jwt.scope,
                     until |-> g.jwt.exp + Leeway]
    <3>2. m \in Mandates
      BY DEF Mandates
    <3>3. m.issuer \in Gate!Endorsers
      BY <3>1 DEF Endorsers, by_type, AGENT_ENDORSER, Gate!Endorsers, Gate!by_type, Gate!AGENT_ENDORSER
    <3>4. Gate!Covers(m, a)
      BY <3>1 DEF InScope, SameAction, Gate!Covers, Gate!SameAction
    <3> QED
      BY <3>1, <3>2, <3>3, <3>4
  <2>4. \A f \in Executed : (f.question = e.question) <=> (f.attestation = e.attestation)
    <3> SUFFICES ASSUME NEW b \in accepted
                 PROVE  [rp |-> b.rp, nonce |-> b.vp.kb.nonce] = e.question
                          <=> b.quote.nonce = e.attestation
      BY DEF Executed
    <3>1. PICK k \in asked : k.rp = b.rp /\ k.nonce = b.vp.kb.nonce /\ k.challenge = b.quote.nonce
      BY DEF IInv, AcceptedAnswers, OneRequest
    <3> QED
      BY <2>1, <3>1 DEF IInv, RequestsUnique
  <2>5. Executed' = Executed \cup {e}
    BY <1>2, <1>5 DEF Executed
  <2>6. Gate!Execute(e)
    BY <1>3, <2>2, <2>3, <2>4, <2>5 DEF Gate!Execute
  <2> QED
    BY <2>5, <2>6 DEF Gate!Next
<1> QED
  BY <1>1, <1>2, <1>4, <1>5 DEF VerifyL4

LEMMA GateStep == IInv /\ PresentedInv /\ [Next]_vars => [Gate!Next]_(Gate!gateVars)
<1> SUFFICES ASSUME IInv, PresentedInv, [Next]_vars PROVE Gate!Next \/ UNCHANGED Gate!gateVars
  OBVIOUS
<1>1. CASE Tick
  BY <1>1 DEF Tick, Gate!Next, Gate!Tick, Mandates, Questions, Executed
<1>2. CASE UNCHANGED <<now, grants, asked, accepted>>
  BY <1>2 DEF Gate!gateVars, Mandates, Questions, Executed
<1>3. ASSUME NEW g \in grants, NEW holder \in Holder, NEW q \in asked,
             NEW audience \in Audience, NEW reveal \in Reveals,
             Present(g, holder, q, audience, reveal)
      PROVE  UNCHANGED <<now, grants, asked, accepted>>
  BY <1>3 DEF Present
<1>4. ASSUME NEW vp \in wallet, NEW discs \in SUBSET vp.jwt.sd, Reassemble(vp, discs)
      PROVE  UNCHANGED <<now, grants, asked, accepted>>
  BY <1>4 DEF Reassemble
<1>5. ASSUME NEW vp \in wallet, Damage(vp)
      PROVE  UNCHANGED <<now, grants, asked, accepted>>
  BY <1>5 DEF Damage
<1>6. ASSUME NEW q \in asked, NEW st \in EarStatus, Attest(q, st)
      PROVE  UNCHANGED <<now, grants, asked, accepted>>
  BY <1>6 DEF Attest
<1>7. ASSUME NEW r \in RP, NEW vp \in network, NEW issuer \in Issuer,
             NEW ear \in evidence, NEW quote \in evidence, Verify(r, vp, issuer, ear, quote)
      PROVE  UNCHANGED <<now, grants, asked, accepted>>
  BY <1>7 DEF Verify
<1>8. UNCHANGED vars => UNCHANGED <<now, grants, asked, accepted>>
  BY DEF vars
<1> QED
  BY <1>1, <1>2, <1>3, <1>4, <1>5, <1>6, <1>7, <1>8, GateAsk, GateGrant, GateExecute DEF Next

(* MockVerifier.verify followed by verify_l4_scope, with a wallet, a        *)
(* network and a clock around them, implements the abstract gate: it        *)
(* executes only in answer to a question, on a mandate of a listed endorser *)
(* in force that covers the action, one attestation per question.           *)
THEOREM GateRefined == Spec => RefinesGate
<1>1. Init => Gate!Init
  BY DEF Init, Gate!Init, Mandates, Questions, Executed
<1>2. IInv /\ PresentedInv /\ [Next]_vars => [Gate!Next]_(Gate!gateVars)
  BY GateStep
<1> QED
  BY <1>1, <1>2, Presented, PTL DEF Spec, RefinesGate, Gate!Spec
=============================================================================
