---------------------------- MODULE Presentation ----------------------------
(***************************************************************************)
(* Relying parties (MockVerifier objects), one wallet, one attester and a   *)
(* network between them.  A relying party asks (request), the issuer grants *)
(* a credential over an action, the holder presents it, the attester quotes *)
(* the challenge; the relying party verifies L1-L3 and then L4.  Nothing in *)
(* the code orders these calls across sessions: answers may arrive late, at *)
(* another relying party, twice, altered or never, and a relying party may  *)
(* ask again at any point, which overwrites its nonce and its challenge.    *)
(***************************************************************************)
EXTENDS Gates, FiniteSets

CONSTANTS
    RP, Holder, Nonce, Challenge, Salt, Audience,
    aud,            \* rp.aud: the audience each relying party asks for
    StaleChallenge, \* the challenge of a session that ended long ago
    NoNonce,        \* Python's None, before the first request
    Nothing,        \* no verification is between L3 and L4
    Actions,        \* the actions that are mandated or executed
    Scopes,         \* the scope objects put into credentials
    EarStatus,      \* the values of ear_status
    Reveals,        \* the sets of claim names the wallet reveals
    MaxTime, MaxPresentations, MaxAltered, MaxEvidence, MaxAccepted  \* bounds

SdName == {"principal", "ear_status"}
SdValue == EarStatus \cup {"P"}

ASSUME PresentationAssumption ==
    /\ Actions \subseteq Action
    /\ Scopes \subseteq [allowed_actions : SUBSET Text, max_spend : Int]
    /\ aud \in [RP -> Audience] /\ AUD \in Audience
    /\ StaleChallenge \notin Challenge
    /\ NoNonce \notin Nonce \cup Challenge \cup {StaleChallenge}
    /\ Broken \notin Issuer \cup Holder
    /\ Issuer \cap Holder = {}
    /\ Reveals \subseteq SUBSET SdName
    /\ "affirming" \in EarStatus
    /\ MaxTime \in Nat /\ MaxPresentations \in Nat /\ MaxAltered \in Nat
    /\ MaxEvidence \in Nat /\ MaxAccepted \in Nat

VARIABLES
    now,            \* the wall clock, one for every party (all run on one host)
    session,        \* the nonce and the challenge each relying party holds now
    asked,          \* history: every request sent
    grants,         \* history: credentials issued, with the action approved
    wallet,         \* history: presentations the wallet made
    network,        \* presentations in transit, never removed
    evidence,       \* attestation results in circulation: quote and EAR files
    pending,        \* the token that passed L1-L3 and waits for L4, with its evidence
    accepted        \* history: executions all four gates let through

vars == <<now, session, asked, grants, wallet, network, evidence, pending, accepted>>

-----------------------------------------------------------------------------
(* Types.                                                                   *)
Time == Nat
Session == [nonce : Nonce \cup {NoNonce}, challenge : Challenge \cup {NoNonce}]
Request == [rp : RP, nonce : Nonce, challenge : Challenge, at : Time]
Disclosure == [salt : Salt, name : SdName, value : SdValue]
Credential ==
    [signer : Issuer \cup {Broken}, scope : Scopes, action_hash : Seal, cnf : Holder,
     iat : Time, exp : Time, jti : {"m-1"}, sd : SUBSET Disclosure]
Grant == [action : Actions, jwt : Credential]
KbJwt ==
    [signer : Holder, iat : Time, aud : Audience, nonce : Nonce,
     sd_hash : Credential \X SUBSET Disclosure]
VpToken == [jwt : Credential, discs : SUBSET Disclosure, kb : KbJwt]
Evidence == [nonce : Challenge \cup {StaleChallenge}, status : EarStatus, at : Time]
Pending == [vp : VpToken, issuer : Issuer, quote : Evidence]
Acceptance ==
    [rp : RP, vp : VpToken, issuer : Issuer, quote : Evidence, action : Actions, at : Time]

ASSUME NothingAssumption == Nothing \notin Pending

(* Every variable has its type: credentials, presentations and evidence     *)
(* keep the shape the Python dictionaries have.                     *)
TypeOK ==
    /\ now \in Time
    /\ session \in [RP -> Session]
    /\ asked \subseteq Request
    /\ grants \subseteq Grant
    /\ wallet \subseteq VpToken
    /\ network \subseteq VpToken
    /\ evidence \subseteq Evidence
    /\ pending \in [RP -> Pending \cup {Nothing}]
    /\ accepted \subseteq Acceptance

-----------------------------------------------------------------------------
Init ==
    /\ now = 0
    /\ session = [r \in RP |-> [nonce |-> NoNonce, challenge |-> NoNonce]]
    /\ asked = {}
    /\ grants = {}
    /\ wallet = {}
    /\ network = {}
    /\ evidence = {[nonce |-> StaleChallenge, status |-> "affirming", at |-> 0]}
    /\ pending = [r \in RP |-> Nothing]
    /\ accepted = {}

Tick ==
    /\ now < MaxTime
    /\ now' = now + 1
    /\ UNCHANGED <<session, asked, grants, wallet, network, evidence, pending, accepted>>

(* Mutant: the challenge is drawn for the first request only.               *)
Bug_request(r) ==
    \E n \in Nonce, c \in Challenge :
        /\ \A q \in asked : q.nonce # n /\ q.challenge # c
        /\ session' = [session EXCEPT ![r] = [nonce |-> n,
                challenge |-> IF @.challenge = NoNonce THEN c ELSE @.challenge]]
        /\ asked' = asked \cup {[rp |-> r, nonce |-> n, challenge |-> c, at |-> now]}
        /\ UNCHANGED <<now, grants, wallet, network, evidence, pending, accepted>>

(* MockVerifier.request: a fresh random nonce and challenge replace those   *)
(* the relying party held, answered or not.                                 *)
request(r) ==
    \E n \in Nonce, c \in Challenge :
        /\ \A q \in asked : q.nonce # n /\ q.challenge # c
        /\ session' = [session EXCEPT ![r] = [nonce |-> n, challenge |-> c]]
        /\ asked' = asked \cup {[rp |-> r, nonce |-> n, challenge |-> c, at |-> now]}
        /\ UNCHANGED <<now, grants, wallet, network, evidence, pending, accepted>>

(* issue_action_mandate, its first half: the issuer seals and signs the     *)
(* approved action.  An action that cannot be sealed raises: no credential. *)
Issue(issuer, holder, a, scope, status) ==
    \E salt \in Salt :
        /\ Sealable(a)
        /\ \A g \in grants : \A d \in g.jwt.sd : d.salt # salt
        /\ LET sd_claims == [principal |-> "P", ear_status |-> status]
               jwt == issue_sd(issuer, scope, action_hash(a), holder, sd_claims, salt, now)
           IN grants' = grants \cup {[action |-> a, jwt |-> jwt]}
        /\ UNCHANGED <<now, session, asked, wallet, network, evidence, pending, accepted>>

(* present_sd: whoever holds the credential and a holder key answers a      *)
(* request that was sent, revealing some of the claims.  The audience is an *)
(* argument: that of the relying party that asked, or of another.           *)
Present(g, holder, q, audience, reveal) ==
    /\ Cardinality(wallet) < MaxPresentations
    /\ LET vp == present_sd(g.jwt, holder, q.nonce, audience, reveal, now)
       IN /\ wallet' = wallet \cup {vp}
          /\ network' = network \cup {vp}
    /\ UNCHANGED <<now, session, asked, grants, evidence, pending, accepted>>

(* The network alters a presentation: other disclosures of the credential   *)
(* are attached, or the issuer's signature is damaged (run_ablation.py,     *)
(* forged_credential).                                                      *)
Reassemble(vp, discs) ==
    /\ Cardinality(network \ wallet) < MaxAltered
    /\ network' = network \cup {[vp EXCEPT !.discs = discs]}
    /\ UNCHANGED <<now, session, asked, grants, wallet, evidence, pending, accepted>>

Damage(vp) ==
    /\ Cardinality(network \ wallet) < MaxAltered
    /\ network' = network \cup {[vp EXCEPT !.jwt.signer = Broken]}
    /\ UNCHANGED <<now, session, asked, grants, wallet, evidence, pending, accepted>>

(* rebind_evidence: a quote and an EAR over the challenge of some request.  *)
Attest(q, status) ==
    /\ Cardinality(evidence) < MaxEvidence
    /\ evidence' = evidence \cup {[nonce |-> q.challenge, status |-> status, at |-> now]}
    /\ UNCHANGED <<now, session, asked, grants, wallet, network, pending, accepted>>

(* MockVerifier.verify with session_nonce = rp.challenge.  It reads the     *)
(* session and consumes nothing: a token it denies leaves no trace.         *)
Verify(r, vp, issuer, ear, quote) ==
    LET gates == verify(session[r], aud[r], vp, issuer, ear, quote, now) IN
    /\ pending' = [pending EXCEPT ![r] =
           IF BaseAccepts(gates) THEN [vp |-> vp, issuer |-> issuer, quote |-> quote] ELSE Nothing]
    /\ UNCHANGED <<now, session, asked, grants, wallet, network, evidence, accepted>>

(* verify_l4_scope, called by evaluate and run_case once L1-L3 passed, with *)
(* the same token and issuer but the nonce the session holds at that time   *)
(* and the action about to be executed.                                     *)
VerifyL4(r, a) ==
    /\ pending[r] # Nothing
    /\ Cardinality(accepted) < MaxAccepted
    /\ LET p == pending[r]
           outcome == verify_l4_scope(p.vp, p.issuer, session[r].nonce, a, now)
       IN accepted' =
              IF outcome = "ok"
              THEN accepted \cup {[rp |-> r, vp |-> p.vp, issuer |-> p.issuer,
                                   quote |-> p.quote, action |-> a, at |-> now]}
              ELSE accepted
    /\ pending' = [pending EXCEPT ![r] = Nothing]
    /\ UNCHANGED <<now, session, asked, grants, wallet, network, evidence>>

Next ==
    \/ Tick
    \/ \E r \in RP : request(r)
    \/ \E issuer \in Issuer, holder \in Holder, a \in Actions, s \in Scopes, st \in EarStatus :
          Issue(issuer, holder, a, s, st)
    \/ \E g \in grants, holder \in Holder, q \in asked, audience \in Audience, reveal \in Reveals :
          Present(g, holder, q, audience, reveal)
    \/ \E vp \in wallet : \E discs \in SUBSET vp.jwt.sd : Reassemble(vp, discs)
    \/ \E vp \in wallet : Damage(vp)
    \/ \E q \in asked, st \in EarStatus : Attest(q, st)
    \/ \E r \in RP, vp \in network, issuer \in Issuer, ear, quote \in evidence :
          Verify(r, vp, issuer, ear, quote)
    \/ \E r \in RP, a \in Actions : VerifyL4(r, a)

Spec == Init /\ [][Next]_vars

-----------------------------------------------------------------------------
(* Safety.                                                                  *)

(* An execution answers one question: the presentation was signed for, and  *)
(* the quote taken over, the nonce and the challenge of the same request of *)
(* the same relying party, both after it was sent, and the presentation was *)
(* signed for the audience of that relying party -- although the session    *)
(* may be overwritten between verify and verify_l4_scope, and the latter    *)
(* looks for the constant AUD.                                              *)
AnswersOneRequest ==
    \A d \in accepted : \E q \in asked :
        /\ q.rp = d.rp
        /\ q.nonce = d.vp.kb.nonce
        /\ q.challenge = d.quote.nonce
        /\ d.vp.kb.aud = aud[d.rp]
        /\ q.at <= d.vp.kb.iat /\ d.vp.kb.iat <= d.at
        /\ q.at <= d.quote.at /\ d.quote.at <= d.at

(* No replay across sessions: neither a presentation nor a quote that was   *)
(* accepted for one request is accepted for another, here or elsewhere.     *)
NoReplay ==
    \A d1, d2 \in accepted :
        d1.vp = d2.vp \/ d1.quote.nonce = d2.quote.nonce
            => d1.rp = d2.rp /\ d1.vp.kb.nonce = d2.vp.kb.nonce

InScope(jwt, a) ==
    a.tool \in jwt.scope.allowed_actions /\ a.amount_eur.floor <= jwt.scope.max_spend

(* The executed action is one that a listed endorser approved in this very  *)
(* credential, up to NFC and to the cent, inside the credential's scope.    *)
ExecutedActionWasMandated ==
    \A d \in accepted : \E g \in grants :
        /\ g.jwt = d.vp.jwt
        /\ g.jwt.signer \in Endorsers
        /\ SameAction(g.action, d.action)
        /\ InScope(g.jwt, d.action)

(* What all four gates accept is a presentation the wallet made, with the   *)
(* disclosures the holder chose, under the key the credential is bound to.  *)
AcceptedAsPresented ==
    \A d \in accepted : d.vp \in wallet /\ d.vp.kb.signer = d.vp.jwt.cnf

(* No execution outlives the mandate: the credential is still valid, within *)
(* the leeway, when L4 ends, however long ago L1 was.                       *)
ExecutedWithinLifetime ==
    \A d \in accepted :
        /\ d.vp.jwt.iat <= d.at + Leeway
        /\ d.at < d.vp.jwt.iat + Ttl + Leeway

(* Completeness: an unaltered presentation that its holder made for the     *)
(* live request, with affirming evidence over its challenge and from an     *)
(* endorser, passes L1-L3 while the credential is valid, whatever the       *)
(* audience of the relying party.  L4 then lets every encoding of the       *)
(* approved action through that the scope allows byte for byte, exactly at  *)
(* the relying parties whose audience is the one verify_l4_scope insists on.*)
HonestAnswer(r, vp, issuer, ear, quote) ==
    /\ vp \in wallet
    /\ vp.kb.nonce = session[r].nonce /\ vp.kb.aud = aud[r]
    /\ vp.kb.signer = vp.jwt.cnf
    /\ issuer = vp.jwt.signer /\ issuer \in Endorsers
    /\ ear.nonce = session[r].challenge /\ quote.nonce = session[r].challenge
    /\ ear.status = "affirming"
    /\ \E d \in vp.discs : d.name = "ear_status" /\ d.value = "affirming"
    /\ now < vp.jwt.exp + Leeway

Approved(jwt, a) == \E g \in grants : g.jwt = jwt /\ SameAction(g.action, a)

HonestAnswerPasses ==
    \A r \in RP, vp \in network, issuer \in Issuer, ear, quote \in evidence :
        HonestAnswer(r, vp, issuer, ear, quote) =>
            /\ BaseAccepts(verify(session[r], aud[r], vp, issuer, ear, quote, now))
            /\ \A a \in Actions :
                  Sealable(a) /\ InScope(vp.jwt, a) /\ Approved(vp.jwt, a) =>
                      (verify_l4_scope(vp, issuer, session[r].nonce, a, now) = "ok" <=> aud[r] = AUD)

(* deps/mandate.py:4 says the credential carries "a single-use jti": one    *)
(* credential would then be executed at most once.                          *)
SingleUseJti ==
    \A d1, d2 \in accepted : d1.vp.jwt = d2.vp.jwt => d1 = d2
=============================================================================
