-------------------------- MODULE PresentationInv --------------------------
(***************************************************************************)
(* The inductive invariant of Presentation, in named parts: what ties an    *)
(* execution back to the request, the presentation, the quote and the       *)
(* credential it came from.                                                 *)
(***************************************************************************)
EXTENDS GateRefinement

(* A request is identified by its nonce and by its challenge.               *)
RequestsUnique ==
    \A q1, q2 \in asked :
        q1.nonce = q2.nonce \/ q1.challenge = q2.challenge => q1 = q2

RequestsPast == \A q \in asked : q.at <= now

(* A session is the one before the first request or the last request.       *)
SessionWasAsked ==
    \A r \in RP :
        \/ session[r] = [nonce |-> NoNonce, challenge |-> NoNonce]
        \/ \E q \in asked :
              q.rp = r /\ q.nonce = session[r].nonce /\ q.challenge = session[r].challenge

(* A KB-JWT was signed after the request whose nonce it carries ...         *)
KbAnswers(kb) ==
    \E q \in asked : q.nonce = kb.nonce /\ q.at <= kb.iat /\ kb.iat <= now

(* ... and a quote taken after the request whose challenge it is over.      *)
QuoteAnswers(e) ==
    \/ e.nonce = StaleChallenge
    \/ \E q \in asked : q.challenge = e.nonce /\ q.at <= e.at /\ e.at <= now

AnswersFollow ==
    /\ \A vp \in wallet \cup network : KbAnswers(vp.kb)
    /\ \A e \in evidence : QuoteAnswers(e)

(* The token between L3 and L4 answers one request of its relying party and *)
(* was signed for its audience.                                             *)
OneRequest(r, vp, quote) ==
    /\ vp.kb.aud = aud[r]
    /\ \E q \in asked : q.rp = r /\ q.nonce = vp.kb.nonce /\ q.challenge = quote.nonce

PendingAnswers ==
    \A r \in RP : pending[r] # Nothing =>
        /\ pending[r].vp \in network
        /\ pending[r].quote \in evidence
        /\ pending[r].issuer \in Endorsers
        /\ OneRequest(r, pending[r].vp, pending[r].quote)

AcceptedAnswers ==
    \A d \in accepted :
        /\ d.vp \in network
        /\ d.quote \in evidence
        /\ OneRequest(d.rp, d.vp, d.quote)
        /\ d.vp.kb.iat <= d.at /\ d.quote.at <= d.at /\ d.at <= now

(* A credential carries the seal of the action that was approved ...        *)
GrantsSealed ==
    \A g \in grants :
        Sealable(g.action) /\ g.jwt.action_hash = action_hash(g.action)

(* ... and a token that any key verifies carries a credential as issued.    *)
TokensGranted ==
    \A vp \in wallet \cup network :
        vp.jwt.signer = Broken \/ \E g \in grants : g.jwt = vp.jwt

IInv ==
    /\ TypeOK
    /\ RequestsUnique /\ RequestsPast
    /\ SessionWasAsked
    /\ AnswersFollow
    /\ PendingAnswers
    /\ AcceptedAnswers
    /\ GrantsSealed /\ TokensGranted
    /\ ExecutedActionWasMandated

-----------------------------------------------------------------------------
(* What IInv leaves out and the token itself adds, inductive beside it.     *)

(* A credential was issued in the past, for Ttl, and discloses each of its  *)
(* claims once.                                                             *)
GrantsWindowed ==
    \A g \in grants :
        /\ g.jwt.iat <= now
        /\ g.jwt.exp = g.jwt.iat + Ttl
        /\ \A d1, d2 \in g.jwt.sd : d1.name = d2.name => d1 = d2

(* The wallet signs what it sends.                                          *)
WalletSigned ==
    \A w \in wallet :
        /\ w.discs \subseteq w.jwt.sd
        /\ w.kb.sd_hash = SdHash(w.jwt, w.discs)

(* The network makes no KB-JWT of its own.                                  *)
KbsFromWallet ==
    \A vp \in network : \E w \in wallet : w.kb = vp.kb

PresentedInv ==
    /\ GrantsWindowed
    /\ WalletSigned
    /\ KbsFromWallet
    /\ AcceptedAsPresented
    /\ ExecutedWithinLifetime
=============================================================================
