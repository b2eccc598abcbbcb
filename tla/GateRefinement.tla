--------------------------- MODULE GateRefinement ---------------------------
(***************************************************************************)
(* Presentation implements AuthorityGate: credentials are mandates in force *)
(* for their lifetime and the leeway, requests are questions.               *)
(***************************************************************************)
EXTENDS Presentation

Mandates ==
    {[issuer |-> g.jwt.signer, action |-> g.action, scope |-> g.jwt.scope,
      until |-> g.jwt.exp + Leeway] : g \in grants}

Questions == {[rp |-> q.rp, nonce |-> q.nonce] : q \in asked}

Executed ==
    {[question |-> [rp |-> d.rp, nonce |-> d.vp.kb.nonce],
      attestation |-> d.quote.nonce, action |-> d.action, at |-> d.at] : d \in accepted}

Gate == INSTANCE AuthorityGate WITH
            clock <- now, mandates <- Mandates, questions <- Questions, executed <- Executed

(* Every behaviour of the relying parties, the wallet, the attester and the *)
(* network is one of the abstract gate: MockVerifier.verify followed by     *)
(* verify_l4_scope executes only what the gate would.                       *)
RefinesGate == Gate!Spec
=============================================================================
