-------------------------------- MODULE Gates --------------------------------
(***************************************************************************)
(* The four gates.  L1-L3 are MockVerifier.verify, L4 is verify_l4_scope.   *)
(***************************************************************************)
EXTENDS ActionSeal, Mandate, TrustedList

CONSTANTS AUD       \* the audience verify_l4_scope checks, whoever calls it

(* Mutant: freshness compared with the quote itself (CORRECTION.md).         *)
Bug_L2_attested(vp, challenge, ear, quote) ==
    /\ ear.nonce = quote.nonce /\ ear.status = "affirming"
    /\ Get(Claims(vp), "ear_status", "absent") = ear.status

L2_attested(vp, challenge, ear, quote) ==
    /\ ear.nonce = quote.nonce                                      \* binding
    /\ challenge = quote.nonce                                      \* fresh
    /\ ear.status = "affirming"                                     \* affirming
    /\ Get(Claims(vp), "ear_status", "absent") = ear.status

(* Mutant: any listed certificate will do, whatever its service type.        *)
Bug_L3_endorser_role(issuer) == issuer \in {a.x5t : a \in Anchors}

L3_endorser_role(issuer) == issuer \in Endorsers

(* verify returns at once when L1 fails and evaluates L2 and L3 otherwise.  *)
verify(session, aud, vp, issuer, ear, quote, now) ==
    LET L1 == verify_presentation_sd(vp, issuer, session.nonce, aud, now) IN
    [L1 |-> L1,
     L2 |-> L1 /\ L2_attested(vp, session.challenge, ear, quote),
     L3 |-> L1 /\ L3_endorser_role(issuer)]

BaseAccepts(gates) == gates.L1 /\ gates.L2 /\ gates.L3

(* Mutant: the seal of the executed action is not compared.                  *)
Bug_verify_l4_scope(vp, issuer, nonce, action, now) ==
    IF ~verify_presentation_sd(vp, issuer, nonce, AUD, now) THEN "raised"
    ELSE IF action.tool \notin Claims(vp).scope.allowed_actions THEN "not allowed"
    ELSE IF action.amount_eur.floor > Claims(vp).scope.max_spend THEN "spend limit"
    ELSE "ok"

(* Mutant: the tool is looked up in NFC, like the seal.                      *)
Bug_verify_l4_scope_nfc(vp, issuer, nonce, action, now) ==
    LET claims == Claims(vp) IN
    IF ~verify_presentation_sd(vp, issuer, nonce, AUD, now) THEN "raised"
    ELSE IF ~Sealable(action) \/ claims.action_hash # action_hash(action) THEN "hash mismatch"
    ELSE IF nfc[action.tool] \notin claims.scope.allowed_actions THEN "not allowed"
    ELSE IF action.amount_eur.floor > claims.scope.max_spend THEN "spend limit"
    ELSE "ok"

(* The exits of verify_l4_scope, in the order of the code: the exception of *)
(* the second verification, the three denials, acceptance.                  *)
verify_l4_scope(vp, issuer, nonce, action, now) ==
    LET claims == Claims(vp) IN
    IF ~verify_presentation_sd(vp, issuer, nonce, AUD, now) THEN "raised"
    ELSE IF ~Sealable(action) THEN "malformed"
    ELSE IF claims.action_hash # action_hash(action) THEN "hash mismatch"
    ELSE IF action.tool \notin claims.scope.allowed_actions THEN "not allowed"
    ELSE IF action.amount_eur.floor > claims.scope.max_spend THEN "spend limit"
    ELSE "ok"
=============================================================================
