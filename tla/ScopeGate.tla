------------------------------ MODULE ScopeGate ------------------------------
(***************************************************************************)
(* The L4 of src/scope_enforce.py: an act is identified by the hash of its  *)
(* id and outcome; the scope of a credential lists allowed ids, the hashes  *)
(* of pre-authorised acts and a spend limit.                                *)
(***************************************************************************)
EXTENDS Gates

CONSTANTS Outcome   \* outcome digests of an act

(* H({action_id, outcome}) over the NFC form of its text.                   *)
action_hash_of(action_id, outcome) == [action_id |-> nfc[action_id], outcome |-> outcome]
ActHash == [action_id : Text, outcome : Outcome]

ScopeObject == [allowed_actions : SUBSET Text, action_commitments : SUBSET ActHash, max_spend : Int]

(* Python's int(): a fraction is cut off towards zero; what it refuses has  *)
(* the type "other" here.                                                   *)
Int_(v) == IF v.frac /\ v.floor < 0 THEN v.floor + 1 ELSE v.floor

(* Mutants: any committed act will do, minted for or not; the act's hash is *)
(* compared, membership among the commitments not.                          *)
Bug_Committed_any(claims, req) ==
    /\ req.action_id \in claims.scope.allowed_actions
    /\ action_hash_of(req.action_id, req.outcome) \in claims.scope.action_commitments
Bug_Committed(claims, req) ==
    /\ req.action_id \in claims.scope.allowed_actions
    /\ action_hash_of(req.action_id, req.outcome) = claims.action_hash

(* The four conditions of L4.                                               *)
Committed(claims, req) ==
    LET req_hash == action_hash_of(req.action_id, req.outcome)
    IN /\ req.action_id \in claims.scope.allowed_actions
       /\ req_hash = claims.action_hash
       /\ req_hash \in claims.scope.action_commitments

WithinLimit(claims, req) == Int_(req.amount) <= claims.scope.max_spend

(* L4_in_scope, if the claims can be recovered a second time.               *)
L4_in_scope(vp, issuer, nonce, req, now) ==
    /\ verify_presentation_sd(vp, issuer, nonce, AUD, now)
    /\ Committed(Claims(vp), req)
    /\ WithinLimit(Claims(vp), req)

(* int() of an amount that is no number raises, but only once the claims    *)
(* are recovered.                                                           *)
AmountRaises(vp, issuer, nonce, req, now) ==
    /\ verify_presentation_sd(vp, issuer, nonce, AUD, now)
    /\ req.amount.type = "other"

(* verify_scoped's verdict on the base gates: L4 can revoke it, never grant *)
(* it.                                                                      *)
verify_scoped(gates, vp, issuer, nonce, req, now) ==
    IF AmountRaises(vp, issuer, nonce, req, now) THEN "raised"
    ELSE IF BaseAccepts(gates) /\ L4_in_scope(vp, issuer, nonce, req, now) THEN "ACCEPT"
    ELSE "DENY"
=============================================================================
