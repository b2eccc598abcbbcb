------------------------------- MODULE Mandate -------------------------------
(***************************************************************************)
(* The machine-mandate credential, deps/mandate.py: an issuer-signed JWT    *)
(* whose selected claims travel as salted disclosures, presented under a    *)
(* holder-signed KB-JWT.  A signature is the name of the key that made it;  *)
(* a hash is the value hashed; random salts make two issuances distinct.    *)
(***************************************************************************)
EXTENDS Integers

CONSTANTS
    Ttl,        \* lifetime of a credential
    Leeway,     \* clock leeway of every jwt.decode
    Broken      \* the signer of a JWT whose signature verifies under no key

ASSUME MandateAssumption == Ttl \in Nat /\ Leeway \in Nat

make_disclosure(salt, name, value) == [salt |-> salt, name |-> name, value |-> value]

(* Every caller but the mint of the run credential leaves jti at its        *)
(* default.                                                                 *)
issue_sd(issuer, scope, hash, holder, sd_claims, salt, now) ==
    [signer |-> issuer, scope |-> scope, action_hash |-> hash, cnf |-> holder,
     iat |-> now, exp |-> now + Ttl, jti |-> "m-1",
     sd |-> {make_disclosure(salt, k, sd_claims[k]) : k \in DOMAIN sd_claims}]

SdHash(jwt, discs) == <<jwt, discs>>

(* Mutants: the KB-JWT signed with the issuer key; the hash taken over all   *)
(* disclosures instead of the chosen ones.                                  *)
Bug_present_sd_key(jwt, holder, nonce, aud, reveal, now) ==
    LET chosen == {d \in jwt.sd : d.name \in reveal} IN
    [jwt |-> jwt, discs |-> chosen,
     kb |-> [signer |-> jwt.signer, iat |-> now, aud |-> aud, nonce |-> nonce,
             sd_hash |-> SdHash(jwt, chosen)]]

Bug_present_sd_hash(jwt, holder, nonce, aud, reveal, now) ==
    [jwt |-> jwt, discs |-> {d \in jwt.sd : d.name \in reveal},
     kb |-> [signer |-> holder, iat |-> now, aud |-> aud, nonce |-> nonce,
             sd_hash |-> SdHash(jwt, jwt.sd)]]

present_sd(jwt, holder, nonce, aud, reveal, now) ==
    LET chosen == {d \in jwt.sd : d.name \in reveal} IN
    [jwt |-> jwt, discs |-> chosen,
     kb |-> [signer |-> holder, iat |-> now, aud |-> aud, nonce |-> nonce,
             sd_hash |-> SdHash(jwt, chosen)]]

(* The claims the verifier works with: the signed ones, overlaid with the   *)
(* disclosed ones; a name nobody disclosed is not in the domain.            *)
Claims(vp) ==
    LET disclosed == {d.name : d \in vp.discs} IN
    [k \in (DOMAIN vp.jwt \cup disclosed) \ {"sd"} |->
        IF k \in disclosed THEN (CHOOSE d \in vp.discs : d.name = k).value ELSE vp.jwt[k]]

Get(claims, name, default) == IF name \in DOMAIN claims THEN claims[name] ELSE default

(* jwt.decode (PyJWT): the signature, then iat, then exp, each with leeway. *)
SignedBy(jwt, key) == jwt.signer = key
NotFromFuture(jwt, now) == jwt.iat <= now + Leeway
NotExpired(jwt, now) == jwt.exp > now - Leeway

(* Mutants: the expiry is not checked; the leeway is not granted.            *)
Bug_IssuerSigned_exp(vp, issuer, now) ==
    SignedBy(vp.jwt, issuer) /\ NotFromFuture(vp.jwt, now)
Bug_IssuerSigned_leeway(vp, issuer, now) ==
    SignedBy(vp.jwt, issuer) /\ vp.jwt.iat <= now /\ vp.jwt.exp > now

IssuerSigned(vp, issuer, now) ==
    SignedBy(vp.jwt, issuer) /\ NotFromFuture(vp.jwt, now) /\ NotExpired(vp.jwt, now)

(* Mutants: the nonce of the request, the audience, or the hash of the       *)
(* disclosures is not compared.                                             *)
Bug_HolderBound_nonce(vp, nonce, aud, now) ==
    /\ SignedBy(vp.kb, Claims(vp).cnf) /\ NotFromFuture(vp.kb, now)
    /\ vp.kb.aud = aud /\ vp.kb.sd_hash = SdHash(vp.jwt, vp.discs)
Bug_HolderBound_aud(vp, nonce, aud, now) ==
    /\ SignedBy(vp.kb, Claims(vp).cnf) /\ NotFromFuture(vp.kb, now)
    /\ vp.kb.nonce = nonce /\ vp.kb.sd_hash = SdHash(vp.jwt, vp.discs)
Bug_HolderBound_hash(vp, nonce, aud, now) ==
    /\ SignedBy(vp.kb, Claims(vp).cnf) /\ NotFromFuture(vp.kb, now)
    /\ vp.kb.nonce = nonce /\ vp.kb.aud = aud

HolderBound(vp, nonce, aud, now) ==
    /\ SignedBy(vp.kb, Claims(vp).cnf)
    /\ NotFromFuture(vp.kb, now)
    /\ vp.kb.nonce = nonce /\ vp.kb.aud = aud
    /\ vp.kb.sd_hash = SdHash(vp.jwt, vp.discs)

(* TRUE when verify_presentation_sd returns (its value is Claims(vp)),      *)
(* FALSE when it raises.                                                    *)
verify_presentation_sd(vp, issuer, nonce, aud, now) ==
    /\ IssuerSigned(vp, issuer, now)
    /\ vp.discs \subseteq vp.jwt.sd
    /\ HolderBound(vp, nonce, aud, now)
=============================================================================
