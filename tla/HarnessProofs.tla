---------------------------- MODULE HarnessProofs ----------------------------
(***************************************************************************)
(* One run of a harness, proved for every call, action, scope and clock:    *)
(* RunInv is inductive, and at the end of a run it says that an acceptance  *)
(* is sound and that the gate which denies names the cause.                 *)
(***************************************************************************)
EXTENDS HarnessInv, TLAPS

-----------------------------------------------------------------------------
LEMMA CallersIssue ==
    /\ {Listed, OtherRole, Unlisted} \subseteq Issuer
    /\ Listed \in Endorsers /\ OtherRole \notin Endorsers /\ Unlisted \notin Endorsers
BY HarnessAssumption, AnchorsAssumption DEF Endorsers, by_type

(* What the token of a run carries, signed and disclosed.                   *)
LEMMA TokenSigned ==
    ASSUME NEW r, NEW s, NEW issued, r.harness # "forged_credential"
    PROVE  LET tok == Token(r, s, issued)
           IN /\ tok.jwt.signer = r.issuer /\ tok.jwt.iat = issued
              /\ tok.jwt.exp = issued + Ttl
              /\ tok.kb.signer = Holder /\ tok.kb.iat = issued
              /\ tok.kb.nonce = s.nonce /\ tok.kb.aud = AUD
              /\ tok.kb.sd_hash = SdHash(tok.jwt, tok.discs)
              /\ tok.discs \subseteq tok.jwt.sd
BY DEF Token, issue_sd, present_sd

LEMMA TokenForged ==
    ASSUME NEW r, NEW s, NEW issued, r.harness = "forged_credential"
    PROVE  /\ Token(r, s, issued).jwt.signer = Broken
           /\ Token(r, s, issued).jwt.exp = issued + Ttl
BY DEF Token, issue_sd, present_sd

(* The claims a verifier works with are those the run was started with.     *)
LEMMA TokenClaims ==
    ASSUME NEW r, NEW s, NEW issued, r.harness # "forged_credential"
    PROVE  LET claims == Claims(Token(r, s, issued))
           IN /\ claims.cnf = Holder
              /\ claims.scope = ScopeOf(r)
              /\ claims.action_hash = HashOf(r)
              /\ Get(claims, "ear_status", "absent") = SdClaims(r).ear_status
PROOF
  <1> DEFINE jwt == issue_sd(r.issuer, ScopeOf(r), HashOf(r), Holder, SdClaims(r), "salt", issued)
             tok == present_sd(jwt, Holder, s.nonce, AUD, DOMAIN SdClaims(r), issued)
             discs == {make_disclosure("salt", k, SdClaims(r)[k]) : k \in DOMAIN SdClaims(r)}
  <1>1. Token(r, s, issued) = tok
    BY DEF Token
  <1>2. DOMAIN SdClaims(r) = {"principal", "ear_status"}
    BY DEF SdClaims
  <1>3. jwt.sd = discs
    BY DEF issue_sd
  <1>4. /\ DOMAIN jwt = {"signer", "scope", "action_hash", "cnf", "iat", "exp", "jti", "sd"}
        /\ jwt.scope = ScopeOf(r) /\ jwt.action_hash = HashOf(r) /\ jwt.cnf = Holder
    BY DEF issue_sd
  <1> HIDE DEF jwt
  <1>5. /\ tok.jwt = jwt
        /\ tok.discs = {d \in discs : d.name \in DOMAIN SdClaims(r)}
    BY <1>3 DEF present_sd
  <1> HIDE DEF tok
  <1>6. /\ {d.name : d \in tok.discs} = {"principal", "ear_status"}
        /\ \A d \in tok.discs : d.name = "ear_status" => d.value = SdClaims(r).ear_status
    <2>1. \A d \in discs : \E k \in DOMAIN SdClaims(r) :
              d.name = k /\ d.value = SdClaims(r)[k]
      BY DEF make_disclosure
    <2>2. \A k \in DOMAIN SdClaims(r) : \E d \in discs : d.name = k
      <3>1. \A k \in DOMAIN SdClaims(r) :
                /\ make_disclosure("salt", k, SdClaims(r)[k]) \in discs
                /\ make_disclosure("salt", k, SdClaims(r)[k]).name = k
        BY DEF make_disclosure
      <3> HIDE DEF discs
      <3>2. QED
        BY <3>1
    <2> HIDE DEF discs
    <2>3. tok.discs = discs
      BY <1>5, <2>1
    <2>4. QED
      BY <1>2, <2>1, <2>2, <2>3
  <1>7. PICK d \in tok.discs : d.name = "ear_status"
    BY <1>6
  <1>8. (CHOOSE e \in tok.discs : e.name = "ear_status").value = SdClaims(r).ear_status
    <2> DEFINE chosen == CHOOSE e \in tok.discs : e.name = "ear_status"
    <2>1. chosen \in tok.discs /\ chosen.name = "ear_status"
      BY <1>7
    <2> HIDE DEF chosen
    <2>2. chosen.value = SdClaims(r).ear_status
      BY <1>6, <2>1
    <2>3. QED
      BY <2>2 DEF chosen
  <1>9. Claims(tok) = [k \in ({"signer", "scope", "action_hash", "cnf", "iat", "exp", "jti", "sd"}
                                \cup {"principal", "ear_status"}) \ {"sd"} |->
                          IF k \in {"principal", "ear_status"}
                          THEN (CHOOSE e \in tok.discs : e.name = k).value ELSE jwt[k]]
    BY <1>4, <1>5, <1>6 DEF Claims
  <1>10. /\ Claims(tok).cnf = Holder /\ Claims(tok).scope = ScopeOf(r)
         /\ Claims(tok).action_hash = HashOf(r)
    BY <1>4, <1>9
  <1>11. Get(Claims(tok), "ear_status", "absent") = SdClaims(r).ear_status
    BY <1>8, <1>9 DEF Get
  <1>12. QED
    BY <1>1, <1>10, <1>11

(* L1 of the token of a run, at any later time: it verifies exactly if the  *)
(* harness did not break its signature and it has not expired.              *)
LEMMA TokenVerifies ==
    ASSUME NEW r, WellCalled(r), NEW s, NEW time \in Nat, NEW issued \in 0 .. time
    PROVE  verify_presentation_sd(Token(r, s, issued), r.issuer, s.nonce, AUD, time) <=>
              r.harness # "forged_credential"
              /\ ~(time >= Token(r, s, issued).jwt.exp + Leeway)
PROOF
  <1>1. CASE r.harness = "forged_credential"
    <2>1. Token(r, s, issued).jwt.signer # r.issuer
      BY <1>1, TokenForged, CallersIssue, HarnessAssumption DEF WellCalled
    <2>2. QED
      BY <1>1, <2>1 DEF verify_presentation_sd, IssuerSigned, SignedBy
  <1>2. CASE r.harness # "forged_credential"
    <2> DEFINE tok == Token(r, s, issued)
    <2>1. /\ tok.jwt.signer = r.issuer /\ tok.jwt.iat = issued
          /\ tok.jwt.exp = issued + Ttl
          /\ tok.kb.signer = Holder /\ tok.kb.iat = issued
          /\ tok.kb.nonce = s.nonce /\ tok.kb.aud = AUD
          /\ tok.kb.sd_hash = SdHash(tok.jwt, tok.discs)
          /\ tok.discs \subseteq tok.jwt.sd
      BY <1>2, TokenSigned
    <2>2. Claims(tok).cnf = Holder
      BY <1>2, TokenClaims
    <2>3. issued \in Nat /\ Ttl \in Nat /\ Leeway \in Nat /\ issued <= time
      BY MandateAssumption
    <2> HIDE DEF tok
    <2>4. HolderBound(tok, s.nonce, AUD, time)
      BY <2>1, <2>2, <2>3 DEF HolderBound, SignedBy, NotFromFuture
    <2>5. IssuerSigned(tok, r.issuer, time) <=> ~(time >= tok.jwt.exp + Leeway)
      BY <2>1, <2>3 DEF IssuerSigned, SignedBy, NotFromFuture, NotExpired
    <2>6. QED
      BY <1>2, <2>1, <2>4, <2>5 DEF verify_presentation_sd, tok
  <1>3. QED
    BY <1>1, <1>2

(* A token is not the placeholder for none.                                 *)
LEMMA TokenThere ==
    ASSUME NEW r, NEW s, NEW issued
    PROVE  Token(r, s, issued) # Missing
PROOF
  <1>1. DOMAIN Missing = {"missing"}
    BY DEF Missing
  <1>2. DOMAIN Token(r, s, issued) = {"jwt", "discs", "kb"}
    BY DEF Token, present_sd
  <1>3. QED
    BY <1>1, <1>2

-----------------------------------------------------------------------------
(* A seal is the action it was made of: two sealable actions with one hash  *)
(* are one action to a reader, and the other way round.                     *)
LEMMA SealExact ==
    ASSUME NEW a \in Action, NEW b \in Action, Sealable(a), Sealable(b)
    PROVE  action_hash(a) = action_hash(b) <=> SameAction(a, b)
PROOF
  <1>1. /\ a.amount_eur \in Amount /\ b.amount_eur \in Amount
        /\ a.amount_eur.type = "int" /\ b.amount_eur.type = "int"
        /\ a.amount_eur.frac = FALSE /\ b.amount_eur.frac = FALSE
    BY DEF Action, Amount, Sealable, _exact_int
  <1>2. a.amount_eur.floor = b.amount_eur.floor <=> a.amount_eur = b.amount_eur
    BY <1>1 DEF Amount
  <1>3. QED
    BY <1>2 DEF action_hash, SameAction

(* verify_l4_scope says "ok" to the approved action in scope and to no      *)
(* other.                                                                   *)
LEMMA ReasonOk ==
    ASSUME NEW r, WellCalled(r), CleansList(r.harness), ~Refused(r)
    PROVE  ReasonOf(r) = "ok" <=> ~Unlike(r) /\ ~OutOfScope(r)
PROOF
  <1>1. r.harness # "verify_scoped"
    BY DEF CleansList
  <1>2. r.mandated \in Action /\ r.executed \in Action /\ Sealable(r.mandated)
    BY <1>1 DEF WellCalled, Refused
  <1>3. Unlike(r) <=> ~(Sealable(r.executed) /\ SameAction(r.mandated, r.executed))
    BY <1>1 DEF Unlike
  <1>4. OutOfScope(r) <=> \/ r.executed.tool \notin Scope.allowed_actions
                          \/ r.executed.amount_eur.floor > Scope.max_spend
    BY <1>1 DEF OutOfScope
  <1>5. Sealable(r.executed) =>
            (action_hash(r.mandated) = action_hash(r.executed) <=> SameAction(r.mandated, r.executed))
    BY <1>2, SealExact
  <1>6. QED
    BY <1>3, <1>4, <1>5 DEF ReasonOf

(* L4 of the demo's core on the token of a run: its exits are those of      *)
(* ReasonOf, and an exception if the credential expired after L1.           *)
LEMMA TokenL4 ==
    ASSUME NEW r, WellCalled(r), CleansList(r.harness), NEW s,
           NEW time \in Nat, NEW issued \in 0 .. time
    PROVE  LET l4 == verify_l4_scope(Token(r, s, issued), r.issuer, s.nonce, r.executed, time)
               late == time >= Token(r, s, issued).jwt.exp + Leeway
           IN /\ late <=> l4 = "raised"
              /\ ~late => l4 = ReasonOf(r)
PROOF
  <1> DEFINE tok == Token(r, s, issued)
             late == time >= tok.jwt.exp + Leeway
  <1>1. r.harness # "forged_credential" /\ r.harness # "verify_scoped"
    BY DEF CleansList
  <1>2. verify_presentation_sd(tok, r.issuer, s.nonce, AUD, time) <=> ~late
    BY <1>1, TokenVerifies
  <1>3. Claims(tok).scope = Scope /\ Claims(tok).action_hash = action_hash(r.mandated)
    BY <1>1, TokenClaims DEF ScopeOf, HashOf
  <1> HIDE DEF tok, late
  <1>4. late => verify_l4_scope(tok, r.issuer, s.nonce, r.executed, time) = "raised"
    BY <1>2 DEF verify_l4_scope
  <1>5. ~late => verify_l4_scope(tok, r.issuer, s.nonce, r.executed, time) = ReasonOf(r)
    BY <1>2, <1>3 DEF verify_l4_scope, ReasonOf
  <1>6. ReasonOf(r) # "raised"
    BY DEF ReasonOf
  <1>7. QED
    BY <1>4, <1>5, <1>6 DEF tok, late

(* L4 of scope_enforce on the token of a run.                               *)
LEMMA TokenL4Scoped ==
    ASSUME NEW r, WellCalled(r), r.harness = "verify_scoped", NEW s,
           NEW time \in Nat, NEW issued \in 0 .. time
    PROVE  LET tok == Token(r, s, issued)
               late == time >= tok.jwt.exp + Leeway
           IN /\ L4_in_scope(tok, r.issuer, s.nonce, r.executed, time) <=>
                    ~late /\ ~Unlike(r) /\ ~OutOfScope(r)
              /\ AmountRaises(tok, r.issuer, s.nonce, r.executed, time) =>
                    r.executed.amount.type = "other"
PROOF
  <1> DEFINE tok == Token(r, s, issued)
             late == time >= tok.jwt.exp + Leeway
  <1>1. r.harness # "forged_credential"
    OBVIOUS
  <1>2. verify_presentation_sd(tok, r.issuer, s.nonce, AUD, time) <=> ~late
    BY <1>1, TokenVerifies
  <1>3. /\ Claims(tok).scope = ActScope
        /\ Claims(tok).action_hash = action_hash_of(r.mandated.action_id, r.mandated.outcome)
    BY <1>1, TokenClaims DEF ScopeOf, HashOf
  <1> HIDE DEF tok, late
  <1>4. r.executed \in Request /\ Int_(r.executed.amount) \in Int /\ ActScope.max_spend \in Int
    BY HarnessAssumption DEF WellCalled, Request, Amount, Int_, ScopeObject
  <1>5. Unlike(r) <=> action_hash_of(r.executed.action_id, r.executed.outcome)
                        # action_hash_of(r.mandated.action_id, r.mandated.outcome)
    BY DEF Unlike, action_hash_of
  <1>6. Committed(Claims(tok), r.executed) /\ WithinLimit(Claims(tok), r.executed)
          <=> ~Unlike(r) /\ ~OutOfScope(r)
    BY <1>3, <1>4, <1>5 DEF Committed, WithinLimit, OutOfScope
  <1>7. L4_in_scope(tok, r.issuer, s.nonce, r.executed, time) <=> ~late /\ ~Unlike(r) /\ ~OutOfScope(r)
    BY <1>2, <1>6 DEF L4_in_scope
  <1>8. QED
    BY <1>7 DEF AmountRaises, tok, late

-----------------------------------------------------------------------------
LEMMA CallWell ==
    ASSUME NEW h \in Harnesses, NEW a \in Action, NEW b \in Action, h # "verify_scoped"
    PROVE  WellCalled(Call(h, a, b))
BY DEF WellCalled, Call

LEMMA CallScoped ==
    ASSUME NEW a \in Request, NEW b \in Request, "verify_scoped" \in Harnesses
    PROVE  WellCalled(Call("verify_scoped", a, b))
BY DEF WellCalled, Call

(* Changing the issuer or the evidence of a call keeps it one.              *)
IsCall(r) ==
    DOMAIN r = {"harness", "issuer", "mandated", "executed", "replay", "contraindicated"}

LEMMA CallShape ==
    ASSUME NEW h, NEW a, NEW b
    PROVE  IsCall(Call(h, a, b)) /\ Call(h, a, b).harness = h
BY DEF Call, IsCall

LEMMA VariantShape ==
    ASSUME NEW r, IsCall(r), NEW i, NEW re, NEW c
    PROVE  IsCall(Variant(r, i, re, c)) /\ Variant(r, i, re, c).harness = r.harness
BY DEF IsCall, Variant

LEMMA VariantWell ==
    ASSUME NEW r, WellCalled(r), IsCall(r),
           NEW i \in {Listed, OtherRole, Unlisted}, NEW re \in BOOLEAN, NEW c \in BOOLEAN
    PROVE  WellCalled(Variant(r, i, re, c))
BY DEF WellCalled, Variant, IsCall

LEMMA CallThere ==
    ASSUME NEW r, IsCall(r)
    PROVE  r # Missing
PROOF
  <1>1. DOMAIN Missing = {"missing"}
    BY DEF Missing
  <1>2. QED
    BY <1>1 DEF IsCall

LEMMA RunsWell == \A r \in Runs : WellCalled(r) /\ IsCall(r)
PROOF
  <1> DEFINE
        issuers == {Listed, OtherRole, Unlisted}
        evaluated == {Variant(Call("evaluate", a, b), Listed, re, c) :
                         a \in Actions, b \in Actions, re \in BOOLEAN, c \in BOOLEAN}
        cases == {Call("run_case", a, b) : a \in Actions, b \in Actions}
        forged == {Call("forged_credential", a, a) : a \in Good}
        untrusted == {Variant(Call("untrusted_issuer", a, a), Unlisted, FALSE, FALSE) : a \in Good}
        mocked == {Variant(Call("mock_verifier", a, a), i, re, c) :
                      a \in Good, i \in issuers, re \in BOOLEAN, c \in BOOLEAN}
        scoped == {ScopedCall(a, b, i, re) :
                      a \in Requests, b \in Requests, i \in issuers, re \in BOOLEAN}
  <1> SUFFICES ASSUME NEW r, r \in Runs PROVE WellCalled(r) /\ IsCall(r)
    OBVIOUS
  <1>1. /\ r \in evaluated \cup cases \cup forged \cup untrusted \cup mocked \cup scoped
        /\ r.harness \in Harnesses
    <2> DEFINE all == evaluated \cup cases \cup forged \cup untrusted \cup mocked \cup scoped
    <2>1. Runs = {e \in all : e.harness \in Harnesses}
      BY DEF Runs
    <2> HIDE DEF all
    <2>2. r \in all /\ r.harness \in Harnesses
      BY <2>1
    <2>3. QED
      <3> HIDE DEF evaluated, cases, forged, untrusted, mocked, scoped
      <3>1. QED
        BY <2>2 DEF all
  <1>2. Actions \subseteq Action /\ Requests \subseteq Request /\ Good \subseteq Action
    BY HarnessAssumption DEF Good
  <1>3. ASSUME NEW h, h # "verify_scoped", NEW a \in Action, NEW b \in Action,
               NEW i \in issuers, NEW re \in BOOLEAN, NEW c \in BOOLEAN,
               r = Variant(Call(h, a, b), i, re, c) \/ r = Call(h, a, b)
        PROVE  WellCalled(r) /\ IsCall(r)
    <2>1. IsCall(Call(h, a, b)) /\ Call(h, a, b).harness = h
      BY CallShape
    <2>2. IsCall(r) /\ r.harness = h
      BY <1>3, <2>1, VariantShape
    <2>3. WellCalled(Call(h, a, b))
      BY <1>1, <1>3, <2>2, CallWell
    <2>4. QED
      BY <1>3, <2>1, <2>2, <2>3, VariantWell
  <1>4. ASSUME NEW a \in Request, NEW b \in Request, NEW i \in issuers, NEW re \in BOOLEAN,
               r = ScopedCall(a, b, i, re)
        PROVE  WellCalled(r) /\ IsCall(r)
    <2>1. IsCall(Call("verify_scoped", a, b)) /\ Call("verify_scoped", a, b).harness = "verify_scoped"
      BY CallShape
    <2>2. IsCall(r) /\ r.harness = "verify_scoped"
      BY <1>4, <2>1, VariantShape DEF ScopedCall
    <2>3. WellCalled(Call("verify_scoped", a, b))
      BY <1>1, <2>2, CallScoped
    <2>4. QED
      BY <1>4, <2>1, <2>2, <2>3, VariantWell DEF ScopedCall
  <1>5. CASE r \in evaluated
    <2>1. PICK a \in Actions, b \in Actions, re \in BOOLEAN, c \in BOOLEAN :
              r = Variant(Call("evaluate", a, b), Listed, re, c)
      BY <1>5
    <2>2. QED
      BY <1>2, <1>3, <2>1
  <1>6. CASE r \in cases
    <2>1. PICK a \in Actions, b \in Actions : r = Call("run_case", a, b)
      BY <1>6
    <2>2. QED
      BY <1>2, <1>3, <2>1
  <1>7. CASE r \in forged
    <2>1. PICK a \in Good : r = Call("forged_credential", a, a)
      BY <1>7
    <2>2. QED
      BY <1>2, <1>3, <2>1
  <1>8. CASE r \in untrusted
    <2>1. PICK a \in Good : r = Variant(Call("untrusted_issuer", a, a), Unlisted, FALSE, FALSE)
      BY <1>8
    <2>2. QED
      BY <1>2, <1>3, <2>1
  <1>9. CASE r \in mocked
    <2>1. PICK a \in Good, i \in issuers, re \in BOOLEAN, c \in BOOLEAN :
              r = Variant(Call("mock_verifier", a, a), i, re, c)
      BY <1>9
    <2>2. QED
      BY <1>2, <1>3, <2>1
  <1>10. CASE r \in scoped
    <2>1. PICK a \in Requests, b \in Requests, i \in issuers, re \in BOOLEAN :
              r = ScopedCall(a, b, i, re)
      BY <1>10
    <2>2. QED
      BY <1>2, <1>4, <2>1
  <1>11. QED
    <2> HIDE DEF evaluated, cases, forged, untrusted, mocked, scoped
    <2>1. QED
      BY <1>1, <1>5, <1>6, <1>7, <1>8, <1>9, <1>10

-----------------------------------------------------------------------------
(* A run that begins, and the state between two runs.                       *)
LEMMA RunBegins ==
    ASSUME NEW r, WellCalled(r), r # Missing, Fresh(r, "make_tl"), now' \in Nat
    PROVE  RunInv'
PROOF
  <1> USE DEF Fresh
  <1>1. TypeOK'
    <2>1. /\ r.harness \in Harnesses /\ r.issuer \in Issuer
          /\ r.mandated \in Action \cup Request /\ r.executed \in Action \cup Request
      BY CallersIssue DEF WellCalled
    <2>2. QED
      BY <2>1 DEF TypeOK
  <1>2. RunFollows' /\ TokenFollows' /\ GatesFollow'
    BY DEF RunFollows, TokenFollows, GatesFollow, Issued, Judged, Verdict
  <1>3. L4Follows' /\ DenialFollows' /\ ReasonFollows' /\ RaiseFollows' /\ VerdictFollows'
    BY DEF L4Follows, DenialFollows, ReasonFollows, RaiseFollows, VerdictFollows,
           Settled, Judged, Verdict
  <1>4. QED
    BY <1>1, <1>2, <1>3 DEF RunInv

LEMMA NoRun ==
    ASSUME Fresh(Missing, "idle"), now' \in Nat
    PROVE  RunInv'
PROOF
  <1> USE DEF Fresh
  <1>1. TypeOK'
    BY DEF TypeOK
  <1>2. RunFollows' /\ TokenFollows' /\ GatesFollow'
    BY DEF RunFollows, TokenFollows, GatesFollow, Issued, Judged, Verdict
  <1>3. L4Follows' /\ DenialFollows' /\ ReasonFollows' /\ RaiseFollows' /\ VerdictFollows'
    BY DEF L4Follows, DenialFollows, ReasonFollows, RaiseFollows, VerdictFollows,
           Settled, Judged, Verdict
  <1>4. QED
    BY <1>1, <1>2, <1>3 DEF RunInv

(* Time changes nothing a run has, it can only expire its credential.       *)
LEMMA RunTick ==
    ASSUME RunInv, Tick PROVE RunInv'
PROOF
  <1> USE DEF RunInv, Tick
  <1>0. now \in Nat /\ now' = now + 1
    BY DEF TypeOK
  <1>1. TypeOK' /\ RunFollows' /\ VerdictFollows'
    BY <1>0 DEF TypeOK, RunFollows, VerdictFollows
  <1>2. TokenFollows'
    <2>1. \A issued \in 0 .. now : issued \in 0 .. now'
      BY <1>0
    <2>2. Issued' <=> Issued
      BY DEF Issued, Verdict
    <2>3. QED
      BY <2>1, <2>2 DEF TokenFollows
  <1>3. vp # Missing /\ Expired => Expired'
    <2>1. SUFFICES ASSUME vp # Missing, Expired PROVE Expired'
      OBVIOUS
    <2>2. PICK issued \in 0 .. now : vp = Token(run, session, issued)
      BY <2>1 DEF TokenFollows
    <2>3. vp.jwt.exp = issued + Ttl
      BY <2>2, TokenSigned, TokenForged
    <2>4. QED
      BY <1>0, <2>1, <2>3, MandateAssumption DEF Expired
  <1>4. GatesFollow'
    BY <1>3 DEF GatesFollow, TokenFollows, Judged, Issued, Verdict
  <1>5. L4Follows' /\ ReasonFollows' /\ DenialFollows'
    BY <1>3 DEF TokenFollows, L4Follows, ReasonFollows, DenialFollows, Settled, Issued, Judged, Verdict
  <1>6. RaiseFollows'
    BY <1>3 DEF RaiseFollows
  <1>7. QED
    BY <1>1, <1>2, <1>4, <1>5, <1>6

LEMMA RunMakeTrustedList ==
    ASSUME RunInv, MakeTrustedList PROVE RunInv'
PROOF
  <1> USE DEF RunInv, MakeTrustedList
  <1>1. TypeOK' /\ RunFollows' /\ VerdictFollows' /\ TokenFollows' /\ GatesFollow'
    BY DEF TypeOK, RunFollows, VerdictFollows, TokenFollows, GatesFollow, Issued, Judged, Verdict
  <1>2. L4Follows' /\ DenialFollows' /\ ReasonFollows' /\ RaiseFollows'
    BY DEF RunFollows, L4Follows, DenialFollows, ReasonFollows, RaiseFollows,
           Settled, Judged, Verdict
  <1>3. QED
    BY <1>1, <1>2

LEMMA RunRequest ==
    ASSUME RunInv, request PROVE RunInv'
PROOF
  <1> USE DEF RunInv, request
  <1>1. TypeOK' /\ RunFollows' /\ VerdictFollows' /\ TokenFollows' /\ GatesFollow'
    BY DEF TypeOK, RunFollows, VerdictFollows, TokenFollows, GatesFollow, Issued, Judged, Verdict
  <1>2. L4Follows' /\ DenialFollows' /\ ReasonFollows' /\ RaiseFollows'
    BY DEF RunFollows, L4Follows, DenialFollows, ReasonFollows, RaiseFollows,
           Settled, Judged, Verdict
  <1>3. QED
    BY <1>1, <1>2

LEMMA RunIssues ==
    ASSUME RunInv, issue_action_mandate PROVE RunInv'
PROOF
  <1> USE DEF RunInv, issue_action_mandate
  <1>1. TypeOK' /\ RunFollows' /\ VerdictFollows'
    BY DEF TypeOK, RunFollows, VerdictFollows
  <1>2. TokenFollows'
    <2>1. now \in 0 .. now' /\ vp' = Token(run', session', now)
      BY DEF TypeOK
    <2>2. ~Refused(run)'
      BY DEF Refused
    <2>3. vp' # Missing
      BY <2>1, TokenThere
    <2>4. session \in [nonce : Nonce, challenge : Challenge]
      BY DEF TokenFollows
    <2>5. QED
      BY <2>1, <2>2, <2>3, <2>4 DEF TokenFollows
  <1>3. GatesFollow' /\ L4Follows' /\ DenialFollows' /\ ReasonFollows' /\ RaiseFollows'
    BY DEF RunFollows, GatesFollow, L4Follows, DenialFollows, ReasonFollows, RaiseFollows,
           Settled, Judged, Verdict
  <1>4. QED
    BY <1>1, <1>2, <1>3

LEMMA RunIssueRaises ==
    ASSUME RunInv, IssueRaises PROVE RunInv'
PROOF
  <1> USE DEF RunInv, IssueRaises
  <1>1. TypeOK' /\ RunFollows' /\ VerdictFollows' /\ TokenFollows' /\ GatesFollow'
    BY DEF TypeOK, RunFollows, VerdictFollows, TokenFollows, GatesFollow, Issued, Judged, Verdict
  <1>2. L4Follows' /\ DenialFollows' /\ ReasonFollows'
    BY DEF RunFollows, L4Follows, DenialFollows, ReasonFollows, Settled, Judged, Verdict
  <1>3. RaiseFollows'
    BY DEF RaiseFollows, Refused
  <1>4. QED
    BY <1>1, <1>2, <1>3

LEMMA RunRebinds ==
    ASSUME RunInv, rebind_evidence PROVE RunInv'
PROOF
  <1> USE DEF RunInv, rebind_evidence
  <1>1. TypeOK' /\ RunFollows' /\ VerdictFollows'
    BY DEF TypeOK, RunFollows, VerdictFollows
  <1>2. TokenFollows'
    BY DEF TokenFollows, Issued, Verdict, Evidence, FromMain, Refused
  <1>3. GatesFollow' /\ L4Follows' /\ DenialFollows' /\ ReasonFollows' /\ RaiseFollows'
    BY DEF RunFollows, GatesFollow, L4Follows, DenialFollows, ReasonFollows, RaiseFollows,
           Settled, Judged, Verdict
  <1>4. QED
    BY <1>1, <1>2, <1>3

(* The three gates of rp.verify on the token and the evidence of a run.     *)
ChallengeOf(h) == IF FromMain(h) THEN SessionNonce ELSE session.challenge
BaseGates == verify([session EXCEPT !.challenge = ChallengeOf(run.harness)], AUD, vp,
                    run.issuer, quote, quote, now)

LEMMA GatesExact ==
    ASSUME RunInv, pc = "verify"
    PROVE  /\ BaseGates.L1 <=> run.harness # "forged_credential" /\ ~Expired
           /\ BaseGates.L2 <=> BaseGates.L1 /\ ~run.replay /\ ~run.contraindicated
           /\ BaseGates.L3 <=> BaseGates.L1 /\ run.issuer = Listed
PROOF
  <1>1. WellCalled(run)
    BY DEF RunInv, RunFollows
  <1>2. PICK issued \in 0 .. now : vp = Token(run, session, issued)
    BY DEF RunInv, TokenFollows, Issued
  <1>3. now \in Nat /\ session \in [nonce : Nonce, challenge : Challenge]
    BY DEF RunInv, TypeOK, TokenFollows, Issued
  <1> DEFINE s == [session EXCEPT !.challenge = ChallengeOf(run.harness)]
  <1>4. s.nonce = session.nonce /\ s.challenge = ChallengeOf(run.harness)
    BY <1>3
  <1> HIDE DEF s
  <1>5. /\ BaseGates.L1 <=> verify_presentation_sd(vp, run.issuer, session.nonce, AUD, now)
        /\ BaseGates.L2 <=> BaseGates.L1
                            /\ L2_attested(vp, ChallengeOf(run.harness), quote, quote)
        /\ BaseGates.L3 <=> BaseGates.L1 /\ run.issuer \in Endorsers
    <2>1. BaseGates = verify(s, AUD, vp, run.issuer, quote, quote, now)
      BY DEF BaseGates, s
    <2>2. QED
      BY <1>4, <2>1 DEF verify, L3_endorser_role
  <1>6. BaseGates.L1 <=> run.harness # "forged_credential" /\ ~Expired
    BY <1>1, <1>2, <1>3, <1>5, TokenVerifies DEF Expired
  <1>7. run.issuer \in Endorsers <=> run.issuer = Listed
    BY <1>1, CallersIssue DEF WellCalled
  <1>8. ASSUME run.harness # "forged_credential"
        PROVE  L2_attested(vp, ChallengeOf(run.harness), quote, quote)
                 <=> ~run.replay /\ ~run.contraindicated
    <2>1. ChallengeOf(run.harness) = quote.nonce <=> ~run.replay
      <3>1. quote.nonce = IF run.replay THEN StaleChallenge ELSE ChallengeOf(run.harness)
        BY DEF RunInv, TokenFollows, ChallengeOf
      <3>2. StaleChallenge # ChallengeOf(run.harness)
        BY <1>3, HarnessAssumption DEF ChallengeOf
      <3>3. QED
        BY <3>1, <3>2
    <2>2. quote.status = Evidence(run)
      BY DEF RunInv, TokenFollows
    <2>3. Get(Claims(vp), "ear_status", "absent") = SdClaims(run).ear_status
      BY <1>2, <1>8, TokenClaims
    <2>4. quote.status = "affirming" <=> ~run.contraindicated
      BY <1>1, <2>2 DEF Evidence, WellCalled
    <2>5. ~run.contraindicated => SdClaims(run).ear_status = quote.status
      BY <2>2 DEF SdClaims, Evidence
    <2>6. QED
      BY <2>1, <2>3, <2>4, <2>5 DEF L2_attested
  <1>9. QED
    BY <1>5, <1>6, <1>7, <1>8

LEMMA RunVerifies ==
    ASSUME RunInv, Verify PROVE RunInv'
PROOF
  <1>1. /\ pc = "verify" /\ outcome = "running"
        /\ UNCHANGED <<run, now, files, session, vp, quote, reason, outcome>>
    BY DEF Verify, RunInv, RunFollows
  <1>2. WellCalled(run) /\ run # Missing
    BY <1>1 DEF RunInv, RunFollows
  <1>3. /\ passed' = {g \in {"L1", "L2", "L3"} : BaseGates[g]}
        /\ denied' = IF run.harness = "forged_credential" THEN {"L1"} \ passed'
                     ELSE {"L1", "L2", "L3"} \ passed'
        /\ pc' = IF \/ run.harness = "verify_scoped"
                    \/ BaseAccepts(BaseGates) /\ CleansList(run.harness)
                 THEN "l4" ELSE "conclude"
    BY DEF Verify, BaseGates, ChallengeOf
  <1>4. /\ "L1" \in passed' <=> run.harness # "forged_credential" /\ ~Expired
        /\ "L2" \in passed' <=> "L1" \in passed' /\ ~run.replay /\ ~run.contraindicated
        /\ "L3" \in passed' <=> "L1" \in passed' /\ run.issuer = Listed
        /\ passed' \subseteq {"L1", "L2", "L3"} /\ "L4" \notin passed'
    BY <1>1, <1>3, GatesExact
  <1>5. pc' = IF \/ run.harness = "verify_scoped"
                 \/ {"L1", "L2", "L3"} \subseteq passed' /\ CleansList(run.harness)
              THEN "l4" ELSE "conclude"
    BY <1>3 DEF BaseAccepts
  <1>6. Expired' <=> Expired
    BY <1>1 DEF Expired
  <1>7. denied' \subseteq {"L1", "L2", "L3"} /\ "L4" \notin denied' /\ passed' \cap denied' = {}
    BY <1>3
  <1>8. TypeOK' /\ RunFollows'
    BY <1>1, <1>4, <1>5, <1>7 DEF RunInv, TypeOK, RunFollows, AllGates
  <1>9. TokenFollows'
    BY <1>1, <1>5 DEF RunInv, TokenFollows, Issued, Verdict, Refused
  <1>10. GatesFollow'
    BY <1>1, <1>4, <1>5, <1>6, <1>7 DEF GatesFollow, RunsL4
  <1>11. L4Follows' /\ DenialFollows' /\ ReasonFollows'
    <2>1. Settled' => ~({"L1", "L2", "L3"} \subseteq passed' /\ RunsL4(run.harness))
      BY <1>1, <1>5 DEF Settled, Verdict, RunsL4
    <2>2. run.harness = "run_case" => RunsL4(run.harness)
      BY DEF RunsL4, CleansList
    <2>3. QED
      BY <1>1, <1>3, <1>4, <2>1, <2>2 DEF L4Follows, DenialFollows, ReasonFollows, RunInv
  <1>12. RaiseFollows' /\ VerdictFollows'
    BY <1>1 DEF RaiseFollows, VerdictFollows
  <1>13. QED
    BY <1>8, <1>9, <1>10, <1>11, <1>12 DEF RunInv

LEMMA RunVerifiesL4 ==
    ASSUME RunInv, VerifyL4 PROVE RunInv'
PROOF
  <1> DEFINE l4 == verify_l4_scope(vp, run.issuer, session.nonce, run.executed, now)
             raises == l4 = "raised" /\ run.harness = "evaluate"
  <1>1. /\ pc = "l4" /\ run.harness # "verify_scoped" /\ outcome = "running"
        /\ UNCHANGED <<run, now, session, vp, quote>>
    BY DEF VerifyL4, RunInv, RunFollows
  <1>2. /\ passed' = IF l4 = "ok" THEN passed \cup {"L4"} ELSE passed
        /\ denied' = IF l4 = "ok" \/ raises THEN denied ELSE denied \cup {"L4"}
        /\ outcome' = IF raises THEN "raised" ELSE outcome
        /\ reason' = IF run.harness = "run_case" THEN l4 ELSE reason
        /\ pc' = IF raises THEN "finally" ELSE "conclude"
        /\ files' = IF raises THEN files \ {"evidence"} ELSE files
    BY DEF VerifyL4
  <1>3. /\ WellCalled(run) /\ RunsL4(run.harness) /\ CleansList(run.harness)
        /\ run # Missing /\ ~Refused(run) /\ vp # Missing
    BY <1>1 DEF RunInv, RunFollows, TokenFollows, Issued, GatesFollow, RunsL4
  <1>4. /\ l4 = "raised" <=> Expired
        /\ ~Expired => l4 = ReasonOf(run)
        /\ ~Expired => (l4 = "ok" <=> ~Unlike(run) /\ ~OutOfScope(run))
    <2>1. PICK issued \in 0 .. now : vp = Token(run, session, issued)
      BY <1>3 DEF RunInv, TokenFollows
    <2>2. now \in Nat
      BY DEF RunInv, TypeOK
    <2>3. /\ l4 = "raised" <=> Expired
          /\ ~Expired => l4 = ReasonOf(run)
      BY <1>3, <2>1, <2>2, TokenL4 DEF Expired
    <2>4. ReasonOf(run) = "ok" <=> ~Unlike(run) /\ ~OutOfScope(run)
      BY <1>3, ReasonOk
    <2>5. QED
      BY <2>3, <2>4
  <1> HIDE DEF l4
  <1>5. Expired' <=> Expired
    BY <1>1 DEF Expired
  <1>6. "L4" \notin passed /\ "L4" \notin denied /\ passed \cap denied = {}
        /\ passed \subseteq AllGates /\ denied \subseteq AllGates
    BY <1>1 DEF RunInv, GatesFollow, TypeOK
  <1>7. /\ passed' \cap denied' = {} /\ passed' \subseteq AllGates /\ denied' \subseteq AllGates
        /\ \A g \in {"L1", "L2", "L3"} : (g \in passed' <=> g \in passed)
                                         /\ (g \in denied' <=> g \in denied)
        /\ "L4" \in passed' <=> l4 = "ok"
        /\ raises \/ "L4" \in passed' \cup denied'
    BY <1>2, <1>6 DEF AllGates
  <1>8. TypeOK' /\ RunFollows'
    BY <1>1, <1>2, <1>7 DEF RunInv, TypeOK, RunFollows
  <1>9. TokenFollows'
    BY <1>1, <1>2, <1>3 DEF RunInv, TokenFollows, Issued, Verdict, Refused
  <1>10. GatesFollow'
    BY <1>1, <1>2, <1>3, <1>5, <1>7 DEF RunInv, GatesFollow, Judged, Verdict
  <1>11. L4Follows'
    BY <1>1, <1>3, <1>4, <1>5, <1>7 DEF L4Follows, Unlike, OutOfScope
  <1>12. DenialFollows'
    <2>1. Judged /\ (Settled' => ~raises)
      BY <1>1, <1>2 DEF Judged, Settled, Verdict
    <2>2. denied \subseteq denied'
      BY <1>2
    <2>3. \A S \in SUBSET {"L1", "L2", "L3"} : S \ passed' = S \ passed
      BY <1>7
    <2>4. QED
      BY <1>1, <1>7, <2>1, <2>2, <2>3 DEF RunInv, DenialFollows
  <1>13. ReasonFollows'
    BY <1>1, <1>2, <1>4, <1>5 DEF RunInv, ReasonFollows, ReasonOf
  <1>14. RaiseFollows' /\ VerdictFollows'
    BY <1>1, <1>2, <1>3, <1>4, <1>5 DEF RaiseFollows, VerdictFollows
  <1>15. QED
    BY <1>8, <1>9, <1>10, <1>11, <1>12, <1>13, <1>14 DEF RunInv

LEMMA RunVerifiesScoped ==
    ASSUME RunInv, VerifyScoped PROVE RunInv'
PROOF
  <1> DEFINE raises == AmountRaises(vp, run.issuer, session.nonce, run.executed, now)
             ok == L4_in_scope(vp, run.issuer, session.nonce, run.executed, now)
  <1>1. /\ pc = "l4" /\ run.harness = "verify_scoped" /\ outcome = "running"
        /\ UNCHANGED <<run, now, files, session, vp, quote, reason>>
    BY DEF VerifyScoped, RunInv, RunFollows
  <1>2. /\ passed' = IF ok /\ ~raises THEN passed \cup {"L4"} ELSE passed
        /\ denied' = IF ok \/ raises THEN denied ELSE denied \cup {"L4"}
        /\ outcome' = IF raises THEN "raised" ELSE outcome
        /\ pc' = IF raises THEN "finally" ELSE "conclude"
    BY DEF VerifyScoped
  <1>3. /\ WellCalled(run) /\ RunsL4(run.harness)
        /\ run # Missing /\ ~Refused(run) /\ vp # Missing
    BY <1>1 DEF RunInv, RunFollows, TokenFollows, Issued, GatesFollow
  <1>4. /\ ok <=> ~Expired /\ ~Unlike(run) /\ ~OutOfScope(run)
        /\ raises => run.executed.amount.type = "other"
    <2>1. PICK issued \in 0 .. now : vp = Token(run, session, issued)
      BY <1>3 DEF RunInv, TokenFollows
    <2>2. now \in Nat
      BY DEF RunInv, TypeOK
    <2>3. QED
      BY <1>1, <1>3, <2>1, <2>2, TokenL4Scoped DEF Expired
  <1> HIDE DEF ok, raises
  <1>5. Expired' <=> Expired
    BY <1>1 DEF Expired
  <1>6. "L4" \notin passed /\ "L4" \notin denied /\ passed \cap denied = {}
        /\ passed \subseteq AllGates /\ denied \subseteq AllGates
    BY <1>1 DEF RunInv, GatesFollow, TypeOK
  <1>7. /\ passed' \cap denied' = {} /\ passed' \subseteq AllGates /\ denied' \subseteq AllGates
        /\ \A g \in {"L1", "L2", "L3"} : (g \in passed' <=> g \in passed)
                                         /\ (g \in denied' <=> g \in denied)
        /\ ~raises => ("L4" \in passed' <=> ok)
        /\ raises \/ "L4" \in passed' \cup denied'
    BY <1>2, <1>6 DEF AllGates
  <1>8. TypeOK' /\ RunFollows'
    BY <1>1, <1>2, <1>7 DEF RunInv, TypeOK, RunFollows
  <1>9. TokenFollows'
    BY <1>1, <1>2, <1>3 DEF RunInv, TokenFollows, Issued, Verdict, Refused
  <1>10. GatesFollow'
    BY <1>1, <1>2, <1>3, <1>5, <1>7 DEF RunInv, GatesFollow, Judged, Verdict
  <1>11. L4Follows'
    <2>1. Settled' => ~raises
      BY <1>1, <1>2 DEF Settled, Verdict
    <2>2. QED
      BY <1>1, <1>3, <1>4, <1>5, <1>7, <2>1 DEF L4Follows, Unlike, OutOfScope
  <1>12. DenialFollows'
    <2>1. Judged /\ (Settled' => ~raises)
      BY <1>1, <1>2 DEF Judged, Settled, Verdict
    <2>2. denied \subseteq denied'
      BY <1>2
    <2>3. \A S \in SUBSET {"L1", "L2", "L3"} : S \ passed' = S \ passed
      BY <1>7
    <2>4. QED
      BY <1>1, <1>7, <2>1, <2>2, <2>3 DEF RunInv, DenialFollows
  <1>13. ReasonFollows'
    BY <1>1 DEF RunInv, ReasonFollows
  <1>14. RaiseFollows' /\ VerdictFollows'
    BY <1>1, <1>2, <1>4 DEF RaiseFollows, VerdictFollows
  <1>15. QED
    BY <1>8, <1>9, <1>10, <1>11, <1>12, <1>13, <1>14 DEF RunInv

LEMMA RunConcludes ==
    ASSUME RunInv, Conclude PROVE RunInv'
PROOF
  <1>1. /\ pc = "conclude" /\ pc' = "finally" /\ outcome = "running"
        /\ UNCHANGED <<run, now, session, vp, quote, passed, reason>>
        /\ outcome' = IF passed = Needed(run.harness) THEN "ACCEPT" ELSE "DENY"
        /\ denied' = IF run.harness = "run_case" THEN AllGates \ passed ELSE denied
        /\ files' = files \ {"evidence"}
    BY DEF Conclude, RunInv, RunFollows
  <1>2. Judged /\ Settled /\ Issued
    BY <1>1 DEF Judged, Settled, Issued
  <1>3. Expired' <=> Expired
    BY <1>1 DEF Expired
  <1>4. TypeOK' /\ RunFollows'
    BY <1>1 DEF RunInv, TypeOK, RunFollows
  <1>5. TokenFollows'
    BY <1>1, <1>2 DEF RunInv, TokenFollows, Refused
  <1>6. GatesFollow'
    <2>1. "L4" \in denied' => RunsL4(run.harness)
      BY <1>1 DEF RunInv, GatesFollow, RunsL4, CleansList
    <2>2. QED
      BY <1>1, <1>2, <1>3, <2>1 DEF RunInv, GatesFollow
  <1>7. L4Follows' /\ ReasonFollows'
    BY <1>1, <1>2, <1>3 DEF RunInv, L4Follows, ReasonFollows, Unlike, OutOfScope, ReasonOf
  <1>8. DenialFollows'
    <2>1. denied \subseteq denied'
      BY <1>1 DEF RunInv, TypeOK
    <2>2. QED
      BY <1>1, <1>2, <2>1 DEF RunInv, DenialFollows
  <1>9. RaiseFollows' /\ VerdictFollows'
    BY <1>1 DEF RaiseFollows, VerdictFollows
  <1>10. QED
    BY <1>4, <1>5, <1>6, <1>7, <1>8, <1>9 DEF RunInv

LEMMA RunFinally ==
    ASSUME RunInv, Finally PROVE RunInv'
PROOF
  <1>1. /\ pc = "finally" /\ pc' = "done"
        /\ UNCHANGED <<run, now, session, vp, quote, passed, denied, reason, outcome>>
        /\ files' \subseteq files
    BY DEF Finally
  <1>2. /\ Judged' <=> Judged
        /\ Settled' <=> Settled
        /\ Issued' <=> Issued
        /\ Expired' <=> Expired
    BY <1>1 DEF Judged, Settled, Issued, Verdict, Expired
  <1>3. TypeOK' /\ RunFollows'
    BY <1>1 DEF RunInv, TypeOK, RunFollows
  <1>4. TokenFollows' /\ GatesFollow'
    BY <1>1, <1>2 DEF RunInv, TokenFollows, GatesFollow, Refused
  <1>5. L4Follows' /\ ReasonFollows' /\ DenialFollows'
    BY <1>1, <1>2 DEF RunInv, L4Follows, ReasonFollows, DenialFollows, Unlike, OutOfScope, ReasonOf
  <1>6. RaiseFollows' /\ VerdictFollows'
    BY <1>1, <1>2 DEF RunInv, RaiseFollows, VerdictFollows, Refused
  <1>7. QED
    BY <1>3, <1>4, <1>5, <1>6 DEF RunInv

-----------------------------------------------------------------------------
LEMMA RunInit == Init => RunInv
PROOF
  <1> SUFFICES ASSUME Init PROVE RunInv
    OBVIOUS
  <1>1. WellCalled(run) /\ run # Missing
    BY RunsWell, CallThere DEF Init
  <1>2. TypeOK
    <2>1. /\ run.harness \in Harnesses /\ run.issuer \in Issuer
          /\ run.mandated \in Action \cup Request /\ run.executed \in Action \cup Request
      BY <1>1, CallersIssue DEF WellCalled
    <2>2. QED
      BY <2>1 DEF Init, TypeOK
  <1>3. RunFollows /\ TokenFollows /\ GatesFollow
    BY <1>1 DEF Init, RunFollows, TokenFollows, GatesFollow, Issued, Judged, Verdict
  <1>4. L4Follows /\ DenialFollows /\ ReasonFollows /\ RaiseFollows /\ VerdictFollows
    BY DEF Init, L4Follows, DenialFollows, ReasonFollows, RaiseFollows, VerdictFollows,
           Settled, Judged, Verdict
  <1>5. QED
    BY <1>2, <1>3, <1>4 DEF RunInv

LEMMA RunStep == RunInv /\ Step => RunInv'
BY RunMakeTrustedList, RunRequest, RunIssues, RunIssueRaises, RunRebinds, RunVerifies,
   RunVerifiesL4, RunVerifiesScoped, RunConcludes, RunFinally DEF Step

LEMMA RunSame == RunInv /\ UNCHANGED vars => RunInv'
PROOF
  <1> SUFFICES ASSUME RunInv, UNCHANGED vars PROVE RunInv'
    OBVIOUS
  <1> USE DEF vars, RunInv
  <1>1. TypeOK' /\ RunFollows' /\ TokenFollows' /\ GatesFollow'
    BY DEF TypeOK, RunFollows, TokenFollows, GatesFollow, Issued, Judged, Verdict, Expired, Refused
  <1>2. L4Follows' /\ DenialFollows' /\ ReasonFollows'
    BY DEF L4Follows, DenialFollows, ReasonFollows, Settled, Judged, Verdict, Expired,
           Unlike, OutOfScope, ReasonOf
  <1>3. RaiseFollows' /\ VerdictFollows'
    BY DEF RaiseFollows, VerdictFollows, Expired, Refused
  <1>4. QED
    BY <1>1, <1>2, <1>3

(* Every harness, called with anything, is at every statement where RunInv  *)
(* says.                                                                    *)
THEOREM RunSafe == Spec => []RunInv
PROOF
  <1>1. RunInv /\ [Next]_vars => RunInv'
    BY RunStep, RunTick, RunSame DEF Next
  <1>2. QED
    BY <1>1, RunInit, PTL DEF Spec

(* An acceptance needs every gate the harness asks, and each of them was    *)
(* passed for its reason.                                                   *)
LEMMA AcceptSound == RunInv => AcceptsOnlySound
PROOF
  <1> SUFFICES ASSUME RunInv, outcome = "ACCEPT"
               PROVE  /\ ~LeavesList(run.harness, outcome)
                      /\ run.issuer = Listed /\ ~run.replay /\ ~run.contraindicated
                      /\ run.harness # "mock_verifier" => ~Unlike(run) /\ ~OutOfScope(run)
    BY DEF AcceptsOnlySound
  <1>1. Judged /\ Settled /\ passed = Needed(run.harness)
    BY DEF Judged, Settled, Verdict, RunInv, VerdictFollows
  <1>2. {"L1", "L2", "L3"} \subseteq passed
        /\ (run.harness # "mock_verifier" => "L4" \in passed)
    BY <1>1 DEF Needed, AllGates
  <1>3. run.issuer = Listed /\ ~run.replay /\ ~run.contraindicated
    BY <1>1, <1>2 DEF RunInv, GatesFollow
  <1>4. run.harness # "mock_verifier" =>
            RunsL4(run.harness) /\ ~Unlike(run) /\ ~OutOfScope(run)
    BY <1>1, <1>2 DEF RunInv, L4Follows
  <1>5. ~LeavesList(run.harness, outcome)
    BY <1>4 DEF LeavesList, RunsL4, CleansList
  <1>6. QED
    BY <1>3, <1>4, <1>5

(* A denying gate was not passed, and was not passed for the lack of it.    *)
LEMMA DenierNames == RunInv => DenierNamesCause
PROOF
  <1> SUFFICES ASSUME RunInv, outcome = "DENY"
               PROVE  DenierNamesCause
    BY DEF DenierNamesCause
  <1>1. Judged /\ Settled /\ passed \cap denied = {}
    BY DEF Judged, Settled, Verdict, RunInv, TypeOK
  <1>2. /\ "L1" \in denied => run.harness = "forged_credential" \/ Expired
        /\ "L1" \in passed /\ "L2" \in denied => run.replay \/ run.contraindicated
        /\ "L1" \in passed /\ "L3" \in denied => run.issuer # Listed
    BY <1>1 DEF RunInv, GatesFollow
  <1>3. {"L1", "L2", "L3"} \subseteq passed /\ "L4" \in denied =>
            Unlike(run) \/ OutOfScope(run) \/ Expired
    BY <1>1 DEF RunInv, L4Follows, GatesFollow
  <1>4. QED
    BY <1>2, <1>3 DEF DenierNamesCause

(* For every call, clock and answer of the gates: what a harness accepts is *)
(* fresh, listed, unforged and, where L4 is run, approved and in scope.     *)
THEOREM HarnessAcceptsSound == Spec => []AcceptsOnlySound
BY RunSafe, AcceptSound, PTL

(* The gate that denies first names the cause, whatever was called.         *)
THEOREM HarnessNamesCause == Spec => []DenierNamesCause
BY RunSafe, DenierNames, PTL
=============================================================================
