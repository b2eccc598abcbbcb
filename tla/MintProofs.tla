----------------------------- MODULE MintProofs -----------------------------
(***************************************************************************)
(* Theorems about MintRun and PresentationCheck: for any manifests, expiry  *)
(* dates, keys and clock, any number of mints and checks.                   *)
(***************************************************************************)
EXTENDS PresentationCheck, SequenceTheorems, TLAPS

-----------------------------------------------------------------------------
(* The credential of a run, and its claims.                                 *)

(* issue_sd over a manifest, with the expiry main computed.                 *)
LEMMA CredentialType ==
    ASSUME NEW issuer \in Issuer, NEW holder \in Holder,
           manifest \in Manifests, exp \in Exps, now \in Nat, clock \in Nat
    PROVE  /\ Credential(issuer, holder) \in RunCredential
           /\ Credential(issuer, holder).signer = issuer
           /\ Credential(issuer, holder).cnf = holder
           /\ Credential(issuer, holder).iat = now
           /\ Credential(issuer, holder).scope.allowed_actions = manifest.allowed_actions
           /\ Credential(issuer, holder).scope.max_spend = Int_(manifest.max_spend)
<1> DEFINE scope == [allowed_actions |-> manifest.allowed_actions,
                     action_commitments |-> manifest.action_commitments,
                     max_spend |-> Int_(manifest.max_spend)]
           c == [principal |-> "P", ear_status |-> "affirming", composition_action_id |-> "run"]
           sd == {make_disclosure(issuer, k_1, c[k_1]) : k_1 \in DOMAIN c}
<1>1. manifest \in ManifestType
  BY MintRunAssumption
<1>2. scope \in ScopeObject
  BY <1>1 DEF ManifestType, ScopeObject, Number, Amount, Int_
<1>3. sd \subseteq [salt : Issuer, name : RunClaim, value : {"P", "affirming", "run"}]
  <2>1. DOMAIN c = RunClaim
    BY DEF RunClaim
  <2>2. \A n \in RunClaim : c[n] \in {"P", "affirming", "run"}
    BY DEF RunClaim
  <2> QED
    BY <2>1, <2>2 DEF make_disclosure
<1>4. now + (exp - clock) \in Int
  BY MintRunAssumption
<1>5. Credential(issuer, holder) =
        [signer |-> issuer, scope |-> scope, action_hash |-> manifest.action_hash, cnf |-> holder,
         iat |-> now, exp |-> now + (exp - clock), jti |-> "mm-run", sd |-> sd]
  <2>1. issue_sd(issuer, scope, manifest.action_hash, holder, c, issuer, now) =
          [signer |-> issuer, scope |-> scope, action_hash |-> manifest.action_hash,
           cnf |-> holder, iat |-> now, exp |-> now + Ttl, jti |-> "m-1", sd |-> sd]
    BY DEF issue_sd
  <2>2. Credential(issuer, holder) =
          [issue_sd(issuer, scope, manifest.action_hash, holder, c, issuer, now)
              EXCEPT !.exp = now + (exp - clock), !.jti = "mm-run"]
    BY DEF Credential
  <2>3. PICK base : base = issue_sd(issuer, scope, manifest.action_hash, holder, c, issuer, now)
    OBVIOUS
  <2> HIDE DEF scope, sd, c
  <2>4. base = [signer |-> issuer, scope |-> scope, action_hash |-> manifest.action_hash,
                cnf |-> holder, iat |-> now, exp |-> now + Ttl, jti |-> "m-1", sd |-> sd]
    BY <2>1, <2>3
  <2>5. Credential(issuer, holder) = [base EXCEPT !.exp = now + (exp - clock), !.jti = "mm-run"]
    BY <2>2, <2>3
  <2> QED
    BY <2>4, <2>5
<1> HIDE DEF scope, sd
<1>6. manifest.action_hash \in ActHash
  BY <1>1 DEF ManifestType
<1>7. Credential(issuer, holder) \in RunCredential
  BY <1>2, <1>3, <1>4, <1>5, <1>6 DEF RunCredential
<1> QED
  BY <1>5, <1>7 DEF scope

(* Disclosures of a run have other names than what L1 and L4 look at.       *)
LEMMA RunClaims ==
    ASSUME NEW vp, vp.jwt \in RunCredential, vp.discs \subseteq vp.jwt.sd
    PROVE  Claims(vp).scope = vp.jwt.scope /\ Claims(vp).cnf = vp.jwt.cnf
<1> DEFINE names == {d.name : d \in vp.discs}
<1>1. names \subseteq RunClaim
  BY DEF RunCredential
<1>2. names \cap {"scope", "cnf"} = {}
  BY <1>1 DEF RunClaim
<1>3. {"scope", "cnf"} \subseteq (DOMAIN vp.jwt \cup names) \ {"sd"}
  BY DEF RunCredential
<1> QED
  BY <1>2, <1>3 DEF Claims

(* The six names are different and are what write() is called with.         *)
LEMMA OrderFacts ==
    /\ Order[1] = "credential.sdjwt" /\ Order[2] = "credential-preimage.jwt"
    /\ Order[3] = "issuer.jwk" /\ Order[4] = "issuer-key.pem"
    /\ Order[5] = "holder-key.pem" /\ Order[6] = "mint-record.json"
    /\ \A i, j \in 1 .. 6 : Order[i] = Order[j] => i = j
    /\ \A i \in 1 .. 6 : Order[i] \in File
<1>1. /\ Order[1] = "credential.sdjwt" /\ Order[2] = "credential-preimage.jwt"
      /\ Order[3] = "issuer.jwk" /\ Order[4] = "issuer-key.pem"
      /\ Order[5] = "holder-key.pem" /\ Order[6] = "mint-record.json"
  BY DEF Order
<1>2. \A i \in 1 .. 6 : i = 1 \/ i = 2 \/ i = 3 \/ i = 4 \/ i = 5 \/ i = 6
  OBVIOUS
<1>3. \A i, j \in 1 .. 6 : Order[i] = Order[j] => i = j
  BY <1>1, <1>2
<1>4. \A i \in 1 .. 6 : Order[i] \in File
  BY DEF File
<1> QED
  BY <1>1, <1>3, <1>4

-----------------------------------------------------------------------------
(* The mint.                                                                *)

LEMMA MintInit == Init => MintInv
<1> SUFFICES ASSUME Init PROVE MintInv
  OBVIOUS
<1>1. results \in Seq(Result) /\ Len(results) = 0
  BY DEF Init
<1>2. TypeOK
  BY DEF Init, TypeOK
<1> QED
  BY <1>1, <1>2 DEF Init, MintInv, RunPending, NotYet, MintedFresh, ResultsSay, Written,
      FrozenMinted, FrozenStaysUsable, SuccessIsChecked, AbortLeavesDirectory

(* Before the first case nothing is said of the manifest.                   *)
LEMMA NoResults ==
    ASSUME results' \in Seq(Result), Len(results') = 0, pc' # "report" PROVE ResultsSay'
BY DEF ResultsSay

(* However a run ends, short of success, it leaves the files alone.         *)
LEMMA MintEnds ==
    ASSUME MintInv, pc' = "idle", results' = <<>>, k' = 1,
           exit' \in {"aborted", "KeyError", "self-check failed", "killed"},
           exit' \in {"aborted", "KeyError"} => dir = start,
           UNCHANGED <<now, dir, used, start, frozen, manifest, exp>>
    PROVE  MintInv'
<1>1. ResultsSay'
  <2>1. results' \in Seq(Result) /\ Len(results') = 0
    BY EmptySeq
  <2> QED
    BY <2>1, NoResults
<1>2. TypeOK'
  BY DEF MintInv, TypeOK
<1>3. FrozenMinted' /\ FrozenStaysUsable'
  BY DEF MintInv, FrozenMinted, FrozenStaysUsable
<1>4. RunPending' /\ NotYet' /\ MintedFresh' /\ Written' /\ SuccessIsChecked' /\ AbortLeavesDirectory'
  BY DEF RunPending, NotYet, MintedFresh, Written, SuccessIsChecked, AbortLeavesDirectory
<1> QED
  BY <1>1, <1>2, <1>3, <1>4 DEF MintInv

LEMMA MintTick == MintInv /\ Tick => MintInv'
<1> SUFFICES ASSUME MintInv, Tick PROVE MintInv'
  OBVIOUS
<1>1. /\ now' = now + 1 /\ now \in Nat
      /\ UNCHANGED <<pc, manifest, exp, clock, minted, results, k, dir, exit, used, start, frozen>>
  BY DEF Tick, MintInv, TypeOK, args, locals, history
<1>2. MintedFresh' /\ FrozenMinted'
  BY <1>1 DEF MintInv, MintedFresh, FrozenMinted, RunCredential
<1>3. Written'
  BY <1>1 DEF MintInv, Written, Content, all_match, ordering_ok
<1>4. TypeOK'
  <2>1. now' \in Nat
    BY <1>1
  <2>2. UNCHANGED <<pc, manifest, exp, results, k, dir, exit>>
    BY <1>1
  <2> QED
    BY <2>1, <2>2 DEF MintInv, TypeOK
<1>5. ResultsSay'
  BY <1>1 DEF MintInv, ResultsSay
<1>6. RunPending' /\ NotYet' /\ FrozenStaysUsable' /\ SuccessIsChecked' /\ AbortLeavesDirectory'
  BY <1>1 DEF MintInv, RunPending, NotYet, FrozenStaysUsable, SuccessIsChecked, AbortLeavesDirectory
<1> QED
  BY <1>2, <1>3, <1>4, <1>5, <1>6 DEF MintInv

(* A run begins over whatever the last one left.                            *)
LEMMA MintStart ==
    ASSUME NEW m \in Manifests, NEW e \in Exps, MintInv, Start(m, e)
    PROVE  MintInv'
<1>1. /\ pc = "idle" /\ manifest' = m /\ exp' = e /\ pc' = "clock" /\ start' = dir /\ exit' = "none"
      /\ UNCHANGED <<now, clock, minted, results, k, dir, used, frozen>>
  BY DEF Start, locals
<1>2. results = <<>>
  BY <1>1 DEF MintInv, NotYet
<1>3. TypeOK'
  BY <1>1 DEF MintInv, TypeOK
<1>4. ResultsSay'
  <2>1. results' \in Seq(Result) /\ Len(results') = 0
    BY <1>1, <1>2, EmptySeq
  <2> QED
    BY <1>1, <2>1, NoResults
<1>5. RunPending' /\ NotYet' /\ MintedFresh' /\ Written'
  BY <1>1, <1>2 DEF MintInv, RunPending, NotYet, MintedFresh, Written
<1>6. FrozenMinted' /\ FrozenStaysUsable' /\ SuccessIsChecked' /\ AbortLeavesDirectory'
  BY <1>1 DEF MintInv, FrozenMinted, FrozenStaysUsable, SuccessIsChecked, AbortLeavesDirectory
<1> QED
  BY <1>3, <1>4, <1>5, <1>6 DEF MintInv

LEMMA MintReadClock == MintInv /\ ReadClock => MintInv'
<1> SUFFICES ASSUME MintInv, ReadClock PROVE MintInv'
  OBVIOUS
<1>1. UNCHANGED <<now, dir, history>> /\ pc = "clock" /\ dir = start
  BY DEF ReadClock, MintInv, RunPending
<1>2. CASE pc' = "mint" /\ clock' = now /\ UNCHANGED <<args, minted, results, k, exit>>
  BY <1>1, <1>2 DEF MintInv, TypeOK, RunPending, NotYet, MintedFresh, ResultsSay, Written,
      FrozenMinted, FrozenStaysUsable, SuccessIsChecked, AbortLeavesDirectory, args, history
<1>3. CASE Ends("aborted")
  BY <1>1, <1>3, MintEnds DEF Ends, args, history
<1> QED
  BY <1>2, <1>3 DEF ReadClock

(* Fresh keys: no frozen credential was signed with them.                   *)
LEMMA MintMint ==
    ASSUME NEW issuer \in Issuer, NEW holder \in Holder, MintInv, Mint(issuer, holder)
    PROVE  MintInv'
<1>1. /\ pc = "mint" /\ pc' = "check" /\ used \cap {issuer, holder} = {}
      /\ minted' = [issuer |-> issuer, holder |-> holder, jwt |-> Credential(issuer, holder)]
      /\ used' = used \cup {issuer, holder}
      /\ UNCHANGED <<now, manifest, exp, clock, results, k, dir, exit, start, frozen>>
  BY DEF Mint, args
<1>2. manifest \in Manifests /\ exp \in Exps /\ now \in Nat /\ clock \in Nat /\ results = <<>>
      /\ k = 1 /\ exit = "none" /\ dir = start
  BY <1>1 DEF MintInv, TypeOK, NotYet, RunPending
<1>3. MintedFresh'
  <2>1. now <= now
    BY <1>2
  <2>2. \A d \in frozen : d.signer # issuer
    BY <1>1 DEF MintInv, FrozenMinted
  <2> QED
    BY <1>1, <1>2, <2>1, <2>2, CredentialType DEF MintedFresh
<1>4. TypeOK'
  BY <1>1, <1>2 DEF MintInv, TypeOK
<1>5. RunPending' /\ NotYet' /\ ResultsSay' /\ Written'
  BY <1>1, <1>2 DEF MintInv, RunPending, NotYet, ResultsSay, Written
<1>6. FrozenMinted' /\ FrozenStaysUsable' /\ SuccessIsChecked' /\ AbortLeavesDirectory'
  BY <1>1 DEF MintInv, FrozenMinted, FrozenStaysUsable, SuccessIsChecked, AbortLeavesDirectory
<1> QED
  BY <1>3, <1>4, <1>5, <1>6 DEF MintInv

(* A case of the self-check records what is so of the manifest: L4 works    *)
(* with the scope main wrote from it.                                       *)
LEMMA MintCase ==
    ASSUME MintInv, pc = "check", NEW vp, NEW amount \in Amount, NEW gates,
           vp.jwt = minted.jwt, vp.discs \subseteq vp.jwt.sd,
           NEW req, req = [action_id |-> manifest.action_id, outcome |-> manifest.outcome,
                           amount |-> amount]
    PROVE  /\ verify_scoped(gates, vp, minted.issuer, "rp", req, now) \in {"ACCEPT", "DENY", "raised"}
           /\ Committed(Claims(vp), req) \in BOOLEAN
           /\ WithinLimit(Claims(vp), req) \in BOOLEAN
           /\ WithinLimit(Claims(vp), req) <=> Int_(amount) <= Int_(manifest.max_spend)
           /\ verify_scoped(gates, vp, minted.issuer, "rp", req, now) = "ACCEPT" =>
                 /\ manifest.action_id \in manifest.allowed_actions
                 /\ Int_(amount) <= Int_(manifest.max_spend)
<1>1. /\ Claims(vp).scope.allowed_actions = manifest.allowed_actions
      /\ Claims(vp).scope.max_spend = Int_(manifest.max_spend)
  BY RunClaims DEF MintInv, MintedFresh
<1>2. WithinLimit(Claims(vp), req) <=> Int_(amount) <= Int_(manifest.max_spend)
  BY <1>1 DEF WithinLimit
<1>3. Committed(Claims(vp), req) => manifest.action_id \in manifest.allowed_actions
  BY <1>1 DEF Committed
<1>4. /\ verify_scoped(gates, vp, minted.issuer, "rp", req, now) \in {"ACCEPT", "DENY", "raised"}
      /\ verify_scoped(gates, vp, minted.issuer, "rp", req, now) = "ACCEPT" =>
            Committed(Claims(vp), req) /\ WithinLimit(Claims(vp), req)
  BY DEF verify_scoped, L4_in_scope
<1>5. Committed(Claims(vp), req) \in BOOLEAN /\ WithinLimit(Claims(vp), req) \in BOOLEAN
  BY DEF Committed, WithinLimit
<1> QED
  BY <1>2, <1>3, <1>4, <1>5

LEMMA MintSelfCheck == MintInv /\ SelfCheck => MintInv'
<1> SUFFICES ASSUME MintInv, SelfCheck PROVE MintInv'
  OBVIOUS
<1> DEFINE amount == IF results = <<>> THEN manifest.positive ELSE manifest.over_limit
           req == [action_id |-> manifest.action_id, outcome |-> manifest.outcome, amount |-> amount]
           vp == present_sd(minted.jwt, minted.holder, "rp", AUD, {"principal", "ear_status"}, now)
           quote == [nonce |-> "quote", status |-> "affirming"]
           gates == verify([nonce |-> "rp", challenge |-> "quote"], AUD, vp, minted.issuer,
                           quote, quote, now)
           result == [verdict |-> verify_scoped(gates, vp, minted.issuer, "rp", req, now),
                      committed |-> Committed(Claims(vp), req),
                      within |-> WithinLimit(Claims(vp), req)]
<1>1. pc = "check" /\ UNCHANGED <<now, dir, history>>
  BY DEF SelfCheck
<1>2. /\ manifest \in Manifests /\ Len(results) < 2 /\ exit = "none" /\ dir = start /\ k = 1
      /\ results \in Seq(Result)
  BY <1>1 DEF MintInv, TypeOK, RunPending, NotYet, ResultsSay
<1>3. CASE Ends("KeyError")
  BY <1>1, <1>2, <1>3, MintEnds DEF Ends, args, history
<1>4. CASE /\ results' = Append(results, result)
           /\ pc' = IF results = <<>> THEN "check" ELSE "open"
           /\ UNCHANGED <<args, clock, minted, k, exit>>
  <2>1. amount \in Amount
    BY <1>2, MintRunAssumption DEF ManifestType, Number
  <2>2. vp.jwt = minted.jwt /\ vp.discs \subseteq vp.jwt.sd
    BY DEF present_sd
  <2>3. PICK r : r = result
    OBVIOUS
  <2> HIDE DEF amount, vp, gates
  <2>4. /\ r \in Result
        /\ r.within <=> Int_(amount) <= Int_(manifest.max_spend)
        /\ r.verdict = "ACCEPT" => /\ manifest.action_id \in manifest.allowed_actions
                                   /\ Int_(amount) <= Int_(manifest.max_spend)
    BY <1>1, <2>1, <2>2, <2>3, MintCase DEF Result
  <2> HIDE DEF result
  <2>5. /\ results' \in Seq(Result) /\ Len(results') = Len(results) + 1
        /\ results'[Len(results) + 1] = r
        /\ \A i \in 1 .. Len(results) : results'[i] = results[i]
        /\ Len(results) \in Nat
    BY <1>2, <1>4, <2>3, <2>4, AppendProperties, LenProperties
  <2>6. results = <<>> <=> Len(results) = 0
    BY <1>2, EmptySeq
  <2>7. ResultsSay'
    <3>1. UNCHANGED manifest
      BY <1>4 DEF args
    <3>2. CASE results = <<>>
      <4>1. Len(results') = 1 /\ results'[1] = r /\ amount = manifest.positive /\ pc' = "check"
        BY <1>4, <2>5, <2>6, <3>2 DEF amount
      <4>2. results'[1].verdict = "ACCEPT" =>
              /\ manifest.action_id \in manifest.allowed_actions
              /\ Int_(manifest.positive) <= Int_(manifest.max_spend)
        BY <2>4, <4>1
      <4>3. Len(results') = 1 /\ results' \in Seq(Result) /\ manifest' = manifest /\ pc' = "check"
        BY <2>5, <3>1, <4>1
      <4> QED
        BY <4>2, <4>3 DEF ResultsSay
    <3>3. CASE results # <<>>
      <4>1. /\ Len(results) = 1 /\ Len(results') = 2 /\ results'[2] = r /\ results'[1] = results[1]
            /\ amount = manifest.over_limit /\ pc' = "open"
        <5>1. Len(results) = 1
          <6>1. Len(results) # 0
            BY <2>6, <3>3
          <6>2. Len(results) < 2 /\ Len(results) \in Nat
            BY <1>2, <2>5
          <6>3. \A n \in Nat : n # 0 /\ n < 2 => n = 1
            OBVIOUS
          <6> QED
            BY <6>1, <6>2, <6>3, Zenon
        <5>2. results'[2] = r /\ results'[1] = results[1] /\ Len(results') = 2
          BY <2>5, <5>1
        <5> QED
          BY <1>4, <3>3, <5>1, <5>2 DEF amount
      <4>2. Int_(manifest.over_limit) \in Int /\ Int_(manifest.max_spend) \in Int
        BY <1>2, MintRunAssumption DEF ManifestType, Number, Amount, Int_
      <4>3. ~r.within => Int_(manifest.over_limit) > Int_(manifest.max_spend)
        BY <2>4, <4>1, <4>2
      <4> QED
        BY <2>5, <3>1, <4>1, <4>3 DEF MintInv, ResultsSay
    <3> QED
      BY <3>2, <3>3
  <2>8. TypeOK'
    BY <1>1, <1>2, <1>4, <2>5, <2>6 DEF MintInv, TypeOK, args
  <2>9. Written'
    BY <1>1, <1>2, <1>4 DEF Written
  <2>10. RunPending' /\ NotYet' /\ MintedFresh'
    BY <1>1, <1>2, <1>4 DEF MintInv, RunPending, NotYet, MintedFresh, args, history
  <2>11. FrozenMinted' /\ FrozenStaysUsable' /\ SuccessIsChecked' /\ AbortLeavesDirectory'
    BY <1>1, <1>2, <1>4 DEF MintInv, FrozenMinted, FrozenStaysUsable, SuccessIsChecked,
        AbortLeavesDirectory, history
  <2> QED
    BY <2>7, <2>8, <2>9, <2>10, <2>11 DEF MintInv
<1> QED
  BY <1>3, <1>4 DEF SelfCheck

(* Opening the first file takes the frozen credential away before any key   *)
(* beside it is touched.                                                    *)
LEMMA MintOpen == MintInv /\ Open => MintInv'
<1> SUFFICES ASSUME MintInv, Open PROVE MintInv'
  OBVIOUS
<1>1. /\ pc = "open" /\ pc' = "fill" /\ dir' = [dir EXCEPT ![Order[k]] = Truncated]
      /\ UNCHANGED <<now, manifest, exp, clock, minted, results, k, exit, used, start, frozen>>
  BY DEF Open, args, locals, history
<1>2. k \in 1 .. 6 /\ DOMAIN dir = File /\ exit = "none" /\ Len(results) = 2
  BY <1>1 DEF MintInv, TypeOK, RunPending
<1>3. Order[k] \in File /\ \A f \in File : dir'[f] = IF f = Order[k] THEN Truncated ELSE dir[f]
  BY <1>1, <1>2, OrderFacts
<1>4. UNCHANGED <<Content(Order[1]), Content(Order[2]), Content(Order[3]), Content(Order[4]),
                  Content(Order[5]), Content(Order[6])>>
  BY <1>1 DEF Content, all_match, ordering_ok
<1>5. Written'
  <2>1. \A j \in 1 .. 6 : UNCHANGED Content(Order[j])
    BY <1>1 DEF Content, all_match, ordering_ok
  <2>2. \A j \in 1 .. 6 : j < k => dir'[Order[j]] = dir[Order[j]]
    BY <1>2, <1>3, OrderFacts
  <2> QED
    BY <1>1, <1>2, <1>3, <2>1, <2>2 DEF MintInv, Written
<1>6. FrozenStaysUsable'
  <2>1. CASE k = 1
    <3>1. dir'["credential.sdjwt"] = Truncated
      BY <1>3, <2>1, OrderFacts
    <3> QED
      BY <1>1, <3>1, FileAssumption DEF MintInv, FrozenMinted, FrozenStaysUsable
  <2>2. CASE k > 1
    <3>1. dir'["credential.sdjwt"] = minted.jwt
      BY <1>1, <1>2, <1>3, <2>2, OrderFacts DEF MintInv, Written, Content
    <3> QED
      BY <1>1, <3>1 DEF MintInv, MintedFresh, FrozenStaysUsable
  <2> QED
    BY <1>2, <2>1, <2>2
<1>7. TypeOK'
  BY <1>1, <1>2 DEF MintInv, TypeOK
<1>8. RunPending' /\ NotYet' /\ MintedFresh' /\ ResultsSay'
  BY <1>1 DEF MintInv, RunPending, NotYet, MintedFresh, ResultsSay
<1>9. FrozenMinted' /\ SuccessIsChecked' /\ AbortLeavesDirectory'
  BY <1>1, <1>2 DEF MintInv, FrozenMinted, SuccessIsChecked, AbortLeavesDirectory
<1> QED
  BY <1>5, <1>6, <1>7, <1>8, <1>9 DEF MintInv

LEMMA MintFill == MintInv /\ Fill => MintInv'
<1> SUFFICES ASSUME MintInv, Fill PROVE MintInv'
  OBVIOUS
<1>1. /\ pc = "fill" /\ dir' = [dir EXCEPT ![Order[k]] = Content(Order[k])] /\ k' = k + 1
      /\ pc' = IF k = 6 THEN "report" ELSE "open"
      /\ UNCHANGED <<now, manifest, exp, clock, minted, results, exit, used, start, frozen>>
  BY DEF Fill, args, history
<1>2. k \in 1 .. 6 /\ DOMAIN dir = File /\ exit = "none" /\ Len(results) = 2
  BY <1>1 DEF MintInv, TypeOK, RunPending
<1>3. \A f \in File : dir'[f] = IF f = Order[k] THEN Content(Order[k]) ELSE dir[f]
  BY <1>1, <1>2, OrderFacts
<1>4. Written'
  <2>1. \A j \in 1 .. 6 : UNCHANGED Content(Order[j])
    BY <1>1 DEF Content, all_match, ordering_ok
  <2>2. \A j \in 1 .. 6 : j < k => dir[Order[j]] = Content(Order[j])
    BY <1>1 DEF MintInv, Written
  <2>3. \A j \in 1 .. 6 : j < k + 1 => dir'[Order[j]] = Content(Order[j])
    BY <1>2, <1>3, <2>2, OrderFacts
  <2> QED
    BY <1>1, <1>2, <2>1, <2>3 DEF Written
<1>5. FrozenStaysUsable'
  <2>1. dir'["credential.sdjwt"] = minted.jwt
    <3>1. CASE k = 1
      BY <1>3, <3>1, OrderFacts DEF Content
    <3>2. CASE k > 1
      BY <1>1, <1>2, <1>3, <3>2, OrderFacts DEF MintInv, Written, Content
    <3> QED
      BY <1>2, <3>1, <3>2
  <2> QED
    BY <1>1, <2>1 DEF MintInv, MintedFresh, FrozenStaysUsable
<1>6. TypeOK'
  BY <1>1, <1>2 DEF MintInv, TypeOK
<1>7. RunPending' /\ NotYet' /\ MintedFresh' /\ ResultsSay'
  BY <1>1, <1>2 DEF MintInv, RunPending, NotYet, MintedFresh, ResultsSay
<1>8. FrozenMinted' /\ SuccessIsChecked' /\ AbortLeavesDirectory'
  BY <1>1, <1>2 DEF MintInv, FrozenMinted, SuccessIsChecked, AbortLeavesDirectory
<1> QED
  BY <1>4, <1>5, <1>6, <1>7, <1>8 DEF MintInv

(* By then every file is of this run.                                       *)
LEMMA MintReport == MintInv /\ Report => MintInv'
<1> SUFFICES ASSUME MintInv, Report PROVE MintInv'
  OBVIOUS
<1>1. pc = "report" /\ k = 7 /\ Len(results) = 2
  BY DEF Report, MintInv, Written, ResultsSay
<1>2. CASE Ends("self-check failed") /\ UNCHANGED frozen
  BY <1>2, MintEnds DEF Report, Ends, args
<1>3. CASE all_match /\ ordering_ok /\ Ends("ok") /\ frozen' = frozen \cup {minted.jwt}
  <2>1. /\ pc' = "idle" /\ exit' = "ok" /\ results' = <<>> /\ k' = 1
        /\ UNCHANGED <<now, dir, used, start, manifest, exp>>
    BY <1>3 DEF Report, Ends, args
  <2>2. \A j \in 1 .. 6 : dir[Order[j]] = Content(Order[j])
    BY <1>1 DEF MintInv, Written
  <2>3. /\ dir["credential.sdjwt"] = minted.jwt /\ dir["credential-preimage.jwt"] = minted.jwt
        /\ dir["issuer.jwk"] = minted.issuer /\ dir["issuer-key.pem"] = minted.issuer
        /\ dir["holder-key.pem"] = minted.holder /\ dir["mint-record.json"].digest = minted.jwt
    BY <2>2, OrderFacts DEF Content
  <2>4. FrozenMinted' /\ FrozenStaysUsable'
    BY <1>1, <1>3, <2>1, <2>3 DEF MintInv, MintedFresh, FrozenMinted, FrozenStaysUsable
  <2>5. SuccessIsChecked'
    <3>1. results[1].verdict = "ACCEPT" /\ ~results[2].within
      BY <1>3 DEF all_match, ordering_ok
    <3> QED
      BY <1>1, <2>1, <2>3, <3>1 DEF MintInv, ResultsSay, SuccessIsChecked
  <2>6. ResultsSay'
    <3>1. results' \in Seq(Result) /\ Len(results') = 0
      BY <2>1
    <3> QED
      BY <2>1, <3>1, NoResults
  <2>7. TypeOK'
    BY <2>1 DEF MintInv, TypeOK
  <2>8. RunPending' /\ NotYet' /\ MintedFresh' /\ Written' /\ AbortLeavesDirectory'
    BY <2>1 DEF RunPending, NotYet, MintedFresh, Written, AbortLeavesDirectory
  <2> QED
    BY <2>4, <2>5, <2>6, <2>7, <2>8 DEF MintInv
<1> QED
  BY <1>2, <1>3 DEF Report

LEMMA MintNext == MintInv /\ [Next]_vars => MintInv'
<1> SUFFICES ASSUME MintInv, [Next]_vars PROVE MintInv'
  OBVIOUS
<1>1. CASE Killed
  BY <1>1, MintEnds DEF Killed, Ends, args, history
<1>2. CASE UNCHANGED vars
  <2>1. UNCHANGED <<now, pc, manifest, exp, clock, minted, results, k, dir, exit, used, start, frozen>>
    BY <1>2 DEF vars
  <2>2. TypeOK' /\ RunPending' /\ NotYet' /\ MintedFresh'
    BY <2>1 DEF MintInv, TypeOK, RunPending, NotYet, MintedFresh
  <2>3. ResultsSay'
    BY <2>1 DEF MintInv, ResultsSay
  <2>4. Written'
    BY <2>1 DEF MintInv, Written, Content, all_match, ordering_ok
  <2>5. FrozenMinted' /\ FrozenStaysUsable' /\ SuccessIsChecked' /\ AbortLeavesDirectory'
    BY <2>1 DEF MintInv, FrozenMinted, FrozenStaysUsable, SuccessIsChecked, AbortLeavesDirectory
  <2> QED
    BY <2>2, <2>3, <2>4, <2>5 DEF MintInv
<1> QED
  BY <1>1, <1>2, MintTick, MintStart, MintReadClock, MintMint, MintSelfCheck, MintOpen, MintFill,
     MintReport DEF Next

(* The invariant of the mint, from the checks of its inputs to the last     *)
(* file.                                                                    *)
THEOREM MintSafe == Spec => []MintInv
BY MintInit, MintNext, PTL DEF Spec

(* A frozen credential is never found beside keys of another mint: opening  *)
(* the first file takes it away before any key is touched, and the next run *)
(* has keys of its own.                                                     *)
THEOREM FrozenUsable == Spec => []FrozenStaysUsable
<1>1. MintInv => FrozenStaysUsable
  BY DEF MintInv
<1> QED
  BY <1>1, MintSafe, PTL

(* Exit status 0 means that the record beside the credential is about it,   *)
(* that the manifest allows the positive case and limits the other.         *)
THEOREM SuccessChecked == Spec => []SuccessIsChecked
<1>1. MintInv => SuccessIsChecked
  BY DEF MintInv
<1> QED
  BY <1>1, MintSafe, PTL

(* A run that aborts or dies of a KeyError in the self-check has written    *)
(* nothing.                                                                 *)
THEOREM AbortHarmless == Spec => []AbortLeavesDirectory
<1>1. MintInv => AbortLeavesDirectory
  BY DEF MintInv
<1> QED
  BY <1>1, MintSafe, PTL

-----------------------------------------------------------------------------
(* The check beside the mint.                                               *)

(* The check changes nothing of the mint, so that all of the above holds    *)
(* with it running.                                                         *)
LEMMA CheckReadsOnly == CheckStep => UNCHANGED vars
BY DEF CheckStep, ReadCredential, ReadHolder, ReadIssuer, PresentNext, WriteRecord, CheckEnds,
       Answers, Goes

LEMMA CheckMintNext == MintInv /\ [CheckStep \/ MintStep]_allVars => MintInv'
<1>1. [CheckStep \/ MintStep]_allVars => [Next]_vars
  BY CheckReadsOnly DEF MintStep, allVars
<1> QED
  BY <1>1, MintNext

LEMMA CheckInitially == CheckInit => CheckInv
<1> SUFFICES ASSUME CheckInit PROVE CheckInv
  OBVIOUS
<1>1. TypeOK
  BY MintInit DEF CheckInit, MintInv
<1>2. /\ check.pc = "idle" /\ check.verified = {} /\ check = NoCheck /\ disturbed = FALSE
  BY DEF CheckInit, NoCheck
<1> QED
  BY <1>1, <1>2 DEF CheckInv, CheckTypeOK, CheckFollows, VerifiedByKeys, Running, Undisturbed,
      TriedVerified, CheckIsRight

(* Whatever the mint does meanwhile: grants are not withdrawn, time passes, *)
(* and a write is noticed in disturbed.                                     *)
LEMMA NextGrows == MintInv /\ Next => frozen \subseteq frozen' /\ now <= now' /\ now \in Nat /\ now' \in Nat
<1> SUFFICES ASSUME MintInv, Next
             PROVE  frozen \subseteq frozen' /\ now <= now' /\ now \in Nat /\ now' \in Nat
  OBVIOUS
<1>1. now \in Nat
  BY DEF MintInv, TypeOK
<1>2. now' = now \/ now' = now + 1
  BY DEF Next, Tick, Start, ReadClock, Mint, SelfCheck, Open, Fill, Report, Killed
<1>3. frozen \subseteq frozen'
  BY DEF Next, Tick, Start, ReadClock, Mint, SelfCheck, Open, Fill, Report, Killed, history
<1> QED
  BY <1>1, <1>2, <1>3

LEMMA CheckMintStep == ASSUME MintInv, TypeOK', CheckInv, MintStep PROVE CheckInv'
<1>1. /\ frozen \subseteq frozen' /\ now <= now' /\ now \in Nat /\ now' \in Nat
  BY NextGrows DEF MintStep
<1>2. check' = check /\ disturbed' = (disturbed \/ (check.pc # "idle" /\ dir' # dir))
  BY DEF MintStep
<1>3. disturbed' \in BOOLEAN /\ (disturbed => disturbed')
  BY <1>2 DEF CheckInv, CheckFollows
<1>4. CheckTypeOK' /\ CheckFollows' /\ VerifiedByKeys'
  BY <1>1, <1>2, <1>3 DEF CheckInv, CheckTypeOK, CheckFollows, VerifiedByKeys
<1>5. Undisturbed'
  BY <1>2 DEF CheckInv, Undisturbed, Running
<1>6. check.pc # "idle" => check.digest.exp \in Int /\ Leeway \in Nat
  BY MandateAssumption DEF CheckInv, CheckFollows, MintInv, FrozenMinted, RunCredential
<1>7. TriedVerified'
  BY <1>1, <1>2, <1>3, <1>6 DEF CheckInv, TriedVerified
<1>8. CheckIsRight'
  BY <1>1, <1>2, <1>3, <1>6 DEF CheckInv, CheckIsRight, CheckFollows
<1> QED
  BY <1>4, <1>5, <1>7, <1>8 DEF CheckInv

LEMMA CheckReadCredential ==
    ASSUME MintInv, TypeOK', CheckInv, NEW d \in frozen, ReadCredential(d)
    PROVE  CheckInv'
<1>1. d \in RunCredential /\ d # Absent
  BY FileAssumption DEF MintInv, FrozenMinted
<1>2. UNCHANGED vars /\ UNCHANGED disturbed
  BY DEF ReadCredential, Answers, Goes
<1>3. UNCHANGED <<now, dir, frozen>>
  BY <1>2 DEF vars
<1>4. /\ check'.digest = d /\ check'.credential = dir["credential.sdjwt"]
      /\ check'.verified = {} /\ check'.n = 1 /\ check'.pc \in {"holder", "done"}
      /\ check'.pc = "done" => dir["credential.sdjwt"] = Absent /\ check'.answer = "raises"
      /\ DOMAIN check' = DOMAIN NoCheck
  BY DEF ReadCredential, Answers, Goes, NoCheck
<1>5. CheckTypeOK' /\ CheckFollows' /\ VerifiedByKeys' /\ TriedVerified'
  BY <1>2, <1>3, <1>4 DEF CheckInv, CheckTypeOK, CheckFollows, VerifiedByKeys, TriedVerified
<1>6. Undisturbed'
  BY <1>2, <1>3, <1>4 DEF Undisturbed, Running, MintInv, FrozenStaysUsable
<1>7. CheckIsRight'
  BY <1>1, <1>4 DEF CheckIsRight
<1> QED
  BY <1>5, <1>6, <1>7 DEF CheckInv

LEMMA CheckReadHolder == ASSUME MintInv, TypeOK', CheckInv, ReadHolder PROVE CheckInv'
<1>1. UNCHANGED vars /\ UNCHANGED disturbed /\ check.pc = "holder"
  BY DEF ReadHolder, Answers, Goes
<1>2. UNCHANGED <<now, dir, frozen>>
  BY <1>1 DEF vars
<1>3. DOMAIN check = {"pc", "digest", "credential", "holder", "issuer", "n", "verified", "answer"}
  BY DEF CheckInv, CheckFollows, NoCheck
<1>4. /\ check'.digest = check.digest /\ check'.credential = check.credential
      /\ check'.holder = dir["holder-key.pem"]
      /\ check'.verified = check.verified /\ check'.n = check.n
      /\ check'.pc \in {"issuer", "done"} /\ DOMAIN check' = DOMAIN check
      /\ check'.pc = "done" => check'.holder \in {Absent, Truncated} /\ check'.answer = "raises"
  BY <1>3 DEF ReadHolder, Answers, Goes
<1>5. CheckTypeOK' /\ CheckFollows' /\ VerifiedByKeys' /\ TriedVerified'
  BY <1>1, <1>2, <1>4 DEF CheckInv, CheckTypeOK, CheckFollows, VerifiedByKeys, TriedVerified
<1>6. Undisturbed'
  BY <1>1, <1>2, <1>4 DEF CheckInv, Undisturbed, Running
<1>7. CheckIsRight'
  <2>1. check.digest.cnf \in Holder
    BY <1>1 DEF CheckInv, CheckFollows, MintInv, FrozenMinted, RunCredential
  <2>2. ~disturbed /\ check.credential = check.digest => dir["holder-key.pem"] = check.digest.cnf
    BY <1>1 DEF CheckInv, Undisturbed, Running
  <2> QED
    BY <1>1, <1>4, <2>1, <2>2, FileAssumption DEF CheckIsRight
<1> QED
  BY <1>5, <1>6, <1>7 DEF CheckInv

LEMMA CheckReadIssuer == ASSUME MintInv, TypeOK', CheckInv, ReadIssuer PROVE CheckInv'
<1>1. UNCHANGED vars /\ UNCHANGED disturbed /\ check.pc = "issuer"
  BY DEF ReadIssuer, Answers, Goes
<1>2. UNCHANGED <<now, dir, frozen>>
  BY <1>1 DEF vars
<1>3. DOMAIN check = {"pc", "digest", "credential", "holder", "issuer", "n", "verified", "answer"}
  BY DEF CheckInv, CheckFollows, NoCheck
<1>4. /\ check'.digest = check.digest /\ check'.credential = check.credential
      /\ check'.holder = check.holder /\ check'.issuer = dir["issuer.jwk"]
      /\ check'.verified = check.verified /\ check'.n = check.n
      /\ check'.pc \in {"present", "done"} /\ DOMAIN check' = DOMAIN check
      /\ check'.pc = "present" => check.credential = check.digest
      /\ check'.pc = "done" =>
            /\ check'.answer # "passes"
            /\ check'.issuer \in {Absent, Truncated} \/ check.credential # check.digest
  BY <1>3 DEF ReadIssuer, Answers, Goes
<1>5. CheckTypeOK' /\ CheckFollows' /\ VerifiedByKeys' /\ TriedVerified'
  BY <1>1, <1>2, <1>4 DEF CheckInv, CheckTypeOK, CheckFollows, VerifiedByKeys, TriedVerified
<1>6. Undisturbed'
  BY <1>1, <1>2, <1>4 DEF CheckInv, Undisturbed, Running
<1>7. CheckIsRight'
  <2>1. check.digest.signer \in Issuer
    BY <1>1 DEF CheckInv, CheckFollows, MintInv, FrozenMinted, RunCredential
  <2>2. ~disturbed /\ check.credential = check.digest => dir["issuer.jwk"] = check.digest.signer
    BY <1>1 DEF CheckInv, Undisturbed, Running
  <2> QED
    BY <1>1, <1>4, <2>1, <2>2, FileAssumption DEF CheckIsRight
<1> QED
  BY <1>5, <1>6, <1>7 DEF CheckInv

(* A variation verifies under the keys the credential was minted with, as   *)
(* long as it lasts, and under no others.                                   *)
LEMMA VariationVerifies ==
    ASSUME NEW jwt \in RunCredential, NEW holder, NEW issuer, NEW n, NEW reveal,
           now \in Nat, jwt.iat <= now,
           NEW vp, vp = present_sd(jwt, holder, n, n, reveal, now)
    PROVE  /\ verify_presentation_sd(vp, issuer, n, n, now) => issuer = jwt.signer /\ holder = jwt.cnf
           /\ issuer = jwt.signer /\ holder = jwt.cnf /\ now < jwt.exp + Leeway =>
                 verify_presentation_sd(vp, issuer, n, n, now)
<1>1. /\ vp.jwt = jwt /\ vp.discs \subseteq jwt.sd
      /\ vp.kb.signer = holder /\ vp.kb.iat = now /\ vp.kb.aud = n /\ vp.kb.nonce = n
      /\ vp.kb.sd_hash = SdHash(vp.jwt, vp.discs)
  BY DEF present_sd
<1>2. Claims(vp).cnf = jwt.cnf
  BY <1>1, RunClaims
<1>3. verify_presentation_sd(vp, issuer, n, n, now) => issuer = jwt.signer /\ holder = jwt.cnf
  BY <1>1, <1>2 DEF verify_presentation_sd, IssuerSigned, HolderBound, SignedBy
<1>4. ASSUME issuer = jwt.signer, holder = jwt.cnf, now < jwt.exp + Leeway
      PROVE  verify_presentation_sd(vp, issuer, n, n, now)
  <2>1. jwt.iat \in Nat /\ jwt.exp \in Int /\ Leeway \in Nat
    BY MandateAssumption DEF RunCredential
  <2>2. jwt.iat <= now + Leeway /\ jwt.exp > now - Leeway /\ now <= now + Leeway
    BY <1>4, <2>1
  <2>3. IssuerSigned(vp, issuer, now)
    BY <1>1, <1>4, <2>2 DEF IssuerSigned, SignedBy, NotFromFuture, NotExpired
  <2>4. HolderBound(vp, n, n, now)
    BY <1>1, <1>2, <1>4, <2>2 DEF HolderBound, SignedBy, NotFromFuture
  <2> QED
    BY <1>1, <2>3, <2>4 DEF verify_presentation_sd
<1> QED
  BY <1>3, <1>4

LEMMA CheckPresentNext == ASSUME MintInv, TypeOK', CheckInv, PresentNext PROVE CheckInv'
<1>1. UNCHANGED vars /\ UNCHANGED disturbed /\ check.pc = "present"
  BY DEF PresentNext, Goes
<1>2. UNCHANGED <<now, dir, frozen>> /\ now \in Nat
  BY <1>1 DEF vars, MintInv, TypeOK
<1>3. DOMAIN check = {"pc", "digest", "credential", "holder", "issuer", "n", "verified", "answer"}
  BY DEF CheckInv, CheckFollows, NoCheck
<1>4. /\ check.credential = check.digest /\ check.n \in 1 .. 6
      /\ check.verified \subseteq 1 .. 6
      /\ check.digest \in frozen
  BY <1>1 DEF CheckInv, CheckTypeOK, CheckFollows
<1>5. check.digest \in RunCredential /\ check.digest.iat <= now
  BY <1>4 DEF MintInv, FrozenMinted
<1>6. PICK vp : vp = present_sd(check.credential, check.holder, check.n, check.n, Reveal[check.n], now)
  OBVIOUS
<1> DEFINE ok == verify_presentation_sd(vp, check.issuer, check.n, check.n, now)
<1>7. /\ ok => check.issuer = check.digest.signer /\ check.holder = check.digest.cnf
      /\ check.issuer = check.digest.signer /\ check.holder = check.digest.cnf
            /\ now < check.digest.exp + Leeway => ok
  BY <1>2, <1>4, <1>5, <1>6, VariationVerifies
<1>8. /\ check'.digest = check.digest /\ check'.credential = check.credential
      /\ check'.holder = check.holder /\ check'.issuer = check.issuer
      /\ check'.n = check.n + 1 /\ DOMAIN check' = DOMAIN check
      /\ check'.pc = IF check.n = 6 THEN "record" ELSE "present"
      /\ check'.verified = IF ok THEN check.verified \cup {check.n} ELSE check.verified
  BY <1>3, <1>6 DEF PresentNext, Goes
<1> HIDE DEF ok
<1>9. CheckTypeOK' /\ CheckFollows'
  BY <1>1, <1>2, <1>4, <1>8 DEF CheckInv, CheckTypeOK, CheckFollows
<1>10. VerifiedByKeys'
  BY <1>7, <1>8 DEF CheckInv, VerifiedByKeys
<1>11. Undisturbed'
  BY <1>1, <1>2, <1>8 DEF CheckInv, Undisturbed, Running
<1>12. TriedVerified'
  <2> SUFFICES ASSUME ~disturbed, now < check.digest.exp + Leeway
               PROVE  1 .. (check'.n - 1) \subseteq check'.verified
    BY <1>1, <1>2, <1>8 DEF TriedVerified
  <2>1. ok
    BY <1>1, <1>4, <1>7 DEF CheckInv, Undisturbed, Running
  <2>2. 1 .. (check.n - 1) \subseteq check.verified
    BY <1>1 DEF CheckInv, TriedVerified
  <2>3. check'.n - 1 = check.n /\ check'.verified = check.verified \cup {check.n}
    BY <1>4, <1>8, <2>1
  <2> QED
    BY <1>4, <2>2, <2>3
<1>13. CheckIsRight'
  BY <1>8 DEF CheckIsRight
<1> QED
  BY <1>9, <1>10, <1>11, <1>12, <1>13 DEF CheckInv

LEMMA CheckWriteRecord == ASSUME MintInv, TypeOK', CheckInv, WriteRecord PROVE CheckInv'
<1>1. UNCHANGED vars /\ UNCHANGED disturbed /\ check.pc = "record"
  BY DEF WriteRecord, Answers, Goes
<1>2. UNCHANGED <<now, dir, frozen>> /\ now \in Nat
  BY <1>1 DEF vars, MintInv, TypeOK
<1>3. DOMAIN check = {"pc", "digest", "credential", "holder", "issuer", "n", "verified", "answer"}
  BY DEF CheckInv, CheckFollows, NoCheck
<1>4. /\ check'.digest = check.digest /\ check'.credential = check.credential
      /\ check'.holder = check.holder /\ check'.issuer = check.issuer
      /\ check'.n = check.n /\ check'.verified = check.verified /\ DOMAIN check' = DOMAIN check
      /\ check'.pc = "done" /\ check'.answer = Finding
  BY <1>3 DEF WriteRecord, Answers, Goes
<1>5. CheckTypeOK' /\ CheckFollows' /\ VerifiedByKeys' /\ Undisturbed' /\ TriedVerified'
  BY <1>1, <1>2, <1>4 DEF CheckInv, CheckTypeOK, CheckFollows, VerifiedByKeys, Undisturbed, Running,
      TriedVerified
<1>6. CheckIsRight'
  <2>1. check.verified = 1 .. 6 => check.issuer = check.digest.signer /\ check.holder = check.digest.cnf
    <3>1. 1 \in 1 .. 6
      OBVIOUS
    <3> QED
      BY <3>1 DEF CheckInv, VerifiedByKeys
  <2>2. ~disturbed /\ now < check.digest.exp + Leeway => check.verified = 1 .. 6
    <3>1. check.n = 7 /\ check.verified \subseteq 1 .. 6
      BY <1>1 DEF CheckInv, CheckFollows, CheckTypeOK
    <3>2. ~disturbed /\ now < check.digest.exp + Leeway => 1 .. (7 - 1) \subseteq check.verified
      BY <1>1, <3>1 DEF CheckInv, TriedVerified
    <3> QED
      BY <3>1, <3>2
  <2>3. check.digest.exp \in Int /\ Leeway \in Nat
    BY <1>1, MandateAssumption DEF CheckInv, CheckFollows, MintInv, FrozenMinted, RunCredential
  <2>4. now >= check.digest.exp + Leeway \/ now < check.digest.exp + Leeway
    BY <1>2, <2>3
  <2>5. Finding \in {"passes", "CHECK FAILED"} /\ (Finding = "passes" <=> check.verified = 1 .. 6)
    BY DEF Finding
  <2> QED
    BY <1>1, <1>2, <1>4, <2>1, <2>2, <2>4, <2>5 DEF CheckIsRight
<1> QED
  BY <1>5, <1>6 DEF CheckInv

LEMMA CheckNext ==
    MintInv /\ MintInv' /\ CheckInv /\ [CheckStep \/ MintStep]_allVars => CheckInv'
<1> SUFFICES ASSUME MintInv, MintInv', CheckInv, [CheckStep \/ MintStep]_allVars PROVE CheckInv'
  OBVIOUS
<1>1. TypeOK'
  BY DEF MintInv
<1>2. CASE CheckEnds
  <2>1. check' = NoCheck /\ disturbed' = FALSE
    BY <1>2 DEF CheckEnds
  <2>2. check'.pc = "idle" /\ check'.verified = {}
    BY <2>1 DEF NoCheck
  <2> QED
    BY <1>1, <2>1, <2>2 DEF CheckInv, CheckTypeOK, CheckFollows, VerifiedByKeys, Running,
        Undisturbed, TriedVerified, CheckIsRight
<1>3. CASE UNCHANGED allVars
  <2>1. UNCHANGED <<check, disturbed, now, dir, frozen>>
    BY <1>3 DEF allVars, vars, checkVars
  <2> QED
    BY <1>1, <2>1 DEF CheckInv, CheckTypeOK, CheckFollows, VerifiedByKeys, Running,
        Undisturbed, TriedVerified, CheckIsRight
<1> QED
  BY <1>1, <1>2, <1>3, CheckMintStep, CheckReadCredential, CheckReadHolder, CheckReadIssuer,
     CheckPresentNext, CheckWriteRecord DEF CheckStep

(* Both processes keep their invariants, however they interleave.           *)
THEOREM CheckSafe == CheckSpec => [](MintInv /\ CheckInv)
<1>1. CheckInit => MintInv /\ CheckInv
  BY MintInit, CheckInitially DEF CheckInit
<1>2. MintInv /\ CheckInv /\ [CheckStep \/ MintStep]_allVars => (MintInv /\ CheckInv)'
  BY CheckMintNext, CheckNext
<1> QED
  BY <1>1, <1>2, PTL DEF CheckSpec

(* By construction, as the check has no step that writes: beside it the     *)
(* mint behaves as it does alone, and the theorems about Spec hold.         *)
LEMMA CheckImplementsMint == CheckSpec => Spec
<1>1. CheckInit => Init
  BY DEF CheckInit
<1>2. [CheckStep \/ MintStep]_allVars => [Next]_vars
  BY CheckReadsOnly DEF MintStep, allVars
<1> QED
  BY <1>1, <1>2, PTL DEF CheckSpec, Spec

(* The check's variables keep their types, and it presents only what it     *)
(* found under the digest it was asked about.                               *)
THEOREM CheckTypeCorrect == CheckSpec => []CheckTypeOK
<1>1. CheckInv => CheckTypeOK
  BY DEF CheckInv
<1> QED
  BY <1>1, CheckSafe, PTL

(* presentation_invariance_check.py passes a frozen credential only under   *)
(* its own keys, and fails it only if it expired or a mint wrote into the   *)
(* directory meanwhile, although it reads three files at three times.       *)
THEOREM CheckRight == CheckSpec => []CheckIsRight
<1>1. CheckInv => CheckIsRight
  BY DEF CheckInv
<1> QED
  BY <1>1, CheckSafe, PTL
=============================================================================
