------------------------------- MODULE MintRun -------------------------------
(***************************************************************************)
(* interop/mint_run_credential.py: mint one credential, check it in two     *)
(* cases, write six files into a run directory.  The files are opened,      *)
(* which empties them, and filled one after another; the process may be     *)
(* killed anywhere and started again over what it left.                     *)
(***************************************************************************)
EXTENDS ScopeGate, Sequences

CONSTANTS
    Holder,
    Manifests,          \* composition manifests: see ManifestType
    Exps,               \* values of --exp
    Absent, Truncated,  \* a file that does not exist, or was opened and not yet filled
    Nothing,
    MaxTime             \* bound of the clock

(* What main reads of a manifest; its amounts are JSON numbers.             *)
Number == {v \in Amount : v.type # "other"}
ManifestType ==
    [action_id : Text, outcome : Outcome, action_hash : ActHash, allowed_actions : SUBSET Text,
     action_commitments : SUBSET ActHash, max_spend : Number, positive : Number, over_limit : Number]

ASSUME MintRunAssumption ==
    /\ Manifests \subseteq ManifestType
    /\ Exps \subseteq Nat /\ MaxTime \in Nat
    /\ Issuer \subseteq Endorsers       \* the self-check lists whoever minted

(* The credential of a run: its salts are named after the issuer's key.     *)
RunClaim == {"principal", "ear_status", "composition_action_id"}
RunCredential ==
    [signer : Issuer, scope : ScopeObject, action_hash : ActHash, cnf : Holder,
     iat : Nat, exp : Int, jti : {"mm-run"},
     sd : SUBSET [salt : Issuer, name : RunClaim, value : {"P", "affirming", "run"}]]

(* An absent or an empty file holds neither a key nor a credential.         *)
ASSUME FileAssumption ==
    /\ Absent \notin Issuer \cup Holder \cup RunCredential
    /\ Truncated \notin Issuer \cup Holder \cup RunCredential

(* Mutant: the credential is written last, as if it crowned the others.     *)
Bug_Order == <<"credential-preimage.jwt", "issuer.jwk", "issuer-key.pem", "holder-key.pem",
               "mint-record.json", "credential.sdjwt">>

(* The order of the six writes.                                             *)
Order == <<"credential.sdjwt", "credential-preimage.jwt", "issuer.jwk", "issuer-key.pem",
           "holder-key.pem", "mint-record.json">>
File == {Order[k] : k \in 1 .. 6}

VARIABLES
    now,
    pc,                 \* the next statement; "idle" when no mint runs
    manifest, exp,      \* f and --exp, of the run or of the last one
    clock,              \* main's own reading of the clock
    minted,             \* the keys and the credential of this run
    results,            \* what the self-check recorded, case by case
    k,                  \* the file that is written next
    dir,                \* the run directory
    exit,               \* how the last run ended
    used, start, frozen \* history: keys generated, dir at the start, digests frozen

vars == <<now, pc, manifest, exp, clock, minted, results, k, dir, exit, used, start, frozen>>
args == <<manifest, exp>>
locals == <<clock, minted, results, k>>
history == <<used, start, frozen>>

TypeOK ==
    /\ now \in Nat
    /\ pc \in {"idle", "clock", "mint", "check", "open", "fill", "report"}
    /\ pc # "idle" => manifest \in Manifests /\ exp \in Exps
    /\ pc = "check" => Len(results) < 2
    /\ pc \in {"open", "fill"} => Len(results) = 2 /\ k \in 1 .. 6
    /\ DOMAIN dir = File
    /\ exit \in {"none", "ok", "aborted", "KeyError", "self-check failed", "killed"}

Init ==
    /\ now = 0 /\ pc = "idle"
    /\ manifest = Nothing /\ exp = Nothing
    /\ clock = 0 /\ minted = Nothing /\ results = <<>> /\ k = 1
    /\ dir = [f \in File |-> Absent] /\ start = dir
    /\ exit = "none"
    /\ used = {} /\ frozen = {}

Tick ==
    /\ now < MaxTime /\ now' = now + 1
    /\ UNCHANGED <<pc, args, locals, dir, exit, history>>

(* The process ends, and its variables with it.                             *)
Ends(how) ==
    /\ pc' = "idle" /\ exit' = how
    /\ clock' = 0 /\ minted' = Nothing /\ results' = <<>> /\ k' = 1
    /\ UNCHANGED args

Start(m, e) ==
    /\ pc = "idle"
    /\ manifest' = m /\ exp' = e
    /\ pc' = "clock" /\ start' = dir /\ exit' = "none"
    /\ UNCHANGED <<now, locals, dir, used, frozen>>

(* The checks before anything is minted: the seal and the commitments       *)
(* re-derived, a spend limit int() leaves alone, an expiry ahead of now.    *)
Consistent(m) ==
    LET derived == action_hash_of(m.action_id, m.outcome)
    IN /\ m.action_hash = derived
       /\ m.action_commitments = {derived}
       /\ ~m.max_spend.frac

ReadClock ==
    /\ pc = "clock"
    /\ IF Consistent(manifest) /\ exp > now
       THEN pc' = "mint" /\ clock' = now /\ UNCHANGED <<args, minted, results, k, exit>>
       ELSE Ends("aborted")
    /\ UNCHANGED <<now, dir, history>>

(* issue_sd under fresh keys, with a jti of the run.  It reads the clock    *)
(* again and adds the time to live main computed from its own reading.      *)
Credential(issuer, holder) ==
    LET scope == [allowed_actions |-> manifest.allowed_actions,
                  action_commitments |-> manifest.action_commitments,
                  max_spend |-> Int_(manifest.max_spend)]
        sd_claims == [principal |-> "P", ear_status |-> "affirming", composition_action_id |-> "run"]
    IN [issue_sd(issuer, scope, manifest.action_hash, holder, sd_claims, issuer, now)
            EXCEPT !.exp = now + (exp - clock), !.jti = "mm-run"]

(* Mutant: the credential is saved as soon as it exists.                    *)
Bug_Mint(issuer, holder) ==
    /\ pc = "mint" /\ used \cap {issuer, holder} = {}
    /\ minted' = [issuer |-> issuer, holder |-> holder, jwt |-> Credential(issuer, holder)]
    /\ dir' = [dir EXCEPT !["credential.sdjwt"] = Credential(issuer, holder)]
    /\ used' = used \cup {issuer, holder}
    /\ pc' = "check"
    /\ UNCHANGED <<now, args, clock, results, k, exit, start, frozen>>

Mint(issuer, holder) ==
    /\ pc = "mint" /\ used \cap {issuer, holder} = {}
    /\ minted' = [issuer |-> issuer, holder |-> holder, jwt |-> Credential(issuer, holder)]
    /\ used' = used \cup {issuer, holder}
    /\ pc' = "check"
    /\ UNCHANGED <<now, args, clock, results, k, dir, exit, start, frozen>>

(* One case of self_check: a fresh relying party, a fresh KB-JWT, the fixed *)
(* quote against its own nonce.  A presentation that no longer verifies     *)
(* leaves no scope_check in the result: KeyError.                           *)
SelfCheck ==
    /\ pc = "check"
    /\ LET amount == IF results = <<>> THEN manifest.positive ELSE manifest.over_limit
           req == [action_id |-> manifest.action_id, outcome |-> manifest.outcome, amount |-> amount]
           vp == present_sd(minted.jwt, minted.holder, "rp", AUD, {"principal", "ear_status"}, now)
           quote == [nonce |-> "quote", status |-> "affirming"]
           gates == verify([nonce |-> "rp", challenge |-> "quote"], AUD, vp, minted.issuer,
                           quote, quote, now)
       IN IF verify_presentation_sd(vp, minted.issuer, "rp", AUD, now)
          THEN /\ results' = Append(results,
                     [verdict |-> verify_scoped(gates, vp, minted.issuer, "rp", req, now),
                      committed |-> Committed(Claims(vp), req),
                      within |-> WithinLimit(Claims(vp), req)])
               /\ pc' = IF results = <<>> THEN "check" ELSE "open"
               /\ UNCHANGED <<args, clock, minted, k, exit>>
          ELSE Ends("KeyError")
    /\ UNCHANGED <<now, dir, history>>

all_match == results[1].verdict = "ACCEPT" /\ results[2].verdict = "DENY"
ordering_ok == results[2].committed /\ ~results[2].within

(* write(): open() empties the file ...                                     *)
Open ==
    /\ pc = "open"
    /\ dir' = [dir EXCEPT ![Order[k]] = Truncated]
    /\ pc' = "fill"
    /\ UNCHANGED <<now, args, locals, exit, history>>

Content(f) ==
    CASE f \in {"credential.sdjwt", "credential-preimage.jwt"} -> minted.jwt
      [] f \in {"issuer.jwk", "issuer-key.pem"} -> minted.issuer
      [] f = "holder-key.pem" -> minted.holder
      [] f = "mint-record.json" ->
            [digest |-> minted.jwt, iat_utc |-> clock, exp_utc |-> exp,
             all_match |-> all_match, ordering_ok |-> ordering_ok]

(* Mutant: one file too many.                                               *)
Bug_Fill ==
    /\ pc = "fill"
    /\ dir' = [dir EXCEPT ![Order[k]] = Content(Order[k])]
    /\ k' = k + 1
    /\ pc' = IF k > 6 THEN "report" ELSE "open"
    /\ UNCHANGED <<now, args, clock, minted, results, exit, history>>

(* ... and what was written is in it once it is closed.                     *)
Fill ==
    /\ pc = "fill"
    /\ dir' = [dir EXCEPT ![Order[k]] = Content(Order[k])]
    /\ k' = k + 1
    /\ pc' = IF k = 6 THEN "report" ELSE "open"
    /\ UNCHANGED <<now, args, clock, minted, results, exit, history>>

(* Mutant: the spend gate alone decides.                                    *)
Bug_Report ==
    /\ pc = "report"
    /\ IF ordering_ok
       THEN Ends("ok") /\ frozen' = frozen \cup {minted.jwt}
       ELSE Ends("self-check failed") /\ UNCHANGED frozen
    /\ UNCHANGED <<now, dir, used, start>>

(* The result of the self-check is acted on last; on success the operator   *)
(* freezes the digest printed.                                              *)
Report ==
    /\ pc = "report"
    /\ IF all_match /\ ordering_ok
       THEN Ends("ok") /\ frozen' = frozen \cup {minted.jwt}
       ELSE Ends("self-check failed") /\ UNCHANGED frozen
    /\ UNCHANGED <<now, dir, used, start>>

Killed ==
    /\ pc # "idle" /\ Ends("killed")
    /\ UNCHANGED <<now, dir, history>>

Next ==
    \/ Tick
    \/ \E m \in Manifests, e \in Exps : Start(m, e)
    \/ ReadClock
    \/ \E issuer \in Issuer, holder \in Holder : Mint(issuer, holder)
    \/ SelfCheck \/ Open \/ Fill \/ Report \/ Killed

Spec == Init /\ [][Next]_vars

-----------------------------------------------------------------------------
(* A frozen credential is never found beside the keys of another mint, not  *)
(* even after a second mint into its directory was killed halfway: where    *)
(* the credential is the frozen one, the files beside it are its own.       *)
FrozenStaysUsable ==
    \A d \in frozen :
        dir["credential.sdjwt"] = d =>
            /\ dir["issuer.jwk"] = d.signer /\ dir["issuer-key.pem"] = d.signer
            /\ dir["holder-key.pem"] = d.cnf

(* A mint that ends well leaves a record of the credential beside it, whose *)
(* manifest really allows the positive case and forbids the other one.      *)
SuccessIsChecked ==
    exit = "ok" =>
        /\ dir["mint-record.json"].digest = dir["credential.sdjwt"]
        /\ dir["credential-preimage.jwt"] = dir["credential.sdjwt"]
        /\ manifest.action_id \in manifest.allowed_actions
        /\ Int_(manifest.positive) <= Int_(manifest.max_spend)
        /\ Int_(manifest.over_limit) > Int_(manifest.max_spend)

(* A mint that gives up, on its inputs or because the credential expired    *)
(* under the self-check, leaves the directory as it found it.               *)
AbortLeavesDirectory == exit \in {"aborted", "KeyError"} => dir = start

(* mint_run_credential.py:19, of the subject and the expiry window: "Both   *)
(* are recorded verbatim in mint-record.json".  The expiry recorded is the  *)
(* one the credential beside it was signed with.                            *)
RecordedWindowIsSigned ==
    exit = "ok" => dir["mint-record.json"].exp_utc = dir["credential.sdjwt"].exp

-----------------------------------------------------------------------------
(* The inductive invariant, in named parts.                                 *)

(* A run has no exit yet, and touches the directory only to write it.       *)
RunPending ==
    /\ pc # "idle" => exit = "none"
    /\ pc \in {"clock", "mint", "check"} => dir = start

(* What main has not come to yet.                                           *)
NotYet ==
    /\ pc \in {"idle", "clock", "mint"} => results = <<>>
    /\ pc \in {"idle", "clock", "mint", "check"} => k = 1
    /\ pc = "mint" => clock \in Nat

(* What is checked and written is a credential of this run, under keys that *)
(* no frozen credential has.                                                *)
MintedFresh ==
    pc \in {"check", "open", "fill", "report"} =>
        /\ minted.jwt \in RunCredential
        /\ minted.jwt.signer = minted.issuer /\ minted.jwt.cnf = minted.holder
        /\ minted.jwt.iat <= now
        /\ minted.jwt.scope.allowed_actions = manifest.allowed_actions
        /\ minted.jwt.scope.max_spend = Int_(manifest.max_spend)
        /\ minted.issuer \in used
        /\ \A d \in frozen : d.signer # minted.issuer

(* What the self-check has recorded so far says this of the manifest.       *)
Result == [verdict : {"ACCEPT", "DENY", "raised"}, committed : BOOLEAN, within : BOOLEAN]
ResultsSay ==
    /\ results \in Seq(Result)
    /\ pc = "report" => Len(results) = 2
    /\ Len(results) >= 1 /\ results[1].verdict = "ACCEPT" =>
          /\ manifest.action_id \in manifest.allowed_actions
          /\ Int_(manifest.positive) <= Int_(manifest.max_spend)
    /\ Len(results) >= 2 /\ ~results[2].within =>
          Int_(manifest.over_limit) > Int_(manifest.max_spend)

(* The files before the k-th are written, the k-th is empty or as it was.   *)
Written ==
    pc \in {"open", "fill", "report"} =>
        /\ \A j \in 1 .. 6 : j < k => dir[Order[j]] = Content(Order[j])
        /\ pc = "fill" => dir[Order[k]] = Truncated
        /\ pc = "report" => k = 7

FrozenMinted ==
    \A d \in frozen : d \in RunCredential /\ d.signer \in used /\ d.iat <= now

MintInv ==
    /\ TypeOK
    /\ RunPending /\ NotYet
    /\ MintedFresh
    /\ ResultsSay
    /\ Written
    /\ FrozenMinted /\ FrozenStaysUsable
    /\ SuccessIsChecked
    /\ AbortLeavesDirectory
=============================================================================
