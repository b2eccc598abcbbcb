------------------------------- MODULE Harness -------------------------------
(***************************************************************************)
(* One run of a harness through the gates: verifier_core.evaluate,          *)
(* agent_demo.run_case, forged_credential and untrusted_issuer of           *)
(* run_ablation.py, and one case of the tables of mock_verifier.py (L1-L3   *)
(* only) and scope_enforce.py (with the L4 of ScopeGate).  A harness plays  *)
(* issuer, wallet, attester and relying party in one thread; the clock      *)
(* moves between its steps.                                                 *)
(***************************************************************************)
EXTENDS ScopeGate

CONSTANTS
    Harnesses,          \* which of the six are run
    Nonce, Challenge,   \* what request() may draw
    SessionNonce,       \* the challenge a main draws for all its cases
    StaleChallenge,     \* the challenge of a finished session
    Holder,             \* the holder of the credential
    Listed, Unlisted,   \* an issuer the trusted list names, and one it does not
    OtherRole,          \* one it names under another service type
    Actions, Scope,
    Requests, ActScope, \* actions and scope of scope_enforce
    MaxTime             \* bound of the clock

(* The harnesses that remove the trusted list in a finally clause, and      *)
(* those whose evidence and session nonce were made by their main.          *)
CleansList(h) == h \in {"evaluate", "run_case"}
FromMain(h) == h \in {"run_case", "mock_verifier", "verify_scoped"}

Request == [action_id : Text, outcome : Outcome, amount : Amount]

ASSUME HarnessAssumption ==
    /\ Harnesses \subseteq {"evaluate", "run_case", "forged_credential", "untrusted_issuer",
                            "mock_verifier", "verify_scoped"}
    /\ Actions \subseteq Action /\ Requests \subseteq Request
    /\ Scope \in [allowed_actions : SUBSET Text, max_spend : Int]
    /\ ActScope \in ScopeObject
    /\ Listed \in Endorsers /\ {Unlisted, OtherRole} \subseteq Issuer \ Endorsers
    /\ Broken \notin Issuer
    /\ StaleChallenge \notin Challenge /\ SessionNonce \notin Challenge \cup {StaleChallenge}
    /\ MaxTime \in Nat

VARIABLES
    run,        \* the arguments: what is approved, what is executed, the evidence
    pc,         \* the next statement
    now,
    files,      \* what the run has left on disk: the trusted list, the evidence
    session,    \* rp.nonce and rp.challenge
    vp,         \* the token, Missing before it exists
    quote,      \* the evidence, Missing before it exists (quote and EAR agree)
    passed,     \* the gates found True; a gate in neither set is None
    denied,     \* the gates found False
    reason,     \* l4_reason of run_case
    outcome     \* "running", the verdict, or "raised"

vars == <<run, pc, now, files, session, vp, quote, passed, denied, reason, outcome>>

Missing == [missing |-> TRUE]
AllGates == {"L1", "L2", "L3", "L4"}

(* The arguments a harness can be called with; a good action is approved    *)
(* and executed unless the caller says otherwise.  The ablation runs and    *)
(* the mock use one good action, run_case gets fresh evidence only.         *)
Call(h, mandated, executed) ==
    [harness |-> h, issuer |-> Listed, mandated |-> mandated, executed |-> executed,
     replay |-> FALSE, contraindicated |-> FALSE]
Good == {a \in Actions : Sealable(a)}

Variant(r, issuer, replay, contraindicated) ==
    [r EXCEPT !.issuer = issuer, !.replay = replay, !.contraindicated = contraindicated]
ScopedCall(a, b, issuer, replay) == Variant(Call("verify_scoped", a, b), issuer, replay, FALSE)

Runs ==
    {r \in
        {Variant(Call("evaluate", a, b), Listed, re, c) :
            a \in Actions, b \in Actions, re \in BOOLEAN, c \in BOOLEAN}
        \cup {Call("run_case", a, b) : a \in Actions, b \in Actions}
        \cup {Call("forged_credential", a, a) : a \in Good}
        \cup {Variant(Call("untrusted_issuer", a, a), Unlisted, FALSE, FALSE) : a \in Good}
        \cup {Variant(Call("mock_verifier", a, a), i, re, c) :
            a \in Good, i \in {Listed, OtherRole, Unlisted}, re \in BOOLEAN, c \in BOOLEAN}
        \cup {ScopedCall(a, b, i, re) :
            a \in Requests, b \in Requests, i \in {Listed, OtherRole, Unlisted}, re \in BOOLEAN}
      : r.harness \in Harnesses}

Evidence(r) == IF r.contraindicated THEN "contraindicated" ELSE "affirming"
Needed(h) == IF h = "mock_verifier" THEN {"L1", "L2", "L3"} ELSE AllGates

TypeOK ==
    /\ run # Missing =>
          /\ run.harness \in Harnesses /\ run.issuer \in Issuer
          /\ run.mandated \in Action \cup Request /\ run.executed \in Action \cup Request
    /\ pc \in {"idle", "make_tl", "request", "issue", "rebind", "verify", "l4", "conclude",
              "finally", "done"}
    /\ now \in Nat
    /\ files \subseteq {"tl", "evidence"}
    /\ passed \subseteq AllGates /\ denied \subseteq AllGates
    /\ passed \cap denied = {}
    /\ outcome \in {"running", "ACCEPT", "DENY", "raised"}

Init ==
    /\ run \in Runs /\ pc = "make_tl" /\ now = 0 /\ files = {}
    /\ session = Missing /\ vp = Missing /\ quote = Missing
    /\ passed = {} /\ denied = {} /\ reason = "none" /\ outcome = "running"

(* The state in which a main begins its next case, and between two cases.   *)
Fresh(r, at) ==
    /\ run' = r /\ pc' = at /\ files' = {}
    /\ session' = Missing /\ vp' = Missing /\ quote' = Missing
    /\ passed' = {} /\ denied' = {} /\ reason' = "none" /\ outcome' = "running"

Tick ==
    /\ pc \notin {"idle", "done"} /\ now < MaxTime
    /\ now' = now + 1
    /\ UNCHANGED <<run, pc, files, session, vp, quote, passed, denied, reason, outcome>>

(* make_tl writes the trusted list to a temporary file that MockVerifier    *)
(* reads.                                                                   *)
MakeTrustedList ==
    /\ pc = "make_tl"
    /\ files' = files \cup {"tl"}
    /\ pc' = "request"
    /\ UNCHANGED <<run, now, session, vp, quote, passed, denied, reason, outcome>>

request ==
    /\ pc = "request"
    /\ \E n \in Nonce, c \in Challenge : session' = [nonce |-> n, challenge |-> c]
    /\ pc' = "issue"
    /\ UNCHANGED <<run, now, files, vp, quote, passed, denied, reason, outcome>>

(* What the credential is minted for: an action of the demo, or an act of   *)
(* scope_enforce, whose seal refuses nothing.                               *)
Refused(r) == r.harness # "verify_scoped" /\ ~Sealable(r.mandated)
ScopeOf(r) == IF r.harness = "verify_scoped" THEN ActScope ELSE Scope
HashOf(r) == IF r.harness = "verify_scoped"
             THEN action_hash_of(r.mandated.action_id, r.mandated.outcome)
             ELSE action_hash(r.mandated)

(* issue_action_mandate, wallet_present and scoped_wallet_present issue and *)
(* present in one call; the mock's wallet claims what its evidence says.    *)
SdClaims(r) ==
    [principal |-> "P",
     ear_status |-> IF r.harness = "mock_verifier" THEN Evidence(r) ELSE "affirming"]

Token(r, s, issued) ==
    LET jwt == issue_sd(r.issuer, ScopeOf(r), HashOf(r), Holder, SdClaims(r), "salt", issued)
        token == present_sd(jwt, Holder, s.nonce, AUD, DOMAIN SdClaims(r), issued)
    IN IF r.harness = "forged_credential" THEN [token EXCEPT !.jwt.signer = Broken] ELSE token

issue_action_mandate ==
    /\ pc = "issue" /\ ~Refused(run)
    /\ vp' = Token(run, session, now)
    /\ pc' = "rebind"
    /\ UNCHANGED <<run, now, files, session, quote, passed, denied, reason, outcome>>

(* The seal refuses the approved action: ValueError leaves the harness.     *)
IssueRaises ==
    /\ pc = "issue" /\ Refused(run)
    /\ outcome' = "raised"
    /\ pc' = "finally"
    /\ UNCHANGED <<run, now, files, session, vp, quote, passed, denied, reason>>

(* The evidence is rebound to the challenge just chosen, or to an earlier   *)
(* one (replay); a main's evidence was bound to the nonce it drew.          *)
rebind_evidence ==
    /\ pc = "rebind"
    /\ quote' = [nonce |-> IF run.replay THEN StaleChallenge
                            ELSE IF FromMain(run.harness) THEN SessionNonce
                            ELSE session.challenge,
                  status |-> Evidence(run)]
    /\ files' = IF FromMain(run.harness) THEN files ELSE files \cup {"evidence"}
    /\ pc' = "verify"
    /\ UNCHANGED <<run, now, session, vp, passed, denied, reason, outcome>>

(* rp.verify with rp.challenge as the session nonce, or with the nonce of   *)
(* main.  forged_credential, untrusted_issuer and the mock stop after it,   *)
(* scope_enforce goes on to L4 in any case, the others when the three gates *)
(* passed.                                                                  *)
Verify ==
    /\ pc = "verify"
    /\ LET challenge == IF FromMain(run.harness) THEN SessionNonce ELSE session.challenge
           gates == verify([session EXCEPT !.challenge = challenge], AUD, vp, run.issuer,
                           quote, quote, now)
       IN /\ passed' = {g \in {"L1", "L2", "L3"} : gates[g]}
          /\ denied' = IF run.harness = "forged_credential" THEN {"L1"} \ passed'
                       ELSE {"L1", "L2", "L3"} \ passed'
          /\ pc' = IF \/ run.harness = "verify_scoped"
                      \/ BaseAccepts(gates) /\ CleansList(run.harness)
                   THEN "l4" ELSE "conclude"
    /\ UNCHANGED <<run, now, files, session, vp, quote, reason, outcome>>

(* verify_l4_scope.  evaluate lets its exception through, closing the       *)
(* evidence directory on the way; run_case turns it into a denial.          *)
VerifyL4 ==
    /\ pc = "l4" /\ run.harness # "verify_scoped"
    /\ LET l4 == verify_l4_scope(vp, run.issuer, session.nonce, run.executed, now)
           raises == l4 = "raised" /\ run.harness = "evaluate"
       IN /\ passed' = IF l4 = "ok" THEN passed \cup {"L4"} ELSE passed
          /\ denied' = IF l4 = "ok" \/ raises THEN denied ELSE denied \cup {"L4"}
          /\ outcome' = IF raises THEN "raised" ELSE outcome
          /\ reason' = IF run.harness = "run_case" THEN l4 ELSE reason
          /\ pc' = IF raises THEN "finally" ELSE "conclude"
          /\ files' = IF raises THEN files \ {"evidence"} ELSE files
    /\ UNCHANGED <<run, now, session, vp, quote>>

(* The second half of verify_scoped, whatever the base gates said.          *)
VerifyScoped ==
    /\ pc = "l4" /\ run.harness = "verify_scoped"
    /\ LET raises == AmountRaises(vp, run.issuer, session.nonce, run.executed, now)
           ok == L4_in_scope(vp, run.issuer, session.nonce, run.executed, now)
       IN /\ passed' = IF ok /\ ~raises THEN passed \cup {"L4"} ELSE passed
          /\ denied' = IF ok \/ raises THEN denied ELSE denied \cup {"L4"}
          /\ outcome' = IF raises THEN "raised" ELSE outcome
          /\ pc' = IF raises THEN "finally" ELSE "conclude"
    /\ UNCHANGED <<run, now, files, session, vp, quote, reason>>

(* Mutant: run_case calls every gate denied.                                 *)
Bug_Conclude ==
    /\ pc = "conclude"
    /\ outcome' = IF passed = Needed(run.harness) THEN "ACCEPT" ELSE "DENY"
    /\ denied' = IF run.harness = "run_case" THEN AllGates ELSE denied
    /\ files' = files \ {"evidence"}
    /\ pc' = "finally"
    /\ UNCHANGED <<run, now, session, vp, quote, passed, reason>>

(* The evidence directory is closed and the verdict taken: ACCEPT only if   *)
(* every gate is True.  run_case reports L4 as False when it was not run.   *)
Conclude ==
    /\ pc = "conclude"
    /\ outcome' = IF passed = Needed(run.harness) THEN "ACCEPT" ELSE "DENY"
    /\ denied' = IF run.harness = "run_case" THEN AllGates \ passed ELSE denied
    /\ files' = files \ {"evidence"}
    /\ pc' = "finally"
    /\ UNCHANGED <<run, now, session, vp, quote, passed, reason>>

(* Who leaves a trusted list behind: the two runs of the ablation that have *)
(* no finally clause, and the mains of the two tables when a case raises.   *)
LeavesList(h, how) ==
    \/ h \in {"forged_credential", "untrusted_issuer"}
    \/ h \in {"mock_verifier", "verify_scoped"} /\ how = "raised"

(* Mutant: the unlink follows the return instead of being in a finally.      *)
Bug_Finally ==
    /\ pc = "finally"
    /\ files' = IF outcome = "raised" \/ LeavesList(run.harness, outcome)
                THEN files ELSE files \ {"tl"}
    /\ pc' = "done"
    /\ UNCHANGED <<run, now, session, vp, quote, passed, denied, reason, outcome>>

Finally ==
    /\ pc = "finally"
    /\ files' = IF LeavesList(run.harness, outcome) THEN files ELSE files \ {"tl"}
    /\ pc' = "done"
    /\ UNCHANGED <<run, now, session, vp, quote, passed, denied, reason, outcome>>

Step ==
    \/ MakeTrustedList \/ request \/ issue_action_mandate \/ IssueRaises
    \/ rebind_evidence \/ Verify \/ VerifyL4 \/ VerifyScoped \/ Conclude \/ Finally

Next == Tick \/ Step

(* The thread runs on: a harness blocks on nothing.                         *)
Spec == Init /\ [][Next]_vars /\ WF_vars(Step)

-----------------------------------------------------------------------------
(* The run's own account of what is wrong with it.                          *)
Unlike(r) ==
    IF r.harness = "verify_scoped"
    THEN \/ nfc[r.mandated.action_id] # nfc[r.executed.action_id]
         \/ r.mandated.outcome # r.executed.outcome
    ELSE ~(Sealable(r.executed) /\ SameAction(r.mandated, r.executed))
OutOfScope(r) ==
    IF r.harness = "verify_scoped"
    THEN \/ r.executed.action_id \notin ActScope.allowed_actions
         \/ action_hash_of(r.executed.action_id, r.executed.outcome)
               \notin ActScope.action_commitments
         \/ Int_(r.executed.amount) > ActScope.max_spend
    ELSE \/ r.executed.tool \notin Scope.allowed_actions
         \/ r.executed.amount_eur.floor > Scope.max_spend

(* Nothing is accepted that is stale, contraindicated, signed by an issuer  *)
(* not listed as an endorser, forged, or, where L4 is run, different from   *)
(* what was approved or out of scope.                                       *)
AcceptsOnlySound ==
    outcome = "ACCEPT" =>
        /\ ~LeavesList(run.harness, outcome)
        /\ run.issuer = Listed /\ ~run.replay /\ ~run.contraindicated
        /\ run.harness # "mock_verifier" => ~Unlike(run) /\ ~OutOfScope(run)

(* The credential has expired since it was issued.                          *)
Expired == now >= vp.jwt.exp + Leeway

(* The gate that denies first names the cause, as the rows of the ablation  *)
(* table claim (run_ablation.py CASES): L1 for a broken or expired          *)
(* credential, L2 for the evidence, L3 for the issuer, L4 for the action;   *)
(* an expiry that falls between L1 and L4 is charged to L4.                 *)
DenierNamesCause ==
    outcome = "DENY" =>
        /\ "L1" \in denied => run.harness = "forged_credential" \/ Expired
        /\ "L1" \in passed /\ "L2" \in denied => run.replay \/ run.contraindicated
        /\ "L1" \in passed /\ "L3" \in denied => run.issuer # Listed
        /\ {"L1", "L2", "L3"} \subseteq passed /\ "L4" \in denied =>
              Unlike(run) \/ OutOfScope(run) \/ Expired

(* agent_demo.py:164: "An action the seal cannot represent is denied, not   *)
(* coerced and not crashed."                                                *)
UnsealableIsDenied ==
    pc = "done" /\ ~Sealable(run.executed) => outcome = "DENY"

(* agent_demo.py:238: "The relying party chooses the challenge" that the    *)
(* evidence of an accepted case answers.                                    *)
RelyingPartyChoseChallenge ==
    outcome = "ACCEPT" => quote.nonce = session.challenge
=============================================================================
